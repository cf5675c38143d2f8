-------------------------------- MODULE Numbers ---------------------------------
(***************************************************************************)
(* What the prover is not told about numbers.  Powers of two bound the     *)
(* heat of a tag and the capacity of a trace; what is needed of them       *)
(* follows from the number of subsets of a finite set.  That a set of      *)
(* numbers has a least element takes the place of induction.               *)
(***************************************************************************)
EXTENDS Integers, FiniteSets, FiniteSetTheorems, TLAPS

\* 2 ^ n counts the subsets of a set of n elements.
LEMMA PowerCounts ==
  ASSUME NEW n \in Nat
  PROVE  IsFiniteSet(SUBSET (1 .. n)) /\ Cardinality(SUBSET (1 .. n)) = 2 ^ n
  <1>1. IsFiniteSet(1 .. n) /\ Cardinality(1 .. n) = n
    BY FS_Interval
  <1> QED
    BY <1>1, FS_SUBSET

\* A power of two is a positive number.
LEMMA PowerPositive ==
  ASSUME NEW n \in Nat
  PROVE  2 ^ n \in Nat \ {0}
  <1>1. SUBSET (1 .. n) # {}
    OBVIOUS
  <1>2. Cardinality(SUBSET (1 .. n)) \in Nat
    BY PowerCounts, FS_CardinalityType
  <1>3. Cardinality(SUBSET (1 .. n)) # 0
    BY <1>1, PowerCounts, FS_EmptySet
  <1> QED
    BY <1>2, <1>3, PowerCounts

\* The next power of two is twice as large: a subset of n + 1 elements is a subset of
\* the first n, with the last one or without it.
LEMMA PowerDoubles ==
  ASSUME NEW n \in Nat
  PROVE  2 ^ (n + 1) = 2 * 2 ^ n
  <1> DEFINE S == SUBSET (1 .. n)
             T == SUBSET (1 .. n + 1)
             P == S \X (0 .. 1)
             f == [p \in P |-> IF p[2] = 1 THEN p[1] \cup {n + 1} ELSE p[1]]
  <1>1. IsFiniteSet(S) /\ Cardinality(S) = 2 ^ n /\ 2 ^ n \in Nat
    BY PowerCounts, PowerPositive
  <1>2. n + 1 \in Nat /\ IsFiniteSet(T) /\ Cardinality(T) = 2 ^ (n + 1)
    BY PowerCounts
  <1>3. IsFiniteSet(0 .. 1) /\ Cardinality(0 .. 1) = 2
    <2>1. 0 \in Int /\ 1 \in Int /\ (IF 0 > 1 THEN 0 ELSE 1 - 0 + 1) = 2
      OBVIOUS
    <2> QED
      BY <2>1, FS_Interval, Zenon
  <1>4. IsFiniteSet(P) /\ Cardinality(P) = 2 ^ n * 2
    <2>1. IsFiniteSet(S \X (0 .. 1)) /\ Cardinality(S \X (0 .. 1)) = Cardinality(S) * Cardinality(0 .. 1)
      <3> HIDE DEF S
      <3> QED
        BY <1>1, <1>3, FS_Product, Zenon
    <2> QED
      BY <2>1, <1>1, <1>3, Zenon
  <1>5. \A A \in S : n + 1 \notin A /\ A \in T /\ A \cup {n + 1} \in T
    OBVIOUS
  <1>b. ASSUME NEW B \in T PROVE B \ {n + 1} \in S /\ (n + 1 \notin B => B \in S)
    <2>1. \A x \in 1 .. n + 1 : x # n + 1 => x \in 1 .. n
      OBVIOUS
    <2>2. \A x \in B : x \in 1 .. n + 1
      OBVIOUS
    <2> QED
      BY <2>1, <2>2, Zenon
  <1>c. \A A \in S : <<A, 0>> \in P /\ <<A, 1>> \in P
    <2>1. 0 \in 0 .. 1 /\ 1 \in 0 .. 1
      OBVIOUS
    <2> HIDE DEF S
    <2> QED
      BY <2>1
  <1>6. f \in [P -> T]
    BY <1>5
  <1>7. ASSUME NEW p \in P, NEW q \in P, f[p] = f[q] PROVE p = q
    <2>1. p[1] \in S /\ q[1] \in S /\ p[2] \in {0, 1} /\ q[2] \in {0, 1}
      OBVIOUS
    <2>2. p[2] = q[2]
      BY <1>5, <1>7, <2>1
    <2>3. p[1] = q[1]
      <3>1. CASE p[2] = 1
        <4>1. p[1] \cup {n + 1} = q[1] \cup {n + 1}
          BY <1>7, <2>1, <2>2, <3>1
        <4>2. n + 1 \notin p[1] /\ n + 1 \notin q[1]
          BY <1>5, <2>1
        <4>3. \A x : x \in p[1] <=> x \in q[1]
          BY <4>1, <4>2
        <4> QED
          BY <4>3, Zenon
      <3>2. CASE p[2] # 1
        BY <1>7, <2>1, <2>2, <3>2
      <3> QED
        BY <3>1, <3>2
    <2> QED
      BY <2>2, <2>3
  <1>8. ASSUME NEW B \in T PROVE \E p \in P : f[p] = B
    <2>1. CASE n + 1 \in B
      <3>1. B \ {n + 1} \in S
        BY <1>b
      <3>2. <<B \ {n + 1}, 1>> \in P
        BY <1>c, <3>1, Zenon
      <3>3. f[<<B \ {n + 1}, 1>>] = (B \ {n + 1}) \cup {n + 1}
        BY <3>2
      <3>4. (B \ {n + 1}) \cup {n + 1} = B
        BY <2>1
      <3> QED
        BY <3>2, <3>3, <3>4
    <2>2. CASE n + 1 \notin B
      <3>1. B \in S
        BY <1>b, <2>2
      <3>2. <<B, 0>> \in P
        BY <1>c, <3>1, Zenon
      <3> QED
        BY <3>2
    <2> QED
      BY <2>1, <2>2
  <1>9. ExistsBijection(P, T)
    <2> HIDE DEF f, P, T
    <2> QED
      BY <1>6, <1>7, <1>8 DEF ExistsBijection, Bijection, Injection, Surjection, IsInjective
  <1>10. Cardinality(T) = Cardinality(P)
    BY <1>4, <1>9, FS_Bijection
  <1> QED
    BY <1>1, <1>2, <1>4, <1>10

LEMMA PowerZero == 2 ^ 0 = 1
  <1>1. Cardinality(SUBSET (1 .. 0)) = 2 ^ 0
    BY PowerCounts
  <1>2. SUBSET (1 .. 0) = {{}}
    OBVIOUS
  <1>3. Cardinality({{}}) = 1
    BY FS_Singleton
  <1> QED
    BY <1>1, <1>2, <1>3

--------------------------------------------------------------------------------
\* A set of numbers that is not empty has a least one.
LEMMA Least ==
  ASSUME NEW T \in SUBSET Nat, T # {}
  PROVE  \E x \in T : \A y \in T : x <= y
  <1>1. PICK x \in T : \A y \in T : ~(<<y, x>> \in OpToRel(<, Nat))
    BY NatLessThanWellFounded, WFMin, Zenon
  <1>2. \A y \in T : ~(y < x)
    BY <1>1 DEF OpToRel
  <1> QED
    BY <1>2

\* A set of numbers up to n has a greatest one.
LEMMA Greatest ==
  ASSUME NEW n \in Nat, NEW T \in SUBSET (0 .. n), T # {}
  PROVE  \E x \in T : \A y \in T : y <= x
  <1> DEFINE U == {i \in Nat : n - i \in T}
  <1>1. U # {}
    <2>1. PICK t \in T : TRUE
      OBVIOUS
    <2>2. n - t \in Nat /\ n - (n - t) = t
      OBVIOUS
    <2> QED
      BY <2>1, <2>2
  <1>2. PICK u \in U : \A v \in U : u <= v
    BY <1>1, Least
  <1>3. ASSUME NEW y \in T PROVE y <= n - u
    <2>1. n - y \in Nat /\ n - (n - y) = y
      OBVIOUS
    <2>2. u <= n - y
      BY <2>1, <1>2
    <2> QED
      BY <2>2
  <1> QED
    BY <1>3
================================================================================
