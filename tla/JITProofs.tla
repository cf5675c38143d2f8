------------------------------- MODULE JITProofs --------------------------------
(***************************************************************************)
(* Theorems about module JIT, for every program, pool of constants and     *)
(* number of registers: what the passes of hvm_jit_compile_trace leave to  *)
(* one another, and that the code they make does what the interpreter      *)
(* does.  Four invariants, each from those before it:                      *)
(*                                                                         *)
(*  - Traces: an item is an instruction the interpreter carried out, its   *)
(*    symbol the one its register names, and the address after it is an    *)
(*    item too unless the recorder does not know the instruction there.    *)
(*  - Blocked: the list of blocks is ascending and holds the first address *)
(*    and the destinations that are in the trace.                          *)
(*  - Prepared: the code is Laid out (each instruction comes from an item  *)
(*    of its block, a block begins at its address and goes on with the     *)
(*    items that follow one another), or a block goes on after its end,    *)
(*    which LLVM refuses.                                                  *)
(*  - Runs: what the activation has written, the slots hold.               *)
(***************************************************************************)
EXTENDS JIT, Numbers

--------------------------------------------------------------------------------
(* Sequences and the lowest of a set *)

LEMMA MinFacts ==
  ASSUME NEW T \in SUBSET Nat, T # {}
  PROVE  Min(T) \in T /\ \A y \in T : Min(T) <= y
  <1>1. \E x \in T : \A y \in T : x <= y
    BY Least
  <1> QED
    BY <1>1 DEF Min

LEMMA AppendFacts ==
  ASSUME NEW S, NEW seq \in Seq(S), NEW e \in S
  PROVE  /\ Append(seq, e) \in Seq(S) /\ Len(Append(seq, e)) = Len(seq) + 1
         /\ DOMAIN Append(seq, e) = DOMAIN seq \cup {Len(seq) + 1}
         /\ Append(seq, e)[Len(seq) + 1] = e
         /\ \A n \in DOMAIN seq : n # Len(seq) + 1 /\ Append(seq, e)[n] = seq[n]
  OBVIOUS

LEMMA ConcatFacts ==
  ASSUME NEW S, NEW s \in Seq(S), NEW t \in Seq(S)
  PROVE  /\ s \o t \in Seq(S) /\ Len(s \o t) = Len(s) + Len(t)
         /\ \A n \in 1 .. Len(s) : (s \o t)[n] = s[n]
         /\ \A n \in 1 .. Len(t) : (s \o t)[Len(s) + n] = t[n]
  OBVIOUS

LEMMA InsertFacts ==
  ASSUME NEW seq \in Seq(Nat), NEW e \in Nat, NEW at \in 1 .. Len(seq)
  PROVE  /\ InsertAt(seq, at + 1, e) \in Seq(Nat) /\ Len(InsertAt(seq, at + 1, e)) = Len(seq) + 1
         /\ InsertAt(seq, at + 1, e)[at + 1] = e
         /\ \A n \in 1 .. at : InsertAt(seq, at + 1, e)[n] = seq[n]
         /\ \A n \in at + 2 .. Len(seq) + 1 : InsertAt(seq, at + 1, e)[n] = seq[n - 1]
  <1> DEFINE front == SubSeq(seq, 1, (at + 1) - 1)
             back == SubSeq(seq, at + 1, Len(seq))
             mid == front \o <<e>>
  <1>1. /\ front \in Seq(Nat) /\ Len(front) = at /\ \A n \in 1 .. at : front[n] = seq[n]
    OBVIOUS
  <1>2. /\ back \in Seq(Nat) /\ Len(back) = Len(seq) - at
        /\ \A n \in 1 .. Len(seq) - at : back[n] = seq[at + n]
    OBVIOUS
  <1> HIDE DEF front, back
  <1>3. /\ mid \in Seq(Nat) /\ Len(mid) = at + 1 /\ mid[at + 1] = e
        /\ \A n \in 1 .. at : mid[n] = seq[n]
    BY <1>1
  <1> HIDE DEF mid
  <1>4. /\ mid \o back \in Seq(Nat) /\ Len(mid \o back) = Len(mid) + Len(back)
        /\ \A n \in 1 .. Len(mid) : (mid \o back)[n] = mid[n]
        /\ \A n \in 1 .. Len(back) : (mid \o back)[Len(mid) + n] = back[n]
    <2>1. mid \in Seq(Nat) /\ back \in Seq(Nat)
      BY <1>2, <1>3
    <2> QED
      BY <2>1, ConcatFacts, SMT
  <1>5. ASSUME NEW n \in at + 2 .. Len(seq) + 1 PROVE (mid \o back)[n] = seq[n - 1]
    <2>1. /\ n - (at + 1) \in 1 .. Len(back) /\ at + (n - (at + 1)) = n - 1
          /\ Len(mid) + (n - (at + 1)) = n
      <3>1. \A size, a \in Nat : \A i \in a + 2 .. size + 1 :
              /\ i - (a + 1) \in 1 .. size - a /\ a + (i - (a + 1)) = i - 1
              /\ (a + 1) + (i - (a + 1)) = i
        OBVIOUS
      <3>2. Len(seq) \in Nat /\ at \in Nat
        OBVIOUS
      <3> QED
        BY <1>2, <1>3, <3>1, <3>2
    <2> QED
      BY <1>2, <1>4, <2>1
  <1>6. InsertAt(seq, at + 1, e) = mid \o back
    BY DEF InsertAt, mid, front, back
  <1>7. /\ Len(mid) + Len(back) = Len(seq) + 1
        /\ \A n \in 1 .. at + 1 : (mid \o back)[n] = mid[n]
    BY <1>2, <1>3, <1>4
  <1>8. \A n \in 1 .. at : (mid \o back)[n] = seq[n]
    BY <1>3, <1>7
  <1>9. (mid \o back)[at + 1] = e
    BY <1>3, <1>7
  <1> QED
    BY <1>4, <1>5, <1>6, <1>7, <1>8, <1>9

--------------------------------------------------------------------------------
(* hvm_jit_sort_trace *)

Ascending(seq) == \A m, n \in DOMAIN seq : m < n => seq[m] < seq[n]

\* How many items go before the one at n.
Before(seq, n) == {m \in DOMAIN seq : seq[m].ip < seq[n].ip}

SortedTrace == [n \in DOMAIN trace |-> Sorted(trace, n)]

LEMMA SortedFacts ==
  ASSUME NEW S, trace \in Seq(S), \A n \in DOMAIN trace : trace[n].ip \in Nat,
         \A m, n \in DOMAIN trace : trace[m].ip = trace[n].ip => m = n
  PROVE  /\ SortedTrace \in Seq(S) /\ Len(SortedTrace) = Len(trace)
         /\ \A n \in DOMAIN SortedTrace : \E m \in DOMAIN trace : SortedTrace[n] = trace[m]
         /\ \A m \in DOMAIN trace : \E n \in DOMAIN SortedTrace : SortedTrace[n] = trace[m]
         /\ \A m, n \in DOMAIN SortedTrace : m < n => SortedTrace[m].ip < SortedTrace[n].ip
  <1> DEFINE D == DOMAIN trace
             Count(n) == Cardinality(Before(trace, n))
  <1>1. D = 1 .. Len(trace) /\ Len(trace) \in Nat /\ IsFiniteSet(D) /\ Cardinality(D) = Len(trace)
    <2>1. D = 1 .. Len(trace) /\ Len(trace) \in Nat
      OBVIOUS
    <2>2. IsFiniteSet(1 .. Len(trace)) /\ Cardinality(1 .. Len(trace)) = Len(trace)
      <3>1. /\ 1 \in Int /\ Len(trace) \in Int
            /\ (IF 1 > Len(trace) THEN 0 ELSE Len(trace) - 1 + 1) = Len(trace)
        BY <2>1
      <3> QED
        BY <3>1, FS_Interval, Zenon
    <2> QED
      BY <2>1, <2>2
  <1>0. SortedTrace = [n \in D |-> Sorted(trace, n)]
    BY DEF SortedTrace
  <1> HIDE DEF D
  <1>2. \A n \in D : Before(trace, n) \in SUBSET D /\ n \notin Before(trace, n)
    BY DEF Before, D
  <1>3. \A n \in D : IsFiniteSet(Before(trace, n)) /\ Count(n) \in Nat /\ Count(n) < Len(trace)
    <2> TAKE n \in D
    <2>1. IsFiniteSet(Before(trace, n)) /\ Count(n) <= Cardinality(D) /\ (Cardinality(D) = Count(n) => D = Before(trace, n))
      BY <1>1, <1>2, FS_Subset
    <2>2. Count(n) \in Nat
      BY <2>1, FS_CardinalityType
    <2>3. Count(n) # Cardinality(D)
      BY <1>2, <2>1
    <2> HIDE DEF Count
    <2> QED
      BY <1>1, <2>1, <2>2, <2>3
  <1>4. ASSUME NEW m \in D, NEW n \in D, trace[m].ip < trace[n].ip
        PROVE  Count(m) < Count(n)
    <2>1. Before(trace, m) \in SUBSET Before(trace, n) /\ m \in Before(trace, n) \ Before(trace, m)
      BY <1>4 DEF Before, D
    <2>2. Count(m) <= Count(n) /\ (Count(n) = Count(m) => Before(trace, n) = Before(trace, m))
      BY <1>3, <2>1, FS_Subset
    <2>3. Count(n) # Count(m)
      BY <2>1, <2>2
    <2> HIDE DEF Count
    <2> QED
      BY <1>3, <2>2, <2>3
  <1>5. \A m, n \in D : /\ Count(m) = Count(n) => m = n
                        /\ Count(m) < Count(n) => trace[m].ip < trace[n].ip
    <2> TAKE m, n \in D
    <2>1. trace[m].ip < trace[n].ip \/ trace[n].ip < trace[m].ip \/ m = n
      BY DEF D
    <2>2. /\ trace[m].ip < trace[n].ip => Count(m) < Count(n)
          /\ trace[n].ip < trace[m].ip => Count(n) < Count(m)
      BY <1>4
    <2>3. Count(m) \in Nat /\ Count(n) \in Nat
      BY <1>3
    <2> HIDE DEF Count
    <2> QED
      BY <2>1, <2>2, <2>3
  <1>6. ASSUME NEW n \in D PROVE \E m \in D : Count(m) = n - 1
    <2> DEFINE f == [m \in D |-> Count(m) + 1]
    <2>1. f \in [D -> D]
      BY <1>1, <1>3
    <2>2. \A a, b \in D : f[a] = f[b] => a = b
      <3> SUFFICES ASSUME NEW a \in D, NEW b \in D, f[a] = f[b] PROVE a = b
        OBVIOUS
      <3>1. Count(a) \in Nat /\ Count(b) \in Nat /\ Count(a) + 1 = Count(b) + 1
        BY <1>3
      <3> HIDE DEF Count
      <3> QED
        BY <1>5, <3>1
    <2> HIDE DEF f
    <2>3. f \in Injection(D, D)
      BY <2>1, <2>2 DEF Injection, IsInjective
    <2>4. f \in Surjection(D, D)
      BY <1>1, <2>3, FS_Injection
    <2>5. PICK m \in D : f[m] = n
      BY <2>4 DEF Surjection
    <2>6. Count(m) \in Nat /\ Count(m) + 1 = n
      BY <1>3, <2>5 DEF f
    <2> HIDE DEF Count
    <2> QED
      BY <2>6
  <1>7. ASSUME NEW n \in D PROVE \E m \in D : Sorted(trace, n) = trace[m] /\ Count(m) = n - 1
    <2>1. PICK m \in D : Count(m) = n - 1
      BY <1>6
    <2>2. /\ trace[m] \in Range(trace)
          /\ Cardinality({j \in DOMAIN trace : trace[j].ip < trace[m].ip}) = n - 1
      BY <2>1 DEF Range, Before, D
    <2>3. /\ Sorted(trace, n) \in Range(trace)
          /\ Cardinality({j \in DOMAIN trace : trace[j].ip < Sorted(trace, n).ip}) = n - 1
      BY <2>2 DEF Sorted
    <2>4. PICK j \in D : Sorted(trace, n) = trace[j]
      BY <2>3 DEF Range, D
    <2>5. Count(j) = n - 1
      BY <2>3, <2>4 DEF Before
    <2> QED
      BY <2>4, <2>5
  <1>8. SortedTrace \in Seq(S) /\ Len(SortedTrace) = Len(trace) /\ DOMAIN SortedTrace = D
    <2>1. \A n \in D : trace[n] \in S
      BY DEF D
    <2>2. \A n \in D : Sorted(trace, n) \in S
      BY <2>1, <1>7
    <2> QED
      BY <1>0, <1>1, <2>2
  <1>9. ASSUME NEW m \in D, NEW n \in D, m < n PROVE SortedTrace[m].ip < SortedTrace[n].ip
    <2>1. PICK a \in D : Sorted(trace, m) = trace[a] /\ Count(a) = m - 1
      BY <1>7
    <2>2. PICK b \in D : Sorted(trace, n) = trace[b] /\ Count(b) = n - 1
      BY <1>7
    <2>3. m - 1 < n - 1
      BY <1>1, <1>9
    <2>4. Count(a) < Count(b)
      BY <2>1, <2>2, <2>3
    <2> HIDE DEF Count
    <2> QED
      BY <1>0, <1>5, <2>1, <2>2, <2>4
  <1>10. ASSUME NEW m \in D PROVE \E n \in D : SortedTrace[n] = trace[m]
    <2>1. Count(m) \in Nat /\ Count(m) < Len(trace)
      BY <1>3
    <2>2. PICK n \in D : Count(m) = n - 1
      <3>1. Count(m) + 1 \in D /\ Count(m) = (Count(m) + 1) - 1
        <4> HIDE DEF Count
        <4> QED
          BY <2>1, <1>1
      <3> QED
        BY <3>1
    <2>3. PICK j \in D : Sorted(trace, n) = trace[j] /\ Count(j) = n - 1
      BY <1>7
    <2>4. j = m
      BY <1>5, <2>2, <2>3
    <2> QED
      BY <1>0, <2>3, <2>4
  <1>11. \A n \in D : \E m \in D : SortedTrace[n] = trace[m]
    BY <1>0, <1>7
  <1> QED
    BY <1>8, <1>9, <1>10, <1>11 DEF D

--------------------------------------------------------------------------------
(* The list of blocks *)

IsList(list) == list \in Seq(Nat) /\ list # << >> /\ Ascending(list)

LEMMA FindOrInsertFacts ==
  ASSUME NEW list, IsList(list), NEW ip \in Nat, list[1] <= ip
  PROVE  LET new == FindOrInsertBlock(list, ip)
         IN  IsList(new) /\ new[1] = list[1] /\ Range(new) = Range(list) \cup {ip}
  <1> DEFINE T == {n \in DOMAIN list : \/ list[n] = ip \/ n = Len(list)
                                       \/ list[n] < ip /\ ip < list[n + 1]}
             at == Min(T)
  <1>1. /\ list \in Seq(Nat) /\ DOMAIN list = 1 .. Len(list) /\ Len(list) \in Nat \ {0}
        /\ \A n \in DOMAIN list : list[n] \in Nat
        /\ \A m, n \in DOMAIN list : m < n => list[m] < list[n]
    BY DEF IsList, Ascending
  <1>2. T \in SUBSET Nat /\ T # {}
    <2>1. Len(list) \in T
      BY <1>1
    <2> QED
      BY <1>1, <2>1
  <1>3. at \in T /\ \A n \in T : at <= n
    BY <1>2, MinFacts
  <1> HIDE DEF at
  <1>4. at \in DOMAIN list /\ at \in 1 .. Len(list)
    BY <1>1, <1>3
  <1>5. FindOrInsertBlock(list, ip) = IF list[at] = ip THEN list ELSE InsertAt(list, at + 1, ip)
    BY DEF FindOrInsertBlock, at
  <1>6. CASE list[at] = ip
    <2>1. ip \in Range(list)
      BY <1>4, <1>6 DEF Range
    <2> QED
      BY <1>5, <1>6, <2>1
  <1>7. CASE list[at] # ip
    <2>a. list \in Seq(Nat) /\ at \in 1 .. Len(list) /\ ip \in Nat
      BY <1>1, <1>4
    <2> DEFINE new == InsertAt(list, at + 1, ip)
    <2>1. /\ new \in Seq(Nat) /\ Len(new) = Len(list) + 1
          /\ new[at + 1] = ip
          /\ \A n \in 1 .. at : new[n] = list[n]
          /\ \A n \in at + 2 .. Len(list) + 1 : new[n] = list[n - 1]
      BY <2>a, InsertFacts
    <2> HIDE DEF new
    <2>2. list[at] < ip
      <3>1. CASE at = Len(list)
        <4> DEFINE L == {n \in DOMAIN list : list[n] <= ip}
        <4>1. L \in SUBSET (0 .. Len(list)) /\ 1 \in L /\ Len(list) \in Nat
          BY <1>1
        <4>2. PICK n \in L : \A m \in L : m <= n
          BY <4>1, Greatest
        <4>3. n \in DOMAIN list /\ list[n] <= ip
          BY <4>2
        <4>4. n = Len(list) \/ n + 1 \in DOMAIN list
          BY <1>1, <4>3
        <4>5. ASSUME n + 1 \in DOMAIN list PROVE FALSE
          <5>1. n + 1 \notin L
            BY <1>1, <4>2, <4>3
          <5>2. ip < list[n + 1]
            BY <1>1, <4>5, <5>1
          <5>3. n \in T
            BY <1>1, <4>3, <5>2
          <5> QED
            BY <1>1, <1>3, <3>1, <4>3, <4>5, <5>3
        <4> QED
          BY <1>1, <1>7, <3>1, <4>3, <4>4, <4>5
      <3>2. CASE at # Len(list)
        BY <1>3, <1>7, <3>2
      <3> QED
        BY <3>1, <3>2
    <2>3. \A n \in DOMAIN list : n > at => ip < list[n]
      <3> SUFFICES ASSUME NEW n \in DOMAIN list, n > at PROVE ip < list[n]
        OBVIOUS
      <3>1. at # Len(list) /\ at + 1 \in DOMAIN list /\ at + 1 <= n
        BY <1>1, <1>4
      <3>2. ip < list[at + 1]
        BY <1>3, <1>7, <3>1
      <3>3. list[at + 1] <= list[n]
        BY <1>1, <3>1
      <3> QED
        BY <1>1, <3>1, <3>2, <3>3
    <2>4. \A n \in DOMAIN list : n <= at => list[n] < ip
      <3> SUFFICES ASSUME NEW n \in DOMAIN list, n <= at PROVE list[n] < ip
        OBVIOUS
      <3>1. list[n] <= list[at]
        BY <1>1, <1>4
      <3> QED
        BY <1>1, <1>4, <2>2, <3>1
    <2>5. DOMAIN new = 1 .. Len(list) + 1
      BY <1>1, <2>1
    <2>6. \A n \in DOMAIN new : \/ n \in 1 .. at /\ n \in DOMAIN list /\ new[n] = list[n]
                                \/ n = at + 1 /\ new[n] = ip
                                \/ n \in at + 2 .. Len(list) + 1 /\ n - 1 \in DOMAIN list /\ n - 1 > at
                                     /\ new[n] = list[n - 1]
      <3> SUFFICES ASSUME NEW n \in DOMAIN new
                   PROVE  \/ n \in 1 .. at /\ n \in DOMAIN list /\ new[n] = list[n]
                          \/ n = at + 1 /\ new[n] = ip
                          \/ n \in at + 2 .. Len(list) + 1 /\ n - 1 \in DOMAIN list /\ n - 1 > at
                               /\ new[n] = list[n - 1]
        OBVIOUS
      <3>1. \/ n \in 1 .. at /\ n \in 1 .. Len(list)
            \/ n = at + 1
            \/ n \in at + 2 .. Len(list) + 1 /\ n - 1 \in 1 .. Len(list) /\ n - 1 > at
        <4>1. \A l \in Nat : \A a \in 1 .. l : \A i \in 1 .. l + 1 :
                \/ i \in 1 .. a /\ i \in 1 .. l
                \/ i = a + 1
                \/ i \in a + 2 .. l + 1 /\ i - 1 \in 1 .. l /\ i - 1 > a
          OBVIOUS
        <4> QED
          BY <1>1, <1>4, <2>5, <4>1
      <3> QED
        BY <1>1, <2>1, <3>1
    <2>7. Ascending(new)
      <3> SUFFICES ASSUME NEW m \in DOMAIN new, NEW n \in DOMAIN new, m < n PROVE new[m] < new[n]
        BY DEF Ascending
      <3>0. m \in Nat /\ n \in Nat /\ at \in Nat
        BY <1>4, <2>5
      <3>1. CASE m \in 1 .. at /\ m \in DOMAIN list /\ new[m] = list[m]
        <4>1. CASE n \in 1 .. at /\ n \in DOMAIN list /\ new[n] = list[n]
          BY <1>1, <3>1, <4>1
        <4>2. CASE n = at + 1 /\ new[n] = ip
          BY <2>4, <3>0, <3>1, <4>2
        <4>3. CASE n - 1 \in DOMAIN list /\ n - 1 > at /\ new[n] = list[n - 1]
          BY <1>1, <3>0, <3>1, <4>3
        <4> QED
          BY <2>6, <4>1, <4>2, <4>3
      <3>2. CASE m = at + 1 /\ new[m] = ip
        <4>1. n - 1 \in DOMAIN list /\ n - 1 > at /\ new[n] = list[n - 1]
          BY <2>6, <3>0, <3>2
        <4> QED
          BY <2>3, <3>2, <4>1
      <3>3. CASE m - 1 \in DOMAIN list /\ m - 1 > at /\ new[m] = list[m - 1]
        <4>1. n - 1 \in DOMAIN list /\ new[n] = list[n - 1] /\ m - 1 < n - 1
          BY <2>6, <3>0, <3>3
        <4> QED
          BY <1>1, <3>3, <4>1
      <3> QED
        BY <2>6, <3>1, <3>2, <3>3
    <2>8. Range(new) = Range(list) \cup {ip}
      <3>1. ASSUME NEW x \in Range(new) PROVE x \in Range(list) \cup {ip}
        <4>1. PICK n \in DOMAIN new : x = new[n]
          BY DEF Range
        <4> QED
          BY <2>6, <4>1 DEF Range
      <3>2. ip \in Range(new)
        <4>1. at + 1 \in DOMAIN new
          BY <1>4, <2>5
        <4> QED
          BY <2>1, <4>1 DEF Range
      <3>3. ASSUME NEW x \in Range(list) PROVE x \in Range(new)
        <4>1. PICK n \in DOMAIN list : x = list[n]
          BY DEF Range
        <4>2. CASE n <= at
          <5>1. n \in 1 .. at /\ n \in DOMAIN new
            BY <1>1, <1>4, <2>5, <4>2
          <5> QED
            BY <2>1, <4>1, <5>1 DEF Range
        <4>3. CASE n > at
          <5>1. n + 1 \in at + 2 .. Len(list) + 1 /\ n + 1 \in DOMAIN new /\ (n + 1) - 1 = n
            BY <1>1, <1>4, <2>5, <4>3
          <5>2. new[n + 1] = list[n]
            BY <2>1, <5>1
          <5> QED
            BY <4>1, <5>1, <5>2 DEF Range
        <4> QED
          BY <1>1, <1>4, <4>2, <4>3
      <3> QED
        BY <3>1, <3>2, <3>3
    <2>9. new # << >> /\ new[1] = list[1]
      BY <1>1, <1>4, <2>1, <2>5
    <2>10. FindOrInsertBlock(list, ip) = new
      BY <1>5, <1>7 DEF new
    <2> QED
      BY <2>1, <2>7, <2>8, <2>9, <2>10 DEF IsList
  <1> QED
    BY <1>6, <1>7

\* hvm_jit_get_current_block finds the last block that does not begin beyond the address.
LEMMA CurrentBlockFacts ==
  ASSUME IsList(blocks), NEW ip \in Nat, blocks[1] <= ip
  PROVE  /\ CurrentBlock(ip) \in Range(blocks) /\ CurrentBlock(ip) \in Nat /\ CurrentBlock(ip) <= ip
         /\ \A x \in Range(blocks) : x <= ip => x <= CurrentBlock(ip)
  <1> DEFINE T == {n \in DOMAIN blocks : n = Len(blocks) \/ blocks[n + 1] > ip}
             at == Min(T)
  <1>1. /\ DOMAIN blocks = 1 .. Len(blocks) /\ Len(blocks) \in Nat \ {0}
        /\ \A n \in DOMAIN blocks : blocks[n] \in Nat
        /\ \A m, n \in DOMAIN blocks : m < n => blocks[m] < blocks[n]
    BY DEF IsList, Ascending
  <1>2. T \in SUBSET Nat /\ T # {}
    <2>1. Len(blocks) \in T
      BY <1>1
    <2> QED
      BY <1>1, <2>1
  <1>3. at \in T /\ \A n \in T : at <= n
    BY <1>2, MinFacts
  <1> HIDE DEF at
  <1>4. CurrentBlock(ip) = blocks[at] /\ at \in DOMAIN blocks
    BY <1>3 DEF CurrentBlock, at
  <1>5. blocks[at] <= ip
    <2>1. CASE at = 1
      BY <2>1
    <2>2. CASE at # 1
      <3>1. at - 1 \in DOMAIN blocks /\ at - 1 # Len(blocks) /\ (at - 1) + 1 = at /\ ~(at <= at - 1)
        BY <1>1, <1>4, <2>2
      <3>2. at - 1 \notin T
        BY <1>3, <3>1
      <3>3. ~(blocks[at] > ip)
        BY <3>1, <3>2
      <3> QED
        BY <1>1, <1>4, <3>3
    <2> QED
      BY <2>1, <2>2
  <1>6. ASSUME NEW x \in Range(blocks), x <= ip PROVE x <= blocks[at]
    <2>1. PICK n \in DOMAIN blocks : x = blocks[n]
      BY DEF Range
    <2>2. CASE n <= at
      BY <1>1, <1>4, <2>1, <2>2
    <2>3. CASE n > at
      <3>1. at # Len(blocks) /\ at + 1 \in DOMAIN blocks /\ at + 1 <= n
        BY <1>1, <1>4, <2>3
      <3>2. blocks[at + 1] > ip
        BY <1>3, <3>1
      <3>3. blocks[at + 1] <= blocks[n]
        BY <1>1, <3>1
      <3> QED
        BY <1>1, <1>6, <2>1, <3>1, <3>2, <3>3
    <2> QED
      BY <1>1, <1>4, <2>2, <2>3
  <1> QED
    BY <1>1, <1>4, <1>5, <1>6 DEF Range
--------------------------------------------------------------------------------
(* Recording *)

Cell == {NULL} \cup Object
Calls == [sym : Syms, param : Cell]
Acts ==
  [ip : Nat, regs : [Reg -> Cell], arrays : [DOMAIN Arrays -> Seq(Cell)],
   locals : [Syms -> Seq(Cell)], out : Seq(Calls),
   result : [status : {"running", "returned", "crashed"}, val : Cell],
   wrote : SUBSET Nat, own : BOOLEAN]

Programmed == DOMAIN body \subseteq Nat /\ body \in [DOMAIN body -> Instruction] /\ entry \in Nat

\* The register r holds a symbol and nothing else: only the instruction at j writes it.
Names(r, j) ==
  /\ j \in DOMAIN body /\ body[j].op = "set"
  /\ \A i \in DOMAIN body : Writes(body[i]) = r <=> i = j
Held(s) == \A r \in GenRegs : \A j \in DOMAIN body :
             Names(r, j) => s.regs[r] \in {Null, ConstPool[body[j].dest]}

LEMMA ObjectFacts ==
  /\ \A val \in Cell : /\ IsA(val, "symbol") => val # NULL /\ val.type = "symbol" /\ val.v \in Syms
                       /\ IsA(val, "array") => val # NULL /\ val.v \in DOMAIN Arrays
                       /\ IsA(val, "int") => val # NULL /\ val.v \in Nat
  /\ \A n \in Nat : IntOf(n) \in Cell
  /\ Null \in Cell /\ Null # NULL /\ \A p \in BOOLEAN : Bool(p) \in Cell
  <1>1. NULL \notin Object
    BY JITAssumption
  <1>2. \A n \in Nat : IntOf(n) \in Object
    BY DEF IntOf, Object
  <1>3. Null \in Object
    BY DEF Null, Object
  <1>4. \A p \in BOOLEAN : Bool(p) \in Object
    <2>1. IntOf(0) \in Object /\ IntOf(1) \in Object
      BY <1>2
    <2> QED
      BY <2>1 DEF Bool
  <1>5. \A val \in Object : /\ val.type = "symbol" => val.v \in Syms
                            /\ val.type = "array" => val.v \in DOMAIN Arrays
                            /\ val.type = "int" => val.v \in Nat
    BY DEF Object
  <1> QED
    BY <1>1, <1>2, <1>3, <1>4, <1>5 DEF Cell, IsA

LEMMA RegisterFacts ==
  /\ <<"arg", 0>> \in Reg /\ <<"param", 0>> \in Reg /\ <<"param", 0>> \in ParamRegs
  /\ NullReg \in Reg /\ ZeroReg \in Reg /\ GenRegs \subseteq Reg /\ ArgRegs \subseteq Reg
  /\ NullReg \notin GenRegs \cup ArgRegs \cup ParamRegs /\ NullReg # ZeroReg
  /\ ZeroReg \notin GenRegs \cup ArgRegs \cup ParamRegs
  /\ \A r \in GenRegs : r \notin ArgRegs \cup ParamRegs
  /\ \A r \in ArgRegs : r \notin ParamRegs
  <1>1. 0 \in 0 .. NArgs - 1
    BY JITAssumption
  <1> QED
    BY <1>1 DEF Reg, GenRegs, ArgRegs, ParamRegs, NullReg, ZeroReg

LEMMA CopyRegsFacts ==
  ASSUME NEW regs \in [Reg -> Cell]
  PROVE  /\ CopyRegs(regs) \in [Reg -> Cell]
         /\ CopyRegs(regs)[NullReg] = regs[NullReg] /\ \A r \in GenRegs : CopyRegs(regs)[r] = regs[r]
         /\ CopyRegs(regs)[<<"param", 0>>] = regs[<<"arg", 0>>]
  <1>1. \A r \in Reg : regs[r] \in Cell
    OBVIOUS
  <1>2. NULL \in Cell
    BY DEF Cell
  <1>3. CopyRegs(regs) \in [Reg -> Cell]
    BY <1>1, <1>2, RegisterFacts DEF CopyRegs
  <1>4. NullReg \notin ParamRegs \cup {<<"arg", 0>>} /\ \A r \in GenRegs : r \notin ParamRegs \cup {<<"arg", 0>>}
    <2>1. <<"arg", 0>> \in ArgRegs
      BY JITAssumption DEF ArgRegs
    <2> QED
      BY <2>1, RegisterFacts
  <1> QED
    BY <1>3, <1>4, RegisterFacts DEF CopyRegs

\* What an instruction reads is a cell, and what the interpreter wants of it.
LEMMA OperandFacts ==
  ASSUME Programmed, NEW s \in Acts, Sound(s)
  PROVE  /\ I(s) \in Instruction /\ I(s) = body[s.ip] /\ s.ip \in DOMAIN body
         /\ A(s) \in Cell /\ B(s) \in Cell /\ C(s) \in Cell
  <1>1. s.ip \in DOMAIN body /\ body[s.ip] \in Instruction
    BY DEF Sound, Programmed
  <1>2. I(s).a \in Reg /\ I(s).b \in Reg /\ I(s).c \in Reg /\ s.regs \in [Reg -> Cell]
    BY <1>1 DEF I, Instruction, Acts
  <1> QED
    BY <1>1, <1>2 DEF I, A, B, C
\* An activation, field by field.
Made(ip, regs, arrays, locs, out, result, wrote, own) ==
  [ip |-> ip, regs |-> regs, arrays |-> arrays, locals |-> locs, out |-> out,
   result |-> result, wrote |-> wrote, own |-> own]
Shape(s) == s = Made(s.ip, s.regs, s.arrays, s.locals, s.out, s.result, s.wrote, s.own)

LEMMA ActsShape ==
  ASSUME NEW s \in Acts
  PROVE  Shape(s)
  BY DEF Acts, Shape, Made

\* Each way an instruction changes an activation.
LEMMA WriteForm ==
  ASSUME NEW s, Shape(s), NEW r, NEW val
  PROVE  Write(s, r, val) =
           Made(s.ip + 1, IF r \in GenRegs \cup ArgRegs THEN [s.regs EXCEPT ![r] = val] ELSE s.regs,
                s.arrays, s.locals, s.out, s.result, s.wrote \cup {s.ip}, s.own)
  <1> DEFINE regs == IF r \in GenRegs \cup ArgRegs THEN [s.regs EXCEPT ![r] = val] ELSE s.regs
             wrote == s.wrote \cup {s.ip}
             ip == s.ip + 1
             t == [s EXCEPT !.regs = regs]
             u == [t EXCEPT !.wrote = wrote]
  <1>1. Write(s, r, val) = [s EXCEPT !.regs = regs, !.wrote = wrote, !.ip = ip]
    BY DEF Write
  <1> HIDE DEF regs, wrote, ip
  <1>2. [s EXCEPT !.regs = regs, !.wrote = wrote, !.ip = ip] = [u EXCEPT !.ip = ip]
    OBVIOUS
  <1>3. t = Made(s.ip, regs, s.arrays, s.locals, s.out, s.result, s.wrote, s.own)
    BY DEF Shape, Made
  <1> HIDE DEF t, u
  <1>4. u = Made(s.ip, regs, s.arrays, s.locals, s.out, s.result, wrote, s.own)
    BY <1>3 DEF Made, u
  <1>5. [u EXCEPT !.ip = ip] = Made(ip, regs, s.arrays, s.locals, s.out, s.result, wrote, s.own)
    BY <1>4 DEF Made
  <1> QED
    BY <1>1, <1>2, <1>5 DEF regs, wrote, ip

LEMMA CallForm ==
  ASSUME NEW s, Shape(s), NEW sym
  PROVE  CallPrimitive(s, sym) =
           Made(s.ip, CopyRegs(s.regs), s.arrays, s.locals,
                Append(s.out, [sym |-> sym, param |-> s.regs[<<"arg", 0>>]]), s.result, s.wrote, FALSE)
  <1> DEFINE regs == CopyRegs(s.regs)
             out == Append(s.out, [sym |-> sym, param |-> s.regs[<<"arg", 0>>]])
             t == [s EXCEPT !.regs = regs]
  <1>1. CallPrimitive(s, sym) = [s EXCEPT !.regs = regs, !.own = FALSE, !.out = out]
    BY DEF CallPrimitive
  <1> HIDE DEF regs, out
  <1>2. \A no : [s EXCEPT !.regs = regs, !.own = no, !.out = out] =
                 [[t EXCEPT !.own = no] EXCEPT !.out = out]
    OBVIOUS
  <1>3. t = Made(s.ip, regs, s.arrays, s.locals, s.out, s.result, s.wrote, s.own)
    BY DEF Shape, Made
  <1> HIDE DEF t
  <1>4. ASSUME NEW no
        PROVE  [[t EXCEPT !.own = no] EXCEPT !.out = out] =
                 Made(s.ip, regs, s.arrays, s.locals, out, s.result, s.wrote, no)
    <2> DEFINE u == [t EXCEPT !.own = no]
    <2>1. u = Made(s.ip, regs, s.arrays, s.locals, s.out, s.result, s.wrote, no)
      BY <1>3 DEF Made
    <2> HIDE DEF u
    <2>2. [u EXCEPT !.out = out] = Made(s.ip, regs, s.arrays, s.locals, out, s.result, s.wrote, no)
      BY <2>1 DEF Made
    <2> QED
      BY <2>2 DEF u
  <1>5. [s EXCEPT !.regs = regs, !.own = FALSE, !.out = out] =
          Made(s.ip, regs, s.arrays, s.locals, out, s.result, s.wrote, FALSE)
    BY <1>2, <1>4, Zenon
  <1> QED
    BY <1>1, <1>5 DEF regs, out

LEMMA WithValueKeeps ==
  ASSUME NEW S, NEW vals \in Seq(S), NEW v \in S
  PROVE  WithValue(vals, v) \in Seq(S)
  BY DEF WithValue

LEMMA LookupKeeps ==
  ASSUME NEW s, NEW x \in Syms, s.locals \in [Syms -> Seq(Cell)]
  PROVE  Lookup(s, x) \subseteq Cell
  <1>1. s.locals[x] \in Seq(Cell) /\ NULL \in Cell
    BY DEF Cell
  <1>2. \A n \in DOMAIN s.locals[x] : s.locals[x][n] \in Cell
    BY <1>1
  <1>3. s.locals[x] # <<>> => 1 \in DOMAIN s.locals[x]
    BY <1>1
  <1> QED
    BY <1>1, <1>2, <1>3 DEF Lookup

LEMMA SetForm ==
  ASSUME NEW s, Shape(s), NEW x, NEW v
  PROVE  [s EXCEPT !.locals[x] = WithValue(@, v), !.ip = @ + 1] =
           Made(s.ip + 1, s.regs, s.arrays, [s.locals EXCEPT ![x] = WithValue(@, v)], s.out, s.result,
                s.wrote, s.own)
  <1> DEFINE new == [s.locals EXCEPT ![x] = WithValue(@, v)]
             ip == s.ip + 1
             t == [s EXCEPT !.locals = new]
  <1>1. [s EXCEPT !.locals[x] = WithValue(@, v), !.ip = @ + 1] = [s EXCEPT !.locals = new, !.ip = ip]
    OBVIOUS
  <1> HIDE DEF new, ip
  <1>2. [s EXCEPT !.locals = new, !.ip = ip] = [t EXCEPT !.ip = ip]
    OBVIOUS
  <1>3. t = Made(s.ip, s.regs, s.arrays, new, s.out, s.result, s.wrote, s.own)
    BY DEF Shape, Made
  <1> HIDE DEF t
  <1>4. [t EXCEPT !.ip = ip] = Made(ip, s.regs, s.arrays, new, s.out, s.result, s.wrote, s.own)
    BY <1>3 DEF Made
  <1> QED
    BY <1>1, <1>2, <1>4 DEF new, ip

LEMMA StepsForm ==
  ASSUME NEW s, Shape(s)
  PROVE  /\ I(s).op \in {"goto", "jump"} =>
              Steps(s) = {Made(I(s).dest, s.regs, s.arrays, s.locals, s.out, s.result, s.wrote, s.own)}
         /\ I(s).op = "if" =>
              Steps(s) = {Made(IF Falsey(A(s)) THEN s.ip + 1 ELSE I(s).dest, s.regs, s.arrays, s.locals,
                               s.out, s.result, s.wrote, s.own)}
         /\ I(s).op = "return" =>
              Steps(s) = {Made(s.ip, s.regs, s.arrays, s.locals, s.out,
                               [status |-> "returned", val |-> A(s)], s.wrote, s.own)}
         /\ I(s).op = "setlocal" =>
              Steps(s) = {Made(s.ip + 1, s.regs, s.arrays, [s.locals EXCEPT ![A(s).v] = WithValue(@, B(s))],
                               s.out, s.result, s.wrote, s.own)}
         /\ I(s).op = "arrayset" =>
              Steps(s) = {Made(s.ip + 1, s.regs, [s.arrays EXCEPT ![A(s).v][B(s).v + 1] = C(s)], s.locals,
                               s.out, s.result, s.wrote, s.own)}
         /\ I(s).op = "getlocal" => Steps(s) = {Write(s, I(s).a, val) : val \in Lookup(s, B(s).v) \ {NULL}}
         /\ I(s).op = "invokeprimitive" =>
              Steps(s) = {Write(CallPrimitive(s, A(s).v), I(s).b, val) : val \in Answers}
         /\ I(s).op \notin {"goto", "jump", "if", "return", "setlocal", "arrayset", "getlocal",
                            "invokeprimitive"} => Steps(s) = {Write(s, I(s).a, Value(s))}
  <1>1. ASSUME I(s).op \in {"goto", "jump"}
        PROVE  Steps(s) = {Made(I(s).dest, s.regs, s.arrays, s.locals, s.out, s.result, s.wrote, s.own)}
    <2>1. Steps(s) = {[s EXCEPT !.ip = I(s).dest]}
      BY <1>1 DEF Steps
    <2>2. \A to : [s EXCEPT !.ip = to] = Made(to, s.regs, s.arrays, s.locals, s.out, s.result, s.wrote, s.own)
      BY DEF Shape, Made
    <2> QED
      BY <2>1, <2>2
  <1>2. ASSUME I(s).op = "if"
        PROVE  Steps(s) = {Made(IF Falsey(A(s)) THEN s.ip + 1 ELSE I(s).dest, s.regs, s.arrays, s.locals,
                                s.out, s.result, s.wrote, s.own)}
    <2>1. Steps(s) = {[s EXCEPT !.ip = IF Falsey(A(s)) THEN @ + 1 ELSE I(s).dest]}
      BY <1>2 DEF Steps
    <2>2. \A to : [s EXCEPT !.ip = to] = Made(to, s.regs, s.arrays, s.locals, s.out, s.result, s.wrote, s.own)
      BY DEF Shape, Made
    <2>3. [s EXCEPT !.ip = IF Falsey(A(s)) THEN @ + 1 ELSE I(s).dest]
            = [s EXCEPT !.ip = IF Falsey(A(s)) THEN s.ip + 1 ELSE I(s).dest]
      OBVIOUS
    <2> QED
      BY <2>1, <2>2, <2>3, Zenon
  <1>3. ASSUME I(s).op = "return"
        PROVE  Steps(s) = {Made(s.ip, s.regs, s.arrays, s.locals, s.out,
                                [status |-> "returned", val |-> A(s)], s.wrote, s.own)}
    <2>1. Steps(s) = {[s EXCEPT !.result = [status |-> "returned", val |-> A(s)]]}
      BY <1>3 DEF Steps
    <2> DEFINE val == [status |-> "returned", val |-> A(s)]
    <2> HIDE DEF val
    <2>2. [s EXCEPT !.result = val] = Made(s.ip, s.regs, s.arrays, s.locals, s.out, val, s.wrote, s.own)
      BY DEF Shape, Made
    <2> QED
      BY <2>1, <2>2 DEF val
  <1>4. ASSUME I(s).op = "setlocal"
        PROVE  Steps(s) = {Made(s.ip + 1, s.regs, s.arrays, [s.locals EXCEPT ![A(s).v] = WithValue(@, B(s))],
                                s.out, s.result, s.wrote, s.own)}
    <2>1. Steps(s) = {[s EXCEPT !.locals[A(s).v] = WithValue(@, B(s)), !.ip = @ + 1]}
      BY <1>4 DEF Steps
    <2> QED
      BY <2>1, SetForm, Zenon
  <1>5. ASSUME I(s).op = "arrayset"
        PROVE  Steps(s) = {Made(s.ip + 1, s.regs, [s.arrays EXCEPT ![A(s).v][B(s).v + 1] = C(s)], s.locals,
                                s.out, s.result, s.wrote, s.own)}
    <2> DEFINE a == A(s).v
               i == B(s).v + 1
               v == C(s)
    <2>1. Steps(s) = {[s EXCEPT !.arrays[a][i] = v, !.ip = @ + 1]}
      BY <1>5 DEF Steps
    <2> HIDE DEF a, i, v
    <2> DEFINE new == [s.arrays EXCEPT ![a][i] = v]
               ip == s.ip + 1
               u == [s EXCEPT !.arrays = new]
    <2>2. [s EXCEPT !.arrays[a][i] = v, !.ip = @ + 1] = [s EXCEPT !.arrays = new, !.ip = ip]
      OBVIOUS
    <2> HIDE DEF new, ip
    <2>3. [s EXCEPT !.arrays = new, !.ip = ip] = [u EXCEPT !.ip = ip]
      OBVIOUS
    <2>4. u = Made(s.ip, s.regs, new, s.locals, s.out, s.result, s.wrote, s.own)
      BY DEF Shape, Made
    <2> HIDE DEF u
    <2>5. [u EXCEPT !.ip = ip] = Made(ip, s.regs, new, s.locals, s.out, s.result, s.wrote, s.own)
      BY <2>4 DEF Made
    <2>6. Steps(s) = {Made(ip, s.regs, new, s.locals, s.out, s.result, s.wrote, s.own)}
      BY <2>1, <2>2, <2>3, <2>5, Zenon
    <2> QED
      BY <2>6 DEF a, i, v, new, ip
  <1>6. I(s).op = "getlocal" => Steps(s) = {Write(s, I(s).a, val) : val \in Lookup(s, B(s).v) \ {NULL}}
    BY DEF Steps
  <1>7. I(s).op = "invokeprimitive" =>
          Steps(s) = {Write(CallPrimitive(s, A(s).v), I(s).b, val) : val \in Answers}
    BY DEF Steps
  <1>8. I(s).op \notin {"goto", "jump", "if", "return", "setlocal", "arrayset", "getlocal",
                        "invokeprimitive"} => Steps(s) = {Write(s, I(s).a, Value(s))}
    BY DEF Steps
  <1> QED
    BY <1>1, <1>2, <1>3, <1>4, <1>5, <1>6, <1>7, <1>8

Straight == {"move", "litinteger", "set", "add", "sub", "eq", "gt", "lt", "and", "arrayget", "arraylen"}

\* What the interpreter computes is a cell.
LEMMA ValueTyped ==
  ASSUME Programmed, NEW s \in Acts, Sound(s), I(s).op \in Straight
  PROVE  Value(s) \in Cell
  <1>1. /\ I(s) \in Instruction /\ A(s) \in Cell /\ B(s) \in Cell /\ C(s) \in Cell
        /\ I(s).dest \in Nat /\ (I(s).op = "set" => I(s).dest \in DOMAIN ConstPool)
    BY OperandFacts DEF Instruction
  <1>2. IntMod \in Nat \ {0} /\ Range(ConstPool) \subseteq Cell
    BY JITAssumption DEF Cell
  <1>3. \A n \in Int : n % IntMod \in Nat
    BY <1>2
  <1>4. CASE I(s).op = "move"
    BY <1>1, <1>4 DEF Value
  <1>5. CASE I(s).op = "litinteger"
    BY <1>1, <1>5, ObjectFacts DEF Value
  <1>6. CASE I(s).op = "set"
    <2>1. ConstPool[I(s).dest] \in Range(ConstPool)
      BY <1>1, <1>6 DEF Range
    <2> QED
      BY <1>2, <1>6, <2>1 DEF Value
  <1>7. CASE I(s).op \in {"add", "sub"}
    <2>1. IsA(B(s), "int") /\ IsA(C(s), "int")
      BY <1>7 DEF Sound, IntOps
    <2>2. B(s).v \in Nat /\ C(s).v \in Nat
      BY <1>1, <2>1, ObjectFacts
    <2>3. /\ B(s).v + C(s).v \in Int /\ B(s).v + IntMod - C(s).v \in Int
      BY <1>2, <2>2
    <2>4. /\ IntOf((B(s).v + C(s).v) % IntMod) \in Cell /\ IntOf((B(s).v + IntMod - C(s).v) % IntMod) \in Cell
      BY <1>3, <2>3, ObjectFacts
    <2> QED
      BY <1>7, <2>4 DEF Value
  <1>8. CASE I(s).op \in {"eq", "gt", "lt", "and"}
    <2>1. \E p \in BOOLEAN : Value(s) = Bool(p)
      BY <1>8 DEF Value, Bool
    <2> QED
      BY <2>1, ObjectFacts
  <1>9. CASE I(s).op = "arraylen"
    <2>1. IsA(B(s), "array")
      BY <1>9 DEF Sound
    <2>2. s.arrays[B(s).v] \in Seq(Cell)
      BY <1>1, <2>1, ObjectFacts DEF Acts
    <2>3. Len(s.arrays[B(s).v]) \in Nat
      BY <2>2
    <2> QED
      BY <1>9, <2>3, ObjectFacts DEF Value
  <1>10. CASE I(s).op = "arrayget"
    <2>1. IsA(B(s), "array") /\ IsA(C(s), "int") /\ C(s).v < Len(s.arrays[B(s).v])
      BY <1>10 DEF Sound, InArray
    <2>2. s.arrays[B(s).v] \in Seq(Cell) /\ C(s).v \in Nat
      BY <1>1, <2>1, ObjectFacts DEF Acts
    <2>3. s.arrays[B(s).v][C(s).v + 1] \in Cell
      BY <2>1, <2>2
    <2> QED
      BY <1>10, <2>3 DEF Value
  <1> QED
    BY <1>4, <1>5, <1>6, <1>7, <1>8, <1>9, <1>10 DEF Straight
\* An instruction changes registers only by writing one; the rest keeps its type.
Moved(s, t) ==
  /\ t.regs = s.regs /\ t.wrote = s.wrote /\ t.own = s.own /\ t.out = s.out
Wrote(s, t) ==
  \E u \in Acts : \E val \in Cell :
    /\ t = Write(u, Writes(I(s)), val)
    /\ u.ip = s.ip /\ u.result = s.result /\ u.wrote = s.wrote
    /\ u.regs[NullReg] = s.regs[NullReg] /\ \A r \in GenRegs : u.regs[r] = s.regs[r]
    /\ I(s).op = "set" => val = ConstPool[I(s).dest]

LEMMA StepEffect ==
  ASSUME Programmed, NEW s \in Acts, Sound(s), NEW t \in Steps(s)
  PROVE  /\ (t \in Acts /\ Moved(s, t)) \/ Wrote(s, t)
         /\ t.result.status = "returned" => I(s).op = "return"
         /\ I(s).op \notin {"goto", "jump", "if", "return"} => t.ip = s.ip + 1
  <1>1. /\ I(s) \in Instruction /\ A(s) \in Cell /\ B(s) \in Cell /\ C(s) \in Cell
        /\ I(s).dest \in Nat /\ I(s).a \in Reg /\ I(s).b \in Reg /\ s.ip \in Nat
        /\ I(s).op \in Recorded \cup {"sub", "jump"}
    BY OperandFacts DEF Instruction, Acts
  <1>2. Shape(s) /\ s.result.status = "running"
    BY ActsShape DEF Sound
  <1>3. /\ s.regs \in [Reg -> Cell] /\ s.arrays \in [DOMAIN Arrays -> Seq(Cell)]
        /\ s.locals \in [Syms -> Seq(Cell)] /\ s.out \in Seq(Calls)
        /\ s.result \in [status : {"running", "returned", "crashed"}, val : Cell]
        /\ s.wrote \in SUBSET Nat /\ s.own \in BOOLEAN
    BY DEF Acts
  <1>a. \A ip \in Nat, regs \in [Reg -> Cell], arrays \in [DOMAIN Arrays -> Seq(Cell)],
           locs \in [Syms -> Seq(Cell)], out \in Seq(Calls),
           result \in [status : {"running", "returned", "crashed"}, val : Cell], wrote \in SUBSET Nat,
           own \in BOOLEAN : Made(ip, regs, arrays, locs, out, result, wrote, own) \in Acts
    BY DEF Made, Acts
  <1>b. \A r, val : Write(s, r, val).ip = s.ip + 1 /\ Write(s, r, val).result = s.result
    BY <1>2, WriteForm DEF Made
  <1>4. CASE I(s).op \in {"goto", "jump"}
    <2>1. t = Made(I(s).dest, s.regs, s.arrays, s.locals, s.out, s.result, s.wrote, s.own)
      BY <1>2, <1>4, StepsForm
    <2>2. t \in Acts
      BY <1>1, <1>3, <1>a, <2>1
    <2> QED
      BY <1>2, <1>4, <2>1, <2>2 DEF Moved, Made
  <1>5. CASE I(s).op = "if"
    <2> DEFINE to == IF Falsey(A(s)) THEN s.ip + 1 ELSE I(s).dest
    <2>0. to \in Nat
      BY <1>1
    <2>1. t = Made(to, s.regs, s.arrays, s.locals, s.out, s.result, s.wrote, s.own)
      BY <1>2, <1>5, StepsForm
    <2> HIDE DEF to
    <2>2. t \in Acts
      BY <2>0, <1>3, <1>a, <2>1
    <2> QED
      BY <1>2, <1>5, <2>1, <2>2 DEF Moved, Made
  <1>6. CASE I(s).op = "return"
    <2> DEFINE val == [status |-> "returned", val |-> A(s)]
    <2>0. val \in [status : {"running", "returned", "crashed"}, val : Cell]
      BY <1>1
    <2>1. t = Made(s.ip, s.regs, s.arrays, s.locals, s.out, val, s.wrote, s.own)
      BY <1>2, <1>6, StepsForm
    <2> HIDE DEF val
    <2>2. t \in Acts
      BY <2>0, <1>1, <1>3, <1>a, <2>1
    <2> QED
      BY <1>6, <2>1, <2>2 DEF Moved, Made
  <1>7. CASE I(s).op = "setlocal"
    <2> DEFINE locs == [s.locals EXCEPT ![A(s).v] = WithValue(@, B(s))]
    <2>0. locs \in [Syms -> Seq(Cell)]
      BY <1>1, <1>3, WithValueKeeps
    <2>1. t = Made(s.ip + 1, s.regs, s.arrays, locs, s.out, s.result, s.wrote, s.own)
      BY <1>2, <1>7, StepsForm
    <2> HIDE DEF locs
    <2>2. t \in Acts
      <3>1. s.ip + 1 \in Nat
        BY <1>1
      <3> QED
        BY <2>0, <1>3, <1>a, <2>1, <3>1
    <2> QED
      BY <1>2, <1>7, <2>1, <2>2 DEF Moved, Made
  <1>8. CASE I(s).op = "arrayset"
    <2> DEFINE arrays == [s.arrays EXCEPT ![A(s).v][B(s).v + 1] = C(s)]
    <2>0. arrays \in [DOMAIN Arrays -> Seq(Cell)]
      <3>1. IsA(A(s), "array") /\ IsA(B(s), "int") /\ B(s).v < Len(s.arrays[A(s).v])
        BY <1>8 DEF Sound, InArray
      <3>2. A(s).v \in DOMAIN Arrays /\ B(s).v \in Nat
        BY <1>1, <3>1, ObjectFacts
      <3>3. s.arrays[A(s).v] \in Seq(Cell) /\ B(s).v + 1 \in 1 .. Len(s.arrays[A(s).v])
        BY <1>3, <3>1, <3>2
      <3>4. [s.arrays[A(s).v] EXCEPT ![B(s).v + 1] = C(s)] \in Seq(Cell)
        BY <1>1, <3>3
      <3> QED
        BY <1>3, <3>2, <3>4
    <2>1. t = Made(s.ip + 1, s.regs, arrays, s.locals, s.out, s.result, s.wrote, s.own)
      BY <1>2, <1>8, StepsForm
    <2> HIDE DEF arrays
    <2>2. t \in Acts
      <3>1. s.ip + 1 \in Nat
        BY <1>1
      <3> QED
        BY <2>0, <1>3, <1>a, <2>1, <3>1
    <2> QED
      BY <1>2, <1>8, <2>1, <2>2 DEF Moved, Made
  <1>9. CASE I(s).op = "getlocal"
    <2>0. Steps(s) = {Write(s, I(s).a, val) : val \in Lookup(s, B(s).v) \ {NULL}}
      BY <1>9 DEF Steps
    <2>1. PICK val \in Lookup(s, B(s).v) \ {NULL} : t = Write(s, I(s).a, val)
      BY <2>0
    <2>2. B(s).v \in Syms
      BY <1>1, <1>9, ObjectFacts DEF Sound
    <2>3. val \in Cell /\ Writes(I(s)) = I(s).a
      BY <1>3, <1>9, <2>1, <2>2, LookupKeeps DEF Writes
    <2>4. Wrote(s, t)
      BY <1>9, <2>1, <2>3 DEF Wrote
    <2> QED
      BY <1>2, <1>9, <1>b, <2>1, <2>4
  <1>10. CASE I(s).op = "invokeprimitive"
    <2> DEFINE u == CallPrimitive(s, A(s).v)
    <2>0. Steps(s) = {Write(u, I(s).b, val) : val \in Answers}
      BY <1>10 DEF Steps
    <2>1. PICK val \in Answers : t = Write(u, I(s).b, val)
      BY <2>0
    <2>2. val \in Cell /\ Writes(I(s)) = I(s).b
      BY <1>10, <2>1, JITAssumption DEF Cell, Writes
    <2> DEFINE call == [sym |-> A(s).v, param |-> s.regs[<<"arg", 0>>]]
    <2>3. u = Made(s.ip, CopyRegs(s.regs), s.arrays, s.locals, Append(s.out, call), s.result, s.wrote, FALSE)
      BY <1>2, CallForm
    <2>4. Append(s.out, call) \in Seq(Calls)
      <3>1. A(s).v \in Syms /\ s.regs[<<"arg", 0>>] \in Cell
        BY <1>1, <1>3, <1>10, ObjectFacts, RegisterFacts DEF Sound
      <3> QED
        BY <1>3, <3>1 DEF Calls
    <2> HIDE DEF u, call
    <2>5. CopyRegs(s.regs) \in [Reg -> Cell] /\ s.ip \in Nat /\ FALSE \in BOOLEAN
      BY <1>1, <1>3, CopyRegsFacts
    <2>6. u \in Acts
      BY <1>3, <1>a, <2>3, <2>4, <2>5, Zenon
    <2>7. u.ip = s.ip /\ u.result = s.result /\ u.wrote = s.wrote /\ u.regs = CopyRegs(s.regs)
      BY <2>3 DEF Made
    <2>8. u.regs[NullReg] = s.regs[NullReg] /\ \A r \in GenRegs : u.regs[r] = s.regs[r]
      BY <1>3, <2>7, CopyRegsFacts
    <2>9. Wrote(s, t)
      BY <1>10, <2>1, <2>2, <2>6, <2>7, <2>8 DEF Wrote
    <2>10. Write(u, I(s).b, val).ip = u.ip + 1 /\ Write(u, I(s).b, val).result = u.result
      BY <2>6, ActsShape, WriteForm DEF Made
    <2> QED
      BY <1>2, <1>10, <2>1, <2>7, <2>9, <2>10
  <1>11. CASE I(s).op \in Straight
    <2>1. t = Write(s, I(s).a, Value(s))
      BY <1>2, <1>11, StepsForm DEF Straight
    <2>2. Value(s) \in Cell /\ Writes(I(s)) = I(s).a
      BY <1>11, ValueTyped DEF Writes, Straight
    <2>3. I(s).op = "set" => Value(s) = ConstPool[I(s).dest]
      BY DEF Value
    <2>4. Wrote(s, t)
      BY <2>1, <2>2, <2>3 DEF Wrote
    <2> QED
      BY <1>2, <1>11, <1>b, <2>1, <2>4 DEF Straight
  <1> QED
    BY <1>1, <1>4, <1>5, <1>6, <1>7, <1>8, <1>9, <1>10, <1>11 DEF Straight, Recorded, Compilable

LEMMA StepTyped ==
  ASSUME Programmed, NEW s \in Acts, Sound(s), Held(s), s.regs[NullReg] = Null, NEW t \in Steps(s)
  PROVE  t \in Acts /\ Held(t) /\ t.regs[NullReg] = Null
  <1>1. CASE t \in Acts /\ Moved(s, t)
    BY <1>1 DEF Moved, Held
  <1>2. CASE Wrote(s, t)
    <2> DEFINE w == Writes(I(s))
    <2>1. PICK u \in Acts, val \in Cell :
            /\ t = Write(u, w, val)
            /\ u.ip = s.ip /\ u.result = s.result /\ u.wrote = s.wrote
            /\ u.regs[NullReg] = s.regs[NullReg] /\ \A r \in GenRegs : u.regs[r] = s.regs[r]
            /\ I(s).op = "set" => val = ConstPool[I(s).dest]
      BY <1>2 DEF Wrote
    <2>2. I(s) = body[s.ip] /\ s.ip \in DOMAIN body
      BY OperandFacts
    <2> HIDE DEF w
    <2> DEFINE regs == IF w \in GenRegs \cup ArgRegs THEN [u.regs EXCEPT ![w] = val] ELSE u.regs
    <2>3. t = Made(u.ip + 1, regs, u.arrays, u.locals, u.out, u.result, u.wrote \cup {u.ip}, u.own)
      BY <2>1, ActsShape, WriteForm
    <2>4. /\ u.ip + 1 \in Nat /\ u.ip \in Nat /\ u.regs \in [Reg -> Cell]
          /\ u.arrays \in [DOMAIN Arrays -> Seq(Cell)]
          /\ u.locals \in [Syms -> Seq(Cell)] /\ u.out \in Seq(Calls)
          /\ u.result \in [status : {"running", "returned", "crashed"}, val : Cell]
          /\ u.wrote \cup {u.ip} \in SUBSET Nat /\ u.own \in BOOLEAN
      BY DEF Acts
    <2>5. regs \in [Reg -> Cell]
      BY <2>4
    <2>6. regs[NullReg] = u.regs[NullReg] /\ \A r \in GenRegs : regs[r] = IF r = w THEN val ELSE u.regs[r]
      BY <2>4, RegisterFacts
    <2> HIDE DEF regs
    <2>7. t \in Acts /\ t.regs = regs
      BY <2>3, <2>4, <2>5 DEF Made, Acts
    <2>8. Held(t)
      <3> SUFFICES ASSUME NEW r \in GenRegs, NEW j \in DOMAIN body, Names(r, j)
                   PROVE  t.regs[r] \in {Null, ConstPool[body[j].dest]}
        BY DEF Held
      <3>1. CASE r = w
        <4>1. s.ip = j /\ body[j].op = "set"
          BY <2>2, <3>1 DEF Names, w
        <4>2. val = ConstPool[body[j].dest]
          BY <2>1, <2>2, <4>1
        <4> QED
          BY <2>6, <2>7, <3>1, <4>2
      <3>2. CASE r # w
        BY <2>1, <2>6, <2>7, <3>2 DEF Held
      <3> QED
        BY <3>1, <3>2
    <2> QED
      BY <2>1, <2>6, <2>7, <2>8
  <1> QED
    BY <1>1, <1>2, StepEffect

--------------------------------------------------------------------------------
(* The trace *)

Items == [ip : Nat, i : Instruction, sym : Syms \cup {NULL}]
Building == {"record", "sort", "blocks", "registers", "locals", "emit"}
Plain(i) == i.op \notin {"if", "goto", "return"}
Named(i) == IF i.op = "setlocal" THEN i.a ELSE i.b

\* What the recorder knows of an item: it was carried out.
ItemOK(item) ==
  /\ item.ip \in DOMAIN body /\ item.i = body[item.ip] /\ item.i.op \in Recorded
  /\ Reads(item.i) \cap ArgRegs = {} /\ Writes(item.i) \notin ParamRegs
  /\ item.i.op = "add" => NullReg \notin {item.i.b, item.i.c}
  /\ item.i.op \in {"setlocal", "getlocal"} =>
       /\ item.sym \in Syms
       /\ \A j \in DOMAIN body : Names(Named(item.i), j) /\ Named(item.i) \in GenRegs =>
            item.sym = ConstPool[body[j].dest].v

\* The recorder goes on to the next address, unless it does not know what is there.
Onward(ip) ==
  (ip \in DOMAIN body /\ body[ip].op \in Recorded) =>
    ip \in Ips \/ (phase \in {"record", "abandoned"} /\ ip = st.ip)

Early == {"record", "abandoned", "sort"}
Traces ==
  /\ Programmed
  /\ trace \in Seq(Items) /\ \A n \in DOMAIN trace : ItemOK(trace[n])
  /\ \A m, n \in DOMAIN trace : trace[m].ip = trace[n].ip => m = n
  /\ \A n \in DOMAIN trace : Plain(trace[n].i) => Onward(trace[n].ip + 1)
  /\ phase \notin {"record", "abandoned"} => trace # << >>
  /\ phase \notin Early => \A m, n \in DOMAIN trace : m < n => trace[m].ip < trace[n].ip
  /\ phase \in Building => st \in Acts /\ st.regs[NullReg] = Null
  /\ phase = "record" => Held(st)

LEMMA ItemRecorded ==
  ASSUME Programmed, st \in Acts, st.regs[NullReg] = Null, Held(st), Sound(st), I(st).op \in Recorded
  PROVE  /\ Item \in Items /\ ItemOK(Item) /\ Item.ip = st.ip /\ Item.i = I(st)
  <1>1. /\ I(st) \in Instruction /\ I(st) = body[st.ip] /\ st.ip \in DOMAIN body /\ st.ip \in Nat
        /\ A(st) \in Cell /\ B(st) \in Cell /\ I(st).a \in Reg /\ I(st).b \in Reg
    BY OperandFacts DEF Acts, Instruction
  <1>2. Item.ip = st.ip /\ Item.i = I(st) /\ Item.sym = Annotation
    BY DEF Item
  <1>3. /\ I(st).op = "setlocal" => Annotation = A(st).v /\ IsA(A(st), "symbol") /\ A(st).v \in Syms
        /\ I(st).op = "getlocal" => Annotation = B(st).v /\ IsA(B(st), "symbol") /\ B(st).v \in Syms
        /\ I(st).op \notin {"setlocal", "getlocal"} => Annotation = NULL
    BY <1>1, ObjectFacts DEF Annotation, Sound
  <1>4. Annotation \in Syms \cup {NULL}
    BY <1>3
  <1>5. Item \in Items
    BY <1>1, <1>4 DEF Item, Items
  <1>6. Reads(I(st)) \cap ArgRegs = {} /\ Writes(I(st)) \notin ParamRegs
    BY DEF Sound
  <1>7. ASSUME I(st).op = "add" PROVE NullReg \notin {I(st).b, I(st).c}
    <2>1. IsA(B(st), "int") /\ IsA(C(st), "int")
      BY <1>7 DEF Sound, IntOps
    <2>2. ~IsA(Null, "int")
      BY DEF IsA, Null
    <2> QED
      BY <2>1, <2>2 DEF B, C
  <1>8. ASSUME I(st).op \in {"setlocal", "getlocal"}, NEW j \in DOMAIN body,
               Names(Named(I(st)), j), Named(I(st)) \in GenRegs
        PROVE  Annotation = ConstPool[body[j].dest].v
    <2> DEFINE r == Named(I(st))
    <2>1. st.regs[r] \in {Null, ConstPool[body[j].dest]}
      BY <1>8 DEF Held
    <2>2. IsA(st.regs[r], "symbol") /\ Annotation = st.regs[r].v
      BY <1>3, <1>8 DEF Named, A, B
    <2>3. ~IsA(Null, "symbol")
      BY DEF IsA, Null
    <2> QED
      BY <2>1, <2>2, <2>3
  <1> QED
    BY <1>1, <1>2, <1>3, <1>5, <1>6, <1>7, <1>8 DEF ItemOK

LEMMA EnterFacts ==
  ASSUME NEW regs \in [Reg -> Cell], NEW arrays \in [DOMAIN Arrays -> Seq(Cell)], entry \in Nat
  PROVE  Enter(regs, arrays) \in Acts
  <1>1. NULL \in Cell /\ <<>> \in Seq(Cell)
    BY DEF Cell
  <1>2. /\ [x \in Syms |-> <<>>] \in [Syms -> Seq(Cell)] /\ << >> \in Seq(Calls)
        /\ [status |-> "running", val |-> NULL] \in [status : {"running", "returned", "crashed"}, val : Cell]
        /\ {} \in SUBSET Nat /\ TRUE \in BOOLEAN
    BY <1>1
  <1> QED
    BY <1>2 DEF Enter, Acts

LEMMA CallRegsFacts ==
  ASSUME NEW regs \in [Reg -> Cell], NEW param \in Params
  PROVE  /\ CallRegs(regs, param) \in [Reg -> Cell] /\ CallRegs(regs, param)[NullReg] = regs[NullReg]
         /\ \A r \in GenRegs : CallRegs(regs, param)[r] = regs[r]
         /\ CallRegs(regs, param)[<<"param", 0>>] = param
  <1> DEFINE new == [regs EXCEPT ![<<"arg", 0>>] = param]
  <1>1. param \in Cell
    BY JITAssumption DEF Cell
  <1>2. <<"arg", 0>> \in Reg /\ NullReg # <<"arg", 0>> /\ \A r \in GenRegs : r # <<"arg", 0>>
    BY RegisterFacts DEF NullReg, GenRegs
  <1>3. /\ new \in [Reg -> Cell] /\ new[NullReg] = regs[NullReg]
        /\ \A r \in GenRegs : new[r] = regs[r] /\ new[<<"arg", 0>>] = param
    BY <1>1, <1>2, RegisterFacts
  <1>4. new[<<"arg", 0>>] = param
    BY <1>2
  <1> HIDE DEF new
  <1>5. CallRegs(regs, param) = CopyRegs(new)
    BY DEF CallRegs, new
  <1> QED
    BY <1>3, <1>4, <1>5, CopyRegsFacts

LEMMA TracesInit ==
  ASSUME Init
  PROVE  Traces /\ phase = "record"
  <1>1. Programmed
    BY JITAssumption DEF Init, Programmed
  <1>2. FreshRegs \in [Reg -> Cell] /\ FreshRegs[NullReg] = Null /\ \A r \in GenRegs : FreshRegs[r] = Null
    BY ObjectFacts, RegisterFacts DEF FreshRegs
  <1>3. Arrays \in [DOMAIN Arrays -> Seq(Cell)]
    BY JITAssumption DEF Cell
  <1>4. PICK param \in Params : st = Enter(CallRegs(FreshRegs, param), Arrays)
    BY DEF Init
  <1>5. st \in Acts
    BY <1>1, <1>2, <1>3, <1>4, CallRegsFacts, EnterFacts DEF Programmed
  <1>6. st.regs = CallRegs(FreshRegs, param)
    BY <1>4 DEF Enter
  <1>7. st.regs[NullReg] = Null /\ \A r \in GenRegs : st.regs[r] = Null
    BY <1>2, <1>6, CallRegsFacts
  <1>8. Held(st)
    BY <1>7 DEF Held
  <1>9. trace = << >> /\ phase = "record"
    BY DEF Init
  <1> QED
    BY <1>1, <1>5, <1>7, <1>8, <1>9 DEF Traces, Early

LEMMA RecordStep ==
  ASSUME Traces, Record
  PROVE  Traces' /\ (phase' = "sort" => trace' # << >>)
  <1>1. /\ phase = "record" /\ Sound(st) /\ st' \in Steps(st) /\ UNCHANGED <<body, entry>>
        /\ phase' = IF st'.result.status = "returned" THEN "sort" ELSE "record"
    BY DEF Record
  <1>2. /\ Programmed /\ st \in Acts /\ st.regs[NullReg] = Null /\ Held(st)
        /\ trace \in Seq(Items) /\ \A n \in DOMAIN trace : ItemOK(trace[n])
        /\ \A m, n \in DOMAIN trace : trace[m].ip = trace[n].ip => m = n
        /\ \A n \in DOMAIN trace : Plain(trace[n].i) => Onward(trace[n].ip + 1)
    BY <1>1 DEF Traces, Building
  <1>3. st' \in Acts /\ Held(st') /\ st'.regs[NullReg] = Null
    BY <1>1, <1>2, StepTyped
  <1>4. Held(st)'
    BY <1>1, <1>3 DEF Held, Names
  <1>5. Programmed'
    BY <1>1, <1>2 DEF Programmed
  <1>6. /\ st'.result.status = "returned" => I(st).op = "return"
        /\ I(st).op \notin {"goto", "jump", "if", "return"} => st'.ip = st.ip + 1
    BY <1>1, <1>2, StepEffect
  <1>7. \A item : ItemOK(item)' <=> ItemOK(item)
    BY <1>1 DEF ItemOK, Names, Named
  <1>8. CASE I(st).op \notin Recorded
    <2>1. trace' = trace /\ phase' = "record"
      BY <1>1, <1>6, <1>8 DEF Record, Recorded, Compilable
    <2>2. \A ip : Onward(ip) => Onward(ip)'
      BY <1>1, <1>8, <2>1 DEF Onward, Ips, I
    <2> QED
      BY <1>2, <1>3, <1>4, <1>5, <1>7, <2>1, <2>2 DEF Traces, Early
  <1>9. CASE I(st).op \in Recorded
    <2>1. Item \in Items /\ ItemOK(Item) /\ Item.ip = st.ip /\ Item.i = I(st)
      BY <1>1, <1>2, <1>9, ItemRecorded
    <2>2. /\ trace' \in Seq(Items)
          /\ \A n \in DOMAIN trace' : trace'[n] = Item \/ (n \in DOMAIN trace /\ trace'[n] = trace[n] /\ trace[n].ip # st.ip)
          /\ \A m, n \in DOMAIN trace' : trace'[m] = Item /\ trace'[n] = Item => m = n
          /\ \E n \in DOMAIN trace' : trace'[n] = Item
          /\ \A n \in DOMAIN trace : n \in DOMAIN trace' /\ trace'[n].ip = trace[n].ip
      <3>1. CASE At(trace, st.ip) = {}
        <4>1. trace' = Append(trace, Item)
          BY <1>9, <3>1 DEF Record
        <4>2. \A n \in DOMAIN trace : trace[n].ip # st.ip
          BY <3>1 DEF At
        <4> HIDE DEF Item
        <4> QED
          BY <1>2, <2>1, <4>1, <4>2, AppendFacts
      <3>2. CASE At(trace, st.ip) # {}
        <4>1. trace' = [n \in DOMAIN trace |-> IF trace[n].ip = st.ip THEN Item ELSE trace[n]]
          BY <1>9, <3>2 DEF Record
        <4>2. PICK n \in DOMAIN trace : trace[n].ip = st.ip
          BY <3>2 DEF At
        <4> HIDE DEF Item
        <4>3. trace' \in Seq(Items)
          BY <1>2, <2>1, <4>1
        <4>4. /\ DOMAIN trace' = DOMAIN trace /\ trace'[n] = Item
              /\ \A m \in DOMAIN trace : trace'[m] = IF trace[m].ip = st.ip THEN Item ELSE trace[m]
          BY <4>1, <4>2
        <4> QED
          BY <1>2, <2>1, <4>2, <4>3, <4>4
      <3> QED
        BY <3>1, <3>2
    <2> HIDE DEF Item
    <2>3. \A n \in DOMAIN trace' : ItemOK(trace'[n])
      BY <1>2, <2>1, <2>2
    <2>4. \A n \in DOMAIN trace' : ItemOK(trace[n])'
      BY <1>1, <2>3 DEF ItemOK, Names, Named
    <2>5. \A m, n \in DOMAIN trace' : trace'[m].ip = trace'[n].ip => m = n
      BY <1>2, <2>1, <2>2
    <2>6. trace' # << >>
      BY <2>2
    <2>7. Ips \subseteq Ips' /\ st.ip \in Ips'
      BY <2>1, <2>2 DEF Ips
    <2>8. \A n \in DOMAIN trace' : Plain(trace'[n].i) => Onward(trace[n].ip + 1)'
      <3> SUFFICES ASSUME NEW n \in DOMAIN trace', Plain(trace'[n].i) PROVE Onward(trace[n].ip + 1)'
        OBVIOUS
      <3>1. CASE trace'[n] = Item
        <4>1. I(st).op \notin {"goto", "if", "return", "jump"}
          BY <1>9, <2>1, <3>1 DEF Plain, Recorded, Compilable
        <4>2. phase' = "record" /\ st'.ip = trace'[n].ip + 1
          BY <1>1, <1>6, <2>1, <3>1, <4>1
        <4> QED
          BY <4>2 DEF Onward
      <3>2. CASE n \in DOMAIN trace /\ trace'[n] = trace[n]
        <4> DEFINE nx == trace[n].ip + 1
        <4>1. Onward(nx)
          BY <1>2, <3>2
        <4>2. (trace[n].ip + 1)' = nx
          BY <3>2
        <4> QED
          BY <1>1, <2>7, <4>1, <4>2 DEF Onward
      <3> QED
        BY <2>2, <3>1, <3>2
    <2> QED
      BY <1>1, <1>3, <1>4, <1>5, <2>2, <2>4, <2>5, <2>6, <2>8 DEF Traces, Early
  <1> QED
    BY <1>8, <1>9

LEMMA SortStep ==
  ASSUME Traces, Sort
  PROVE  Traces'
  <1>1. /\ phase = "sort" /\ phase' = "blocks" /\ UNCHANGED <<body, entry, st>>
        /\ trace' = [n \in DOMAIN trace |-> Sorted(trace, n)]
    BY DEF Sort
  <1>2. /\ Programmed /\ st \in Acts /\ st.regs[NullReg] = Null
        /\ trace \in Seq(Items) /\ \A n \in DOMAIN trace : ItemOK(trace[n])
        /\ \A m, n \in DOMAIN trace : trace[m].ip = trace[n].ip => m = n
        /\ \A n \in DOMAIN trace : Plain(trace[n].i) => Onward(trace[n].ip + 1)
        /\ trace # << >>
    BY <1>1 DEF Traces, Building
  <1>3. \A n \in DOMAIN trace : trace[n].ip \in Nat
    <2>1. trace \in Seq(Items)
      BY <1>2
    <2>2. \A n \in DOMAIN trace : trace[n] \in Items
      BY <2>1
    <2> QED
      BY <2>2 DEF Items
  <1>4. /\ trace' \in Seq(Items) /\ Len(trace') = Len(trace)
        /\ \A n \in DOMAIN trace' : \E m \in DOMAIN trace : trace'[n] = trace[m]
        /\ \A m \in DOMAIN trace : \E n \in DOMAIN trace' : trace'[n] = trace[m]
        /\ \A m, n \in DOMAIN trace' : m < n => trace'[m].ip < trace'[n].ip
    <2>1. trace \in Seq(Items) /\ trace' = [n \in DOMAIN trace |-> Sorted(trace, n)]
      BY <1>1, <1>2
    <2>2. \A m, n \in DOMAIN trace : trace[m].ip = trace[n].ip => m = n
      BY <1>2
    <2>3. /\ SortedTrace \in Seq(Items) /\ Len(SortedTrace) = Len(trace)
          /\ \A n \in DOMAIN SortedTrace : \E m \in DOMAIN trace : SortedTrace[n] = trace[m]
          /\ \A m \in DOMAIN trace : \E n \in DOMAIN SortedTrace : SortedTrace[n] = trace[m]
          /\ \A m, n \in DOMAIN SortedTrace : m < n => SortedTrace[m].ip < SortedTrace[n].ip
      BY <2>1, <2>2, <1>3, SortedFacts
    <2>4. trace' = SortedTrace
      BY <2>1 DEF SortedTrace
    <2> QED
      BY <2>3, <2>4
  <1>5. \A n \in DOMAIN trace' : trace'[n].ip \in Nat /\ n \in Nat
    <2>0. trace' \in Seq(Items)
      BY <1>4
    <2>1. \A n \in DOMAIN trace' : trace'[n] \in Items /\ n \in Nat
      BY <2>0
    <2> QED
      BY <2>1 DEF Items
  <1>6. \A m, n \in DOMAIN trace' : trace'[m].ip = trace'[n].ip => m = n
    <2>1. \A m, n \in DOMAIN trace' : m < n => trace'[m].ip < trace'[n].ip
      BY <1>4
    <2> QED
      BY <1>5, <2>1
  <1>7. Ips' = Ips
    BY <1>4 DEF Ips
  <1>8. \A n \in DOMAIN trace' : ItemOK(trace'[n]) /\ (Plain(trace'[n].i) => Onward(trace'[n].ip + 1))
    BY <1>2, <1>4
  <1>9. \A n \in DOMAIN trace' : ItemOK(trace[n])' /\ (Plain(trace'[n].i) => Onward(trace[n].ip + 1)')
    BY <1>1, <1>7, <1>8 DEF ItemOK, Names, Named, Onward
  <1>10. Programmed' /\ trace' # << >>
    BY <1>1, <1>2, <1>4 DEF Programmed
  <1> QED
    BY <1>1, <1>2, <1>4, <1>6, <1>9, <1>10 DEF Traces

\* Every other step leaves the program and the trace alone.
Later ==
  /\ UNCHANGED <<body, entry, trace>>
  /\ \/ phase = "record" /\ phase' = "abandoned" /\ st' = st
     \/ /\ phase \notin Early /\ phase' \notin Early
        /\ phase' \in Building => phase \in Building /\ st' = st

LEMMA LaterSteps ==
  ASSUME [Next]_vars, ~Record, ~Sort, vars' # vars
  PROVE  Later
  <1>1. Abandon => Later
    BY DEF Abandon, Later, compiled
  <1>2. IdentifyBlocks \/ IdentifyRegisters \/ IdentifyLocals => Later
    BY DEF IdentifyBlocks, IdentifyRegisters, IdentifyLocals, Abort, Later, compiled, Early, Building
  <1>3. EmitMove \/ EmitCompare \/ EmitArraySet \/ EmitConstant \/ EmitAdd \/ EmitSetLocal => Later
    BY DEF EmitMove, EmitCompare, EmitArraySet, EmitConstant, EmitAdd, EmitSetLocal, EmitPlain, Emits,
           Advance, Abort, Later, compiled, Early, Building
  <1>4. EmitGoto \/ EmitIf \/ EmitReturn \/ EmitUnknown \/ Verify => Later
    BY DEF EmitGoto, EmitIf, EmitReturn, EmitUnknown, Verify, Emits,
           Advance, Abort, Later, compiled, Early, Building
  <1>5. Run \/ RunPlain \/ RunArraySet \/ RunSetLocal \/ RunBranch \/ RunReturn \/ RunFaults => Later
    BY DEF Run, RunPlain, RunArraySet, RunSetLocal, RunBranch, RunReturn, RunFaults, Executes,
           Later, compiled, Early, Building
  <1> QED
    BY <1>1, <1>2, <1>3, <1>4, <1>5 DEF Next

\* What hvm_jit_call_trace_push_instruction records, and how hvm_jit_sort_trace leaves
\* it: every item was carried out, each address is recorded once, and in order.
THEOREM TracesInvariant == Spec => []Traces
  <1>1. Init => Traces
    BY TracesInit
  <1>2. ASSUME Traces, [Next]_vars PROVE Traces'
    <2>1. CASE Record
      BY <1>2, <2>1, RecordStep
    <2>2. CASE Sort
      BY <1>2, <2>2, SortStep
    <2>3. CASE Later
      BY <1>2, <2>3 DEF Later, Traces, Programmed, ItemOK, Names, Named, Onward, Ips, Early, Building
    <2>4. CASE vars' = vars
      BY <1>2, <2>4 DEF vars, compiled, Traces, Programmed, ItemOK, Names, Named, Onward, Ips, Early,
                        Building, Held
    <2> QED
      BY <1>2, <2>1, <2>2, <2>3, <2>4, LaterSteps
  <1> QED
    BY <1>1, <1>2, PTL DEF Spec

--------------------------------------------------------------------------------
(* The blocks *)

Full == {"registers", "locals", "emit", "compiled", "running", "crashed"}
Leads(item) == [d \in DOMAIN Branches(item) |-> Traced(Branches(item)[d])]
Marks(item) == {ip \in Range(Branches(item)) : InTrace(ip)}

Blocked ==
  /\ data \in Seq(Seq(Nat \cup {NULL}))
  /\ phase \in Early => data = << >>
  /\ phase = "blocks" => Len(data) < Len(trace)
  /\ phase \in Full => Len(data) = Len(trace)
  /\ DOMAIN data \subseteq DOMAIN trace
  /\ \A n \in DOMAIN data : /\ data[n] = Leads(trace[n])
                            /\ trace[n].i.op = "goto" => InTrace(trace[n].i.dest)
  /\ data = << >> => blocks = << >>
  /\ data # << >> =>
       /\ IsList(blocks) /\ blocks[1] = trace[1].ip
       /\ \A ip : ip \in Range(blocks) <=> ip = trace[1].ip \/ \E n \in DOMAIN data : ip \in Marks(trace[n])

LEMMA ItemFacts ==
  ASSUME Traces, NEW n \in DOMAIN trace
  PROVE  /\ trace[n] \in Items /\ trace[n].ip \in Nat /\ trace[n].i \in Instruction /\ trace[n].i.dest \in Nat
         /\ trace[n].i.a \in Reg /\ trace[n].i.b \in Reg /\ trace[n].i.c \in Reg
         /\ trace[n].i.op \in Recorded /\ trace[n].sym \in Syms \cup {NULL}
         /\ n \in 1 .. Len(trace) /\ Len(trace) \in Nat /\ InTrace(trace[n].ip)
  <1>1. trace \in Seq(Items) /\ ItemOK(trace[n])
    BY DEF Traces
  <1>2. trace[n] \in Items /\ n \in 1 .. Len(trace) /\ Len(trace) \in Nat
    BY <1>1
  <1>3. InTrace(trace[n].ip)
    BY DEF InTrace, At
  <1> QED
    BY <1>1, <1>2, <1>3 DEF Items, Instruction, ItemOK

LEMMA TracedFacts ==
  ASSUME NEW ip \in Nat
  PROVE  Traced(ip) \in Nat \cup {NULL} /\ (Traced(ip) # NULL <=> InTrace(ip)) /\ (InTrace(ip) => Traced(ip) = ip)
  BY JITAssumption DEF Traced

LEMMA LeadsFacts ==
  ASSUME NEW item \in Items
  PROVE  /\ Leads(item) \in Seq(Nat \cup {NULL})
         /\ item.i.op = "if" => /\ Leads(item)[1] = Traced(item.i.dest) /\ Leads(item)[2] = Traced(item.ip + 1)
                                /\ Range(Branches(item)) = {item.i.dest, item.ip + 1}
         /\ item.i.op = "goto" => /\ Leads(item)[1] = Traced(item.i.dest)
                                  /\ Range(Branches(item)) = {item.i.dest}
         /\ item.i.op \notin {"if", "goto"} => Range(Branches(item)) = {}
  <1>1. item.ip \in Nat /\ item.i.dest \in Nat
    BY DEF Items, Instruction
  <1>2. CASE item.i.op = "if"
    <2>1. Branches(item) = <<item.i.dest, item.ip + 1>>
      BY <1>2 DEF Branches
    <2>2. Leads(item) = <<Traced(item.i.dest), Traced(item.ip + 1)>>
      BY <2>1 DEF Leads
    <2>3. Traced(item.i.dest) \in Nat \cup {NULL} /\ Traced(item.ip + 1) \in Nat \cup {NULL}
      BY <1>1 DEF Traced
    <2> QED
      BY <1>2, <2>1, <2>2, <2>3 DEF Range
  <1>3. CASE item.i.op = "goto"
    <2>1. Branches(item) = <<item.i.dest>>
      BY <1>3 DEF Branches
    <2>2. Leads(item) = <<Traced(item.i.dest)>>
      BY <2>1 DEF Leads
    <2>3. Traced(item.i.dest) \in Nat \cup {NULL}
      BY <1>1 DEF Traced
    <2> QED
      BY <1>3, <2>1, <2>2, <2>3 DEF Range
  <1>4. CASE item.i.op \notin {"if", "goto"}
    <2>1. Branches(item) = << >>
      BY <1>4 DEF Branches
    <2>2. Leads(item) = << >>
      BY <2>1 DEF Leads
    <2> QED
      BY <1>4, <2>1, <2>2 DEF Range
  <1> QED
    BY <1>2, <1>3, <1>4

LEMMA LowestFacts ==
  ASSUME Traces, phase \notin Early, NEW ip, InTrace(ip)
  PROVE  ip \in Nat /\ 1 \in DOMAIN trace /\ trace[1].ip <= ip
  <1>1. PICK n \in DOMAIN trace : trace[n].ip = ip
    BY DEF InTrace, At
  <1>2. n \in 1 .. Len(trace) /\ Len(trace) \in Nat /\ ip \in Nat /\ trace \in Seq(Items)
    BY <1>1, ItemFacts DEF Traces
  <1>3. 1 \in DOMAIN trace
    BY <1>2
  <1>4. trace[1].ip \in Nat
    BY <1>3, ItemFacts
  <1>5. n = 1 \/ trace[1].ip < trace[n].ip
    BY <1>2, <1>3 DEF Traces
  <1> QED
    BY <1>1, <1>2, <1>3, <1>4, <1>5

LEMMA WithBlockFacts ==
  ASSUME Traces, phase \notin Early, NEW list, IsList(list), list[1] = trace[1].ip, NEW ip \in Nat
  PROVE  /\ IsList(WithBlock(list, ip)) /\ WithBlock(list, ip)[1] = list[1]
         /\ Range(WithBlock(list, ip)) = Range(list) \cup {x \in {ip} : InTrace(x)}
  <1>1. CASE InTrace(ip)
    <2>1. list[1] <= ip
      BY <1>1, LowestFacts
    <2> QED
      BY <1>1, <2>1, FindOrInsertFacts DEF WithBlock
  <1>2. CASE ~InTrace(ip)
    BY <1>2 DEF WithBlock
  <1> QED
    BY <1>1, <1>2

LEMMA WithBlocksFacts ==
  ASSUME Traces, phase \notin Early, NEW list, IsList(list), list[1] = trace[1].ip, NEW item \in Items
  PROVE  /\ IsList(WithBlocks(list, item)) /\ WithBlocks(list, item)[1] = trace[1].ip
         /\ Range(WithBlocks(list, item)) = Range(list) \cup Marks(item)
  <1>1. item.ip + 1 \in Nat /\ item.i.dest \in Nat
    BY DEF Items, Instruction
  <1> DEFINE one == WithBlock(list, item.i.dest)
             two == WithBlock(one, item.ip + 1)
  <1>2. IsList(one) /\ one[1] = trace[1].ip /\ Range(one) = Range(list) \cup {x \in {item.i.dest} : InTrace(x)}
    BY <1>1, WithBlockFacts
  <1> HIDE DEF one
  <1>3. IsList(two) /\ two[1] = trace[1].ip /\ Range(two) = Range(one) \cup {x \in {item.ip + 1} : InTrace(x)}
    BY <1>1, <1>2, WithBlockFacts
  <1> HIDE DEF two
  <1>4. CASE item.i.op = "if"
    <2>1. WithBlocks(list, item) = two
      BY <1>4 DEF WithBlocks, two, one
    <2>2. Marks(item) = {x \in {item.i.dest} : InTrace(x)} \cup {x \in {item.ip + 1} : InTrace(x)}
      BY <1>4, LeadsFacts DEF Marks
    <2> QED
      BY <1>2, <1>3, <2>1, <2>2
  <1>5. CASE item.i.op = "goto"
    <2>1. WithBlocks(list, item) = one
      BY <1>5 DEF WithBlocks, one
    <2>2. Marks(item) = {x \in {item.i.dest} : InTrace(x)}
      BY <1>5, LeadsFacts DEF Marks
    <2> QED
      BY <1>2, <2>1, <2>2
  <1>6. CASE item.i.op \notin {"if", "goto"}
    <2>1. WithBlocks(list, item) = list /\ Marks(item) = {}
      BY <1>6, LeadsFacts DEF WithBlocks, Marks
    <2> QED
      BY <2>1
  <1> QED
    BY <1>4, <1>5, <1>6

LEMMA IdentifyBlocksStep ==
  ASSUME Traces, Blocked, IdentifyBlocks
  PROVE  Blocked'
  <1> DEFINE item == trace[Len(data) + 1]
             list == IF data = << >> THEN <<item.ip>> ELSE blocks
             leads == Leads(item)
  <1>1. phase = "blocks" /\ phase \notin Early /\ trace \in Seq(Items) /\ trace # << >>
    BY DEF IdentifyBlocks, Early, Traces
  <1>2. /\ data \in Seq(Seq(Nat \cup {NULL})) /\ Len(data) < Len(trace) /\ DOMAIN data \subseteq DOMAIN trace
        /\ \A n \in DOMAIN data : /\ data[n] = Leads(trace[n])
                                  /\ trace[n].i.op = "goto" => InTrace(trace[n].i.dest)
        /\ data = << >> => blocks = << >>
        /\ data # << >> =>
             /\ IsList(blocks) /\ blocks[1] = trace[1].ip
             /\ \A ip : ip \in Range(blocks) <=> ip = trace[1].ip \/ \E n \in DOMAIN data : ip \in Marks(trace[n])
    BY <1>1 DEF Blocked
  <1>3. Len(data) + 1 \in DOMAIN trace /\ DOMAIN data = 1 .. Len(data) /\ Len(data) \in Nat
    BY <1>1, <1>2
  <1>4. item \in Items /\ item.ip \in Nat
    BY <1>3, ItemFacts
  <1>5. CASE Abort
    <2>1. phase' = "aborted" /\ UNCHANGED <<trace, data, blocks, body, entry>>
      BY <1>5 DEF Abort, compiled
    <2>2. \A x : Leads(x)' = Leads(x) /\ Marks(x)' = Marks(x) /\ InTrace(x)' = InTrace(x)
      BY <2>1 DEF Leads, Marks, Traced, InTrace
    <2> QED
      BY <1>2, <2>1, <2>2 DEF Blocked, Early, Full
  <1>6. CASE ~Abort
    <2>1. /\ ~(item.i.op = "goto" /\ ~InTrace(item.i.dest))
          /\ blocks' = WithBlocks(list, item) /\ data' = Append(data, leads)
          /\ phase' = IF Len(data') = Len(trace) THEN "registers" ELSE "blocks"
          /\ UNCHANGED <<trace, body, entry>>
      BY <1>6 DEF IdentifyBlocks, Leads
    <2>2. IsList(list) /\ list[1] = trace[1].ip
          /\ \A ip : ip \in Range(list) <=> ip = trace[1].ip \/ \E n \in DOMAIN data : ip \in Marks(trace[n])
      <3>1. CASE data = << >>
        <4>1. item = trace[1] /\ DOMAIN data = {}
          BY <3>1
        <4>2. list = <<item.ip>>
          BY <3>1
        <4>3. IsList(<<item.ip>>) /\ Range(<<item.ip>>) = {item.ip}
          <5> HIDE DEF item
          <5> QED
            BY <1>4 DEF IsList, Ascending, Range
        <4> QED
          BY <4>1, <4>2, <4>3
      <3>2. CASE data # << >>
        BY <1>2, <3>2
      <3> QED
        BY <3>1, <3>2
    <2> HIDE DEF list
    <2>3. leads \in Seq(Nat \cup {NULL})
      BY <1>4, LeadsFacts
    <2> HIDE DEF leads
    <2>4. /\ data' \in Seq(Seq(Nat \cup {NULL})) /\ Len(data') = Len(data) + 1
          /\ DOMAIN data' = DOMAIN data \cup {Len(data) + 1} /\ data'[Len(data) + 1] = leads
          /\ \A n \in DOMAIN data : data'[n] = data[n]
      BY <1>2, <2>1, <2>3, AppendFacts
    <2>5. data' # << >> /\ Len(data') \in Nat
      BY <1>3, <2>4
    <2>6. IsList(blocks') /\ blocks'[1] = trace[1].ip /\ Range(blocks') = Range(list) \cup Marks(item)
      BY <1>1, <1>4, <2>1, <2>2, WithBlocksFacts
    <2>8. \A ip : ip \in Range(blocks') <=> ip = trace[1].ip \/ \E n \in DOMAIN data' : ip \in Marks(trace[n])
      BY <2>2, <2>4, <2>6
    <2>9. \A n \in DOMAIN data' : /\ data'[n] = Leads(trace[n])
                                  /\ trace[n].i.op = "goto" => InTrace(trace[n].i.dest)
      BY <1>2, <2>1, <2>4 DEF leads
    <2>10. /\ \A x : Leads(x)' = Leads(x) /\ Marks(x)' = Marks(x)
           /\ \A ip : InTrace(ip)' = InTrace(ip)
      BY <2>1 DEF Leads, Marks, Traced, InTrace
    <2> HIDE DEF item
    <2>11. /\ phase' \in {"registers", "blocks"}
           /\ phase' = "registers" => Len(data') = Len(trace)
           /\ phase' = "blocks" => Len(data') < Len(trace)
      <3>1. Len(data) \in Nat /\ Len(trace) \in Nat /\ Len(data) < Len(trace)
        BY <1>1, <1>2, <1>3
      <3> QED
        BY <2>1, <2>4, <3>1
    <2>12. DOMAIN data' \subseteq DOMAIN trace
      BY <1>2, <1>3, <2>4
    <2>13. \A n \in DOMAIN data' : /\ data'[n] = Leads(trace[n])'
                                   /\ trace'[n].i.op = "goto" => InTrace(trace[n].i.dest)'
      BY <2>1, <2>9, <2>10
    <2>14. \A ip : ip \in Range(blocks') <=> ip = trace'[1].ip \/ \E n \in DOMAIN data' : ip \in Marks(trace[n])'
      BY <2>1, <2>8, <2>10
    <2>15. trace' = trace
      BY <2>1
    <2> QED
      BY <2>4, <2>5, <2>6, <2>11, <2>12, <2>13, <2>14, <2>15 DEF Blocked, Early, Full
  <1> QED
    BY <1>5, <1>6

\* Every other step leaves the blocks alone.
Framed ==
  /\ UNCHANGED <<blocks, data>>
  /\ \/ phase \in Early /\ phase' \in Early \cup {"blocks"}
     \/ UNCHANGED trace /\ phase \notin Early /\ phase' = "aborted"
     \/ UNCHANGED trace /\ phase \in Full /\ phase' \in Full

LEMMA FramedSteps ==
  ASSUME [Next]_vars, ~IdentifyBlocks, vars' # vars
  PROVE  Framed
  <1>1. Record \/ Abandon \/ Sort => Framed
    BY DEF Record, Abandon, Sort, Framed, compiled, Early
  <1>2. IdentifyRegisters \/ IdentifyLocals => Framed
    BY DEF IdentifyRegisters, IdentifyLocals, Abort, Framed, compiled, Early, Full
  <1>3. EmitMove \/ EmitCompare \/ EmitArraySet \/ EmitConstant \/ EmitAdd \/ EmitSetLocal => Framed
    BY DEF EmitMove, EmitCompare, EmitArraySet, EmitConstant, EmitAdd, EmitSetLocal, EmitPlain, Emits,
           Advance, Abort, Framed, compiled, Early, Full
  <1>4. EmitGoto \/ EmitIf \/ EmitReturn \/ EmitUnknown \/ Verify => Framed
    BY DEF EmitGoto, EmitIf, EmitReturn, EmitUnknown, Verify, Emits,
           Advance, Abort, Framed, compiled, Early, Full
  <1>5. Run \/ RunPlain \/ RunArraySet \/ RunSetLocal \/ RunBranch \/ RunReturn \/ RunFaults => Framed
    BY DEF Run, RunPlain, RunArraySet, RunSetLocal, RunBranch, RunReturn, RunFaults, Executes,
           Framed, compiled, Early, Full
  <1> QED
    BY <1>1, <1>2, <1>3, <1>4, <1>5 DEF Next

LEMMA FramedBlocked ==
  ASSUME Traces, Traces', Blocked, Framed
  PROVE  Blocked'
  <1>1. CASE phase \in Early
    <2>1. data = << >> /\ data' = << >> /\ blocks' = << >> /\ phase' \in Early \cup {"blocks"}
      BY <1>1 DEF Framed, Blocked, Early, Full
    <2>2. phase' = "blocks" => Len(trace') > 0
      <3>1. trace' \in Seq(Items) /\ (phase' = "blocks" => trace' # << >>)
        BY DEF Traces, Early
      <3> QED
        BY <3>1
    <2>3. data' \in Seq(Seq(Nat \cup {NULL})) /\ Len(data') = 0 /\ DOMAIN data' = {}
      BY <2>1
    <2> QED
      BY <2>1, <2>2, <2>3 DEF Blocked, Early, Full
  <1>2. CASE phase \notin Early
    <2>1. UNCHANGED <<trace, blocks, data>>
      BY <1>2 DEF Framed
    <2>2. phase' = "aborted" \/ (phase \in Full /\ phase' \in Full)
      BY <1>2 DEF Framed
    <2>3. \A x : Leads(x)' = Leads(x) /\ Marks(x)' = Marks(x) /\ InTrace(x)' = InTrace(x)
      BY <2>1 DEF Leads, Marks, Traced, InTrace
    <2> QED
      BY <1>2, <2>1, <2>2, <2>3 DEF Blocked, Early, Full
  <1> QED
    BY <1>1, <1>2

\* hvm_jit_compile_pass_identify_blocks: the blocks are those the items looked at
\* branch to and the first, each once and in order.
THEOREM BlockedInvariant == Spec => []Blocked
  <1>1. Init => Blocked
    BY DEF Init, Blocked, Early, Full
  <1>2. ASSUME Traces, Traces', Blocked, [Next]_vars PROVE Blocked'
    <2>1. CASE IdentifyBlocks
      BY <1>2, <2>1, IdentifyBlocksStep
    <2>2. CASE Framed
      BY <1>2, <2>2, FramedBlocked
    <2>3. CASE vars' = vars
      <3>1. UNCHANGED <<trace, data, blocks, phase>>
        BY <2>3 DEF vars, compiled
      <3>2. \A x : Leads(x)' = Leads(x) /\ Marks(x)' = Marks(x) /\ InTrace(x)' = InTrace(x)
        BY <3>1 DEF Leads, Marks, Traced, InTrace
      <3> QED
        BY <1>2, <3>1, <3>2 DEF Blocked
    <2> QED
      BY <1>2, <2>1, <2>2, <2>3, FramedSteps
  <1> QED
    BY <1>1, <1>2, TracesInvariant, PTL DEF Spec

\* The list of blocks is ascending and holds the lowest address and the destinations in
\* the trace, what hvm_jit_get_current_block relies on.
THEOREM ListOfBlocks == Spec => []BlocksExact
  <1>1. ASSUME Traces, Blocked PROVE BlocksExact
    <2> SUFFICES ASSUME blocks # << >> PROVE BlocksExact
      BY DEF BlocksExact
    <2>1. /\ data # << >> /\ IsList(blocks) /\ phase \notin Early
          /\ \A ip : ip \in Range(blocks) <=> ip = trace[1].ip \/ \E n \in DOMAIN data : ip \in Marks(trace[n])
      BY <1>1 DEF Blocked
    <2>2. \A m, n \in DOMAIN blocks : m < n => blocks[m] < blocks[n]
      BY <2>1 DEF IsList, Ascending
    <2> DEFINE ips == {trace[n].ip : n \in DOMAIN trace}
    <2>3. trace # << >> /\ trace \in Seq(Items)
      BY <1>1, <2>1 DEF Traces, Early
    <2>4. 1 \in DOMAIN trace
      BY <2>3
    <2>5. ips \in SUBSET Nat /\ ips # {} /\ trace[1].ip \in ips
      BY <1>1, <2>4, ItemFacts
    <2>6. Min(ips) \in ips /\ Min(ips) <= trace[1].ip
      BY <2>5, MinFacts
    <2>7. InTrace(Min(ips))
      BY <2>6 DEF InTrace, At
    <2>8. trace[1].ip <= Min(ips)
      BY <1>1, <2>1, <2>7, LowestFacts
    <2>9. Min(ips) = trace[1].ip
      <3> HIDE DEF ips
      <3>1. Min(ips) \in Nat /\ trace[1].ip \in Nat
        BY <2>5, <2>6
      <3> QED
        BY <2>6, <2>8, <3>1
    <2>10. Range(blocks) = {trace[1].ip} \cup
                              {ip \in UNION {Range(Branches(trace[n])) : n \in DOMAIN data} : InTrace(ip)}
      BY <2>1 DEF Marks
    <2> QED
      BY <2>1, <2>2, <2>9, <2>10 DEF BlocksExact
  <1> QED
    BY <1>1, TracesInvariant, BlockedInvariant, PTL

--------------------------------------------------------------------------------
(* The code *)

\* What is known of the value an item stores, and the instruction it is compiled to.
Constant(i) == i.op \in {"set", "litinteger"}
ObjectOf(i) == IF i.op = "set" THEN ConstPool[i.dest] ELSE IntOf(i.dest)
ValueOf(i) ==
  IF Constant(i) THEN ConstValue(ObjectOf(i))
  ELSE IF i.op \in {"add", "eq", "gt", "and", "arraylen"} THEN IntValue ELSE Unknown
NativeOp(i) == IF i.op = "if" THEN "condbr" ELSE IF i.op = "return" THEN "ret" ELSE i.op
LoadBy(i, r) == IF i.op = "move" /\ r \in ParamRegs THEN Param(r) ELSE Slot(r)
LoadedBy(i) == [n \in DOMAIN Loads(i) |-> LoadBy(i, Loads(i)[n])]
Targets(item) ==
  CASE item.i.op = "if" -> <<<<"block", item.i.dest>>, <<"block", item.ip + 1>>>>
    [] item.i.op = "goto" -> <<<<"block", item.i.dest>>>>
    [] OTHER -> << >>

\* An operand of a direct addition: a constant is the object of the only item further
\* up that writes its register.
Operand(m, r, src) ==
  \/ src = Slot(r)
  \/ /\ src = Const(r, src.obj) /\ r \in constant_regs
     /\ \A n \in Writers(r) : n < m => Constant(trace[n].i) /\ src.obj = ObjectOf(trace[n].i)
Sources(inst, m) ==
  \/ Constant(trace[m].i) /\ inst.op = "const" /\ inst.src = <<Const(trace[m].i.a, ObjectOf(trace[m].i))>>
  \/ /\ trace[m].i.op = "add" /\ inst.op = "add_direct" /\ inst.src = <<inst.src[1], inst.src[2]>>
     /\ Operand(m, trace[m].i.b, inst.src[1]) /\ Operand(m, trace[m].i.c, inst.src[2])
  \/ ~Constant(trace[m].i) /\ inst.op = NativeOp(trace[m].i) /\ inst.src = LoadedBy(trace[m].i)
MadeFrom(inst, m) ==
  /\ trace[m].i.op \in Compilable /\ \A d \in Range(Branches(trace[m])) : InTrace(d)
  /\ inst.ip = trace[m].ip /\ inst.ret = Writes(trace[m].i) /\ inst.sym = trace[m].sym
  /\ inst.to = Targets(trace[m])
  /\ Sources(inst, m) /\ Usable(inst)

Home(m) == Block(trace[m].ip)
Crossing(m) == m \in DOMAIN trace /\ m + 1 \in DOMAIN trace /\ Home(m + 1) # Home(m)
Jump(m) == Br(trace[m + 1].ip, Home(m + 1))
Ending(b) == code[b][Len(code[b])]
Open(b) == code[b] # << >> /\ Ending(b).op \notin Terminators

\* A block goes on after an instruction that ends it.
Spoilt == \E b \in DOMAIN code : \E n \in DOMAIN code[b] : n # Len(code[b]) /\ code[b][n].op \in Terminators
Comes(b, n) ==
  \E m \in DOMAIN trace : /\ m < k /\ Home(m) = b
                          /\ MadeFrom(code[b][n], m) \/ (n # 1 /\ n = Len(code[b]) /\ Crossing(m) /\ code[b][n] = Jump(m))
Follows(b, n) ==
  \E m \in DOMAIN trace : /\ m < k /\ Plain(trace[m].i) /\ m + 1 \in DOMAIN trace
                          /\ code[b][n].ip = trace[m].ip /\ code[b][n + 1].ip = trace[m + 1].ip
Laid ==
  /\ DOMAIN code = {"block"} \X Range(blocks)
  /\ \A b \in DOMAIN code : \A n \in DOMAIN code[b] : Comes(b, n)
  /\ \A b \in DOMAIN code : code[b] # << >> => code[b][1].ip = b[2]
  /\ \A b \in DOMAIN code : \A n \in DOMAIN code[b] : n # Len(code[b]) => Follows(b, n)
  /\ \A m \in DOMAIN trace : m < k => code[Home(m)] # << >>
  /\ \A b \in DOMAIN code : Open(b) => /\ k # 1 /\ Ending(b).ip = trace[k - 1].ip
                                       /\ k \in DOMAIN trace => Home(k) = b
  /\ (k # 1 /\ k \in DOMAIN trace /\ Plain(trace[k - 1].i) /\ Home(k - 1) = Home(k)) => Open(Home(k))

\* context->values holds what the last item to write a register stores.
Valued ==
  \A r \in Reg : \A n \in Writers(r) :
    (n < k /\ \A m \in Writers(r) : m < k => m <= n) => values[r] = ValueOf(trace[n].i)

Emitting == {"emit", "compiled", "running", "crashed"}

LEMMA SeqGrows ==
  ASSUME NEW S, NEW T, NEW s \in Seq(S)
  PROVE  s \in Seq(S \cup T)
  <1>1. \A n \in 1 .. Len(s) : s[n] \in S \cup T
    OBVIOUS
  <1> QED
    BY <1>1

LEMMA ExtendOnce ==
  ASSUME NEW S, NEW s \in Seq(S), NEW x, NEW new, new = s \o (<<x>> \o << >>)
  PROVE  /\ new \in Seq(S \cup {x}) /\ Len(new) = Len(s) + 1 /\ new[Len(s) + 1] = x
         /\ \A n \in DOMAIN s : new[n] = s[n]
         /\ \A n \in DOMAIN new : n \in DOMAIN s \/ n = Len(s) + 1
         /\ Len(s) + 1 \in DOMAIN new /\ \A n \in DOMAIN s : n \in DOMAIN new
  <1>1. s \in Seq(S \cup {x})
    BY SeqGrows
  <1>2. <<x>> \o << >> = <<x>> /\ <<x>> \in Seq(S \cup {x}) /\ Len(<<x>>) = 1 /\ <<x>>[1] = x
    OBVIOUS
  <1> QED
    BY <1>1, <1>2

LEMMA ExtendTwice ==
  ASSUME NEW S, NEW s \in Seq(S), NEW x, NEW y, NEW new, new = s \o (<<x>> \o <<y>>)
  PROVE  /\ new \in Seq(S \cup {x, y}) /\ Len(new) = Len(s) + 2
         /\ new[Len(s) + 1] = x /\ new[Len(s) + 2] = y
         /\ \A n \in DOMAIN s : new[n] = s[n]
         /\ \A n \in DOMAIN new : n \in DOMAIN s \/ n = Len(s) + 1 \/ n = Len(s) + 2
         /\ Len(s) + 1 \in DOMAIN new /\ Len(s) + 2 \in DOMAIN new /\ \A n \in DOMAIN s : n \in DOMAIN new
  <1>1. s \in Seq(S \cup {x, y})
    BY SeqGrows
  <1> DEFINE pair == <<x>> \o <<y>>
  <1>2. <<x>> \in Seq(S \cup {x, y}) /\ <<y>> \in Seq(S \cup {x, y})
    OBVIOUS
  <1>3. /\ pair \in Seq(S \cup {x, y}) /\ Len(pair) = 2 /\ pair[1] = x /\ pair[2] = y
    BY <1>2
  <1> HIDE DEF pair
  <1>4. new = s \o pair
    BY DEF pair
  <1> QED
    BY <1>1, <1>3, <1>4

\* The items of a block are those from its address on to the next block's.
LEMMA HomeFacts ==
  ASSUME Traces, Blocked, phase \in Full, NEW n \in DOMAIN trace
  PROVE  /\ Home(n) = <<"block", CurrentBlock(trace[n].ip)>> /\ Home(n)[2] = CurrentBlock(trace[n].ip)
         /\ Home(n)[2] \in Range(blocks) /\ Home(n)[2] \in Nat /\ Home(n)[2] <= trace[n].ip
         /\ Home(n) \in {"block"} \X Range(blocks)
         /\ \A x \in Range(blocks) : x <= trace[n].ip => x <= Home(n)[2]
  <1>1. trace[n].ip \in Nat /\ InTrace(trace[n].ip) /\ Len(trace) \in Nat /\ n \in 1 .. Len(trace)
    BY ItemFacts
  <1>2. phase \notin Early /\ data # << >>
    <2>1. Len(data) = Len(trace) /\ phase \notin Early
      BY DEF Blocked, Full, Early
    <2> QED
      BY <1>1, <2>1
  <1>3. IsList(blocks) /\ blocks[1] = trace[1].ip
    BY <1>2 DEF Blocked
  <1>4. blocks[1] <= trace[n].ip
    BY <1>1, <1>2, <1>3, LowestFacts
  <1>5. /\ CurrentBlock(trace[n].ip) \in Range(blocks) /\ CurrentBlock(trace[n].ip) \in Nat
        /\ CurrentBlock(trace[n].ip) <= trace[n].ip
        /\ \A x \in Range(blocks) : x <= trace[n].ip => x <= CurrentBlock(trace[n].ip)
    BY <1>1, <1>3, <1>4, CurrentBlockFacts
  <1> QED
    BY <1>5 DEF Home, Block

LEMMA BlockFacts ==
  ASSUME Traces, Blocked, phase \in Full
  PROVE  /\ blocks # << >> /\ blocks[1] = trace[1].ip /\ blocks[1] \in Range(blocks) /\ 1 \in DOMAIN trace
         /\ \A x \in Range(blocks) :
              x \in Nat /\ \E n \in DOMAIN trace : trace[n].ip = x /\ Home(n) = <<"block", x>>
         /\ \A n \in DOMAIN trace : \A ip \in Range(Branches(trace[n])) :
              InTrace(ip) => ip \in Range(blocks)
         /\ \A n \in DOMAIN trace : trace[n].i.op = "goto" => InTrace(trace[n].i.dest)
  <1>1. /\ trace \in Seq(Items) /\ trace # << >> /\ phase \notin Early /\ Len(data) = Len(trace)
        /\ data \in Seq(Seq(Nat \cup {NULL}))
    BY DEF Traces, Blocked, Full, Early
  <1>2. 1 \in DOMAIN trace /\ data # << >> /\ DOMAIN data = DOMAIN trace
    BY <1>1
  <1>3. /\ IsList(blocks) /\ blocks[1] = trace[1].ip
        /\ \A ip : ip \in Range(blocks) <=> ip = trace[1].ip \/ \E n \in DOMAIN data : ip \in Marks(trace[n])
        /\ \A n \in DOMAIN trace : trace[n].i.op = "goto" => InTrace(trace[n].i.dest)
    BY <1>1, <1>2 DEF Blocked
  <1>4. blocks # << >> /\ blocks[1] \in Range(blocks)
    BY <1>3 DEF IsList
  <1>5. ASSUME NEW x \in Range(blocks)
        PROVE  x \in Nat /\ \E n \in DOMAIN trace : trace[n].ip = x /\ Home(n) = <<"block", x>>
    <2>1. InTrace(x)
      <3>1. CASE x = trace[1].ip
        BY <1>2, <3>1, ItemFacts
      <3>2. CASE x # trace[1].ip
        BY <1>3, <3>2 DEF Marks
      <3> QED
        BY <3>1, <3>2
    <2>2. PICK n \in DOMAIN trace : trace[n].ip = x
      BY <2>1 DEF InTrace, At
    <2>3. x \in Nat
      BY <2>2, ItemFacts
    <2>4. Home(n)[2] = x
      <3>1. Home(n)[2] \in Nat /\ Home(n)[2] <= x /\ x <= Home(n)[2]
        BY <2>2, <2>3, HomeFacts
      <3> QED
        BY <2>3, <3>1
    <2>5. Home(n) = <<"block", x>>
      BY <2>4, HomeFacts
    <2> QED
      BY <2>2, <2>3, <2>5
  <1>6. \A n \in DOMAIN trace : \A ip \in Range(Branches(trace[n])) : InTrace(ip) => ip \in Range(blocks)
    BY <1>2, <1>3 DEF Marks
  <1> QED
    BY <1>2, <1>3, <1>4, <1>5, <1>6

\* Where the next item is in another block it begins it.
LEMMA CrossingFacts ==
  ASSUME Traces, Blocked, phase \in Full, NEW m \in DOMAIN trace, Crossing(m)
  PROVE  Home(m + 1) = <<"block", trace[m + 1].ip>> /\ Home(m + 1)[2] > trace[1].ip
  <1>1. m + 1 \in DOMAIN trace /\ Home(m + 1) # Home(m) /\ m \in Nat
    BY ItemFacts DEF Crossing
  <1>2. trace[m].ip < trace[m + 1].ip /\ trace[m].ip \in Nat /\ trace[m + 1].ip \in Nat
    <2>1. m < m + 1 /\ phase \notin Early
      BY <1>1 DEF Full, Early
    <2> QED
      BY <1>1, <2>1, ItemFacts DEF Traces
  <1> DEFINE x == Home(m)[2]
             y == Home(m + 1)[2]
  <1>3. /\ x \in Range(blocks) /\ x \in Nat /\ x <= trace[m].ip /\ Home(m) = <<"block", x>>
        /\ \A z \in Range(blocks) : z <= trace[m].ip => z <= x
    BY HomeFacts
  <1>4. /\ y \in Range(blocks) /\ y \in Nat /\ y <= trace[m + 1].ip /\ Home(m + 1) = <<"block", y>>
        /\ \A z \in Range(blocks) : z <= trace[m + 1].ip => z <= y
    BY <1>1, HomeFacts
  <1>5. x <= y /\ x # y
    BY <1>1, <1>2, <1>3, <1>4
  <1>6. ~(y <= trace[m].ip)
    BY <1>3, <1>4, <1>5
  <1>7. PICK j \in DOMAIN trace : trace[j].ip = y
    BY <1>4, BlockFacts
  <1>8. j = m + 1
    <2>1. j \in Nat /\ phase \notin Early
      BY <1>7, ItemFacts DEF Full, Early
    <2>2. /\ \A i, n \in DOMAIN trace : i < n => trace[i].ip < trace[n].ip
      BY <2>1 DEF Traces
    <2>3. ~(j <= m)
      <3>1. j < m => trace[j].ip < trace[m].ip
        BY <1>7, <2>2
      <3> QED
        BY <1>1, <1>2, <1>4, <1>6, <1>7, <2>1, <3>1
    <2>4. ~(m + 1 < j)
      <3>1. m + 1 < j => trace[m + 1].ip < trace[j].ip
        BY <1>1, <1>7, <2>2
      <3> QED
        BY <1>2, <1>4, <1>7, <3>1
    <2> QED
      BY <1>1, <2>1, <2>3, <2>4
  <1>9. trace[1].ip <= trace[m].ip /\ trace[1].ip \in Nat
    <2>1. phase \notin Early /\ 1 \in DOMAIN trace
      BY BlockFacts DEF Full, Early
    <2>2. InTrace(trace[m].ip) /\ trace[1].ip \in Nat
      BY <2>1, ItemFacts
    <2> QED
      BY <2>1, <2>2, LowestFacts
  <1> QED
    BY <1>2, <1>4, <1>7, <1>8, <1>9

\* What the shape of the code is described by stays as it is while code is emitted.
LEMMA StillFacts ==
  ASSUME UNCHANGED <<trace, blocks, constant_regs>>
  PROVE  /\ \A m : Home(m)' = Home(m) /\ Jump(m)' = Jump(m) /\ Crossing(m)' = Crossing(m)
         /\ \A r : Writers(r)' = Writers(r)
         /\ \A inst, m : MadeFrom(inst, m)' <=> MadeFrom(inst, m)
  <1>1. \A m : Home(m)' = Home(m)
    BY DEF Home, Block, CurrentBlock
  <1>2. \A m : Jump(m)' = Jump(m) /\ Crossing(m)' = Crossing(m)
    BY <1>1 DEF Jump, Crossing, Br
  <1>3. \A r : Writers(r)' = Writers(r)
    BY DEF Writers
  <1>4. \A m, r, src : Operand(m, r, src)' <=> Operand(m, r, src)
    BY <1>3 DEF Operand
  <1>5. \A inst, m : Sources(inst, m)' <=> Sources(inst, m)
    BY <1>4 DEF Sources
  <1>6. \A inst, m : MadeFrom(inst, m)' <=> MadeFrom(inst, m)
    BY <1>5 DEF MadeFrom, InTrace, At
  <1> QED
    BY <1>1, <1>2, <1>3, <1>6

\* Code emission, in every phase that has code.
Typed == \E S : \A b \in DOMAIN code : code[b] \in Seq(S)
Prepared ==
  /\ k \in Nat \ {0} /\ k <= Len(trace) + 1
  /\ phase \notin Emitting \cup {"aborted"} => k = 1
  /\ phase \in {"compiled", "running", "crashed"} => k = Len(trace) + 1 /\ WellFormed
  /\ DOMAIN values = Reg /\ constant_regs \subseteq Reg
  /\ phase \in Emitting \cup {"locals"} => constant_regs = {r \in Reg : Cardinality(Writers(r)) < 2}
  /\ phase \in Emitting => Valued /\ Typed /\ (Spoilt \/ Laid)

\* What a step that emits an item does.
Rest == IF Plain(Cur.i) /\ Crossing(k) THEN <<Jump(k)>> ELSE << >>
Grows == \E inst : MadeFrom(inst, k) /\ code' = [code EXCEPT ![Home(k)] = @ \o (<<inst>> \o Rest)]
Stores == values' = IF Cur.i.op \in Returning THEN [values EXCEPT ![Writes(Cur.i)] = ValueOf(Cur.i)] ELSE values

LEMMA OneWriter ==
  ASSUME Traces, NEW r, Cardinality(Writers(r)) < 2, NEW m \in Writers(r), NEW n \in Writers(r)
  PROVE  m = n
  <1> SUFFICES ASSUME m # n PROVE FALSE
    OBVIOUS
  <1>1. IsFiniteSet(DOMAIN trace)
    <2>1. trace \in Seq(Items)
      BY DEF Traces
    <2>2. DOMAIN trace = 1 .. Len(trace) /\ Len(trace) \in Nat
      BY <2>1
    <2>3. 1 \in Int /\ Len(trace) \in Int
      BY <2>2
    <2> QED
      BY <2>2, <2>3, FS_Interval
  <1>2. IsFiniteSet(Writers(r))
    <2>1. Writers(r) \in SUBSET DOMAIN trace
      BY DEF Writers
    <2> QED
      BY <1>1, <2>1, FS_Subset
  <1>3. {m, n} \in SUBSET Writers(r)
    OBVIOUS
  <1>4. IsFiniteSet({n}) /\ Cardinality({n}) = 1
    BY FS_Singleton
  <1>5. Cardinality({n} \cup {m}) = Cardinality({n}) + 1
    BY <1>4, FS_AddElement
  <1>6. {n} \cup {m} = {m, n}
    OBVIOUS
  <1>7. Cardinality({m, n}) <= Cardinality(Writers(r)) /\ Cardinality(Writers(r)) \in Nat
    BY <1>2, <1>3, FS_Subset, FS_CardinalityType
  <1>8. Cardinality({m, n}) = 2
    BY <1>4, <1>5, <1>6
  <1> QED
    BY <1>7, <1>8

LEMMA ValueFacts ==
  ASSUME NEW i \in Instruction
  PROVE  /\ ValueOf(i) \in Known /\ ValueOf(i) # NULL
         /\ ValueOf(i).constant # NULL => Constant(i) /\ ValueOf(i).constant = ObjectOf(i)
         /\ Constant(i) => /\ ObjectOf(i) \in Object /\ ObjectOf(i) # NULL
                           /\ ValueOf(i).type = ObjectOf(i).type /\ ValueOf(i).constant = ObjectOf(i)
  <1>1. NULL \notin Object /\ NULL \notin Known
    BY JITAssumption
  <1>2. ASSUME Constant(i) PROVE ObjectOf(i) \in Object
    <2>1. CASE i.op = "set"
      <3>1. i.dest \in DOMAIN ConstPool
        BY <2>1 DEF Instruction
      <3>2. ConstPool[i.dest] \in Range(ConstPool)
        BY <3>1 DEF Range
      <3> QED
        BY <2>1, <3>2, JITAssumption DEF ObjectOf
    <2>2. CASE i.op # "set"
      BY <2>2 DEF ObjectOf, IntOf, Object, Instruction
    <2> QED
      BY <2>1, <2>2
  <1>3. \A obj \in Object : obj.type \in {"int", "null", "symbol", "array"}
    BY DEF Object
  <1>4. \A obj \in Object : /\ ConstValue(obj) \in Known /\ ConstValue(obj).type = obj.type
                            /\ ConstValue(obj).constant = obj
    BY <1>3 DEF ConstValue, Known
  <1>5. Unknown \in Known /\ IntValue \in Known /\ Unknown.constant = NULL /\ IntValue.constant = NULL
    BY DEF Unknown, IntValue, Known
  <1>6. CASE Constant(i)
    <2>1. ValueOf(i) = ConstValue(ObjectOf(i)) /\ ObjectOf(i) \in Object
      BY <1>2, <1>6 DEF ValueOf
    <2> QED
      BY <1>1, <1>4, <1>6, <2>1
  <1>7. CASE ~Constant(i)
    <2>1. ValueOf(i) \in {Unknown, IntValue}
      BY <1>7 DEF ValueOf
    <2> QED
      BY <1>1, <1>5, <1>7, <2>1
  <1> QED
    BY <1>6, <1>7

LEMMA AddOperandFacts ==
  ASSUME Traces, Prepared, phase = "emit", NEW r \in Reg, NEW v \in Meta(r)
  PROVE  Operand(k, r, AddOperand(r, v))
  <1>1. CASE r \in constant_regs /\ v.constant # NULL
    <2>1. AddOperand(r, v) = Const(r, v.constant) /\ Const(r, v.constant).obj = v.constant
      BY <1>1 DEF AddOperand, Const
    <2>2. ASSUME NEW n \in Writers(r), n < k PROVE Constant(trace[n].i) /\ v.constant = ObjectOf(trace[n].i)
      <3>1. Cardinality(Writers(r)) < 2
        BY <1>1 DEF Prepared, Emitting
      <3>2. \A m \in Writers(r) : m = n
        BY <3>1, OneWriter
      <3>3. n \in DOMAIN trace /\ n \in Nat
        <4>1. n \in DOMAIN trace
          BY DEF Writers
        <4> QED
          BY <4>1, ItemFacts
      <3>4. values[r] = ValueOf(trace[n].i)
        <4>1. Valued
          BY DEF Prepared, Emitting
        <4>2. \A m \in Writers(r) : m < k => m <= n
          BY <3>2, <3>3
        <4> QED
          BY <2>2, <4>1, <4>2 DEF Valued
      <3>5. trace[n].i \in Instruction
        BY <3>3, ItemFacts
      <3>6. v = ValueOf(trace[n].i)
        BY <3>4, <3>5, ValueFacts DEF Meta
      <3> QED
        BY <1>1, <3>5, <3>6, ValueFacts
    <2> QED
      BY <1>1, <2>1, <2>2 DEF Operand
  <1>2. CASE ~(r \in constant_regs /\ v.constant # NULL)
    BY <1>2 DEF AddOperand, Operand
  <1> QED
    BY <1>1, <1>2

LEMMA InstFacts ==
  ASSUME NEW op, NEW src
  PROVE  /\ Inst(op, src).op = op /\ Inst(op, src).ip = Cur.ip /\ Inst(op, src).src = src
         /\ Inst(op, src).ret = Writes(Cur.i) /\ Inst(op, src).sym = Cur.sym /\ Inst(op, src).to = << >>
  BY DEF Inst

LEMMA LoadedFacts == Loaded = LoadedBy(Cur.i)
  BY DEF Loaded, LoadedBy, Load, LoadBy

LEMMA PlainEffect ==
  ASSUME Traces, k \in DOMAIN trace, Plain(Cur.i), Cur.i.op \in Compilable, NEW inst, NEW value,
         inst.ip = Cur.ip, inst.ret = Writes(Cur.i), inst.sym = Cur.sym, inst.to = << >>,
         Sources(inst, k), EmitPlain(inst, value), ~Abort,
         value = IF Cur.i.op \in Returning THEN ValueOf(Cur.i) ELSE NULL
  PROVE  Advance /\ Grows /\ Stores
  <1>1. /\ Usable(inst) /\ Advance
        /\ code' = Put(Block(Cur.ip), <<inst>> \o Continuation)
        /\ values' = IF value = NULL THEN values ELSE [values EXCEPT ![inst.ret] = value]
    BY DEF EmitPlain
  <1>2. Continuation = Rest
    <2>1. k \in Nat /\ Len(trace) \in Nat /\ trace \in Seq(Items) /\ k \in 1 .. Len(trace)
      BY ItemFacts DEF Traces
    <2>2. k < Len(trace) <=> k + 1 \in DOMAIN trace
      BY <2>1
    <2> QED
      BY <2>2 DEF Continuation, Rest, Crossing, Home, Jump, Cur
  <1>3. code' = [code EXCEPT ![Home(k)] = @ \o (<<inst>> \o Rest)]
    BY <1>1, <1>2 DEF Put, Home, Cur
  <1>4. Branches(Cur) = << >> /\ Targets(Cur) = << >>
    BY DEF Plain, Branches, Targets
  <1>5. MadeFrom(inst, k)
    BY <1>1, <1>4 DEF MadeFrom, Cur, Range
  <1>6. Cur.i \in Instruction
    BY ItemFacts DEF Cur
  <1>7. Stores
    BY <1>1, <1>6, ValueFacts DEF Stores
  <1> QED
    BY <1>1, <1>3, <1>5, <1>7 DEF Grows

LEMMA EmitsFacts ==
  ASSUME Traces, Prepared, NEW ops, Emits(ops)
  PROVE  /\ phase = "emit" /\ k \in DOMAIN trace /\ Cur.i.op \in ops /\ Cur = trace[k]
         /\ Cur.i \in Instruction /\ Cur \in Items
  <1>1. phase = "emit" /\ k <= Len(trace) /\ Cur.i.op \in ops /\ Cur = trace[k]
    BY DEF Emits, Cur
  <1>2. trace \in Seq(Items) /\ k \in Nat \ {0}
    BY DEF Traces, Prepared
  <1>3. k \in DOMAIN trace
    BY <1>1, <1>2
  <1> QED
    BY <1>1, <1>3, ItemFacts

\* The actions that compile an item, all but IF.
LEMMA EmissionEffect ==
  ASSUME Traces, Blocked, Prepared, ~Abort,
         \/ EmitMove \/ EmitCompare \/ EmitArraySet \/ EmitConstant \/ EmitAdd \/ EmitSetLocal
         \/ EmitGoto \/ EmitReturn \/ EmitUnknown
  PROVE  phase = "emit" /\ k \in DOMAIN trace /\ Advance /\ Grows /\ Stores
  <1> DEFINE Done == phase = "emit" /\ k \in DOMAIN trace /\ Advance /\ Grows /\ Stores
  <1>1. CASE EmitMove
    <2> DEFINE inst == Inst(Cur.i.op, Loaded)
    <2>1. EmitPlain(inst, Unknown) /\ Emits({"move", "arrayget", "invokeprimitive", "getlocal"})
      BY <1>1 DEF EmitMove
    <2>2. /\ phase = "emit" /\ k \in DOMAIN trace /\ Cur = trace[k]
          /\ Cur.i.op \in {"move", "arrayget", "invokeprimitive", "getlocal"}
      BY <2>1, EmitsFacts
    <2>3. Plain(Cur.i) /\ Cur.i.op \in Compilable /\ Cur.i.op \in Returning /\ ~Constant(Cur.i)
      BY <2>2 DEF Plain, Compilable, Returning, Constant
    <2>4. NativeOp(Cur.i) = Cur.i.op /\ ValueOf(Cur.i) = Unknown
      BY <2>2 DEF NativeOp, ValueOf, Constant
    <2>5. Sources(inst, k)
      BY <2>2, <2>3, <2>4, InstFacts, LoadedFacts DEF Sources
    <2> HIDE DEF inst
    <2>6. inst.ip = Cur.ip /\ inst.ret = Writes(Cur.i) /\ inst.sym = Cur.sym /\ inst.to = << >>
      BY InstFacts DEF inst
    <2> QED
      BY <2>1, <2>2, <2>3, <2>4, <2>5, <2>6, PlainEffect
  <1>2. CASE EmitCompare
    <2> DEFINE inst == Inst(Cur.i.op, Loaded)
    <2>1. EmitPlain(inst, IntValue) /\ Emits({"eq", "gt", "and", "arraylen"})
      BY <1>2 DEF EmitCompare
    <2>2. /\ phase = "emit" /\ k \in DOMAIN trace /\ Cur = trace[k]
          /\ Cur.i.op \in {"eq", "gt", "and", "arraylen"}
      BY <2>1, EmitsFacts
    <2>3. Plain(Cur.i) /\ Cur.i.op \in Compilable /\ Cur.i.op \in Returning /\ ~Constant(Cur.i)
      BY <2>2 DEF Plain, Compilable, Returning, Constant
    <2>4. NativeOp(Cur.i) = Cur.i.op /\ ValueOf(Cur.i) = IntValue
      BY <2>2 DEF NativeOp, ValueOf, Constant
    <2>5. Sources(inst, k)
      BY <2>2, <2>3, <2>4, InstFacts, LoadedFacts DEF Sources
    <2> HIDE DEF inst
    <2>6. inst.ip = Cur.ip /\ inst.ret = Writes(Cur.i) /\ inst.sym = Cur.sym /\ inst.to = << >>
      BY InstFacts DEF inst
    <2> QED
      BY <2>1, <2>2, <2>3, <2>4, <2>5, <2>6, PlainEffect
  <1>3. CASE EmitArraySet
    <2> DEFINE inst == Inst("arrayset", Loaded)
    <2>1. EmitPlain(inst, NULL) /\ Emits({"arrayset"})
      BY <1>3 DEF EmitArraySet
    <2>2. phase = "emit" /\ k \in DOMAIN trace /\ Cur = trace[k] /\ Cur.i.op = "arrayset"
      BY <2>1, EmitsFacts
    <2>3. Plain(Cur.i) /\ Cur.i.op \in Compilable /\ Cur.i.op \notin Returning /\ ~Constant(Cur.i)
      BY <2>2 DEF Plain, Compilable, Returning, Constant
    <2>4. NativeOp(Cur.i) = "arrayset"
      BY <2>2 DEF NativeOp
    <2>5. Sources(inst, k)
      BY <2>2, <2>3, <2>4, InstFacts, LoadedFacts DEF Sources
    <2> HIDE DEF inst
    <2>6. inst.ip = Cur.ip /\ inst.ret = Writes(Cur.i) /\ inst.sym = Cur.sym /\ inst.to = << >>
      BY InstFacts DEF inst
    <2> QED
      BY <2>1, <2>2, <2>3, <2>4, <2>5, <2>6, PlainEffect
  <1>4. CASE EmitConstant
    <2> DEFINE obj == IF Cur.i.op = "set" THEN ConstPool[Cur.i.dest] ELSE IntOf(Cur.i.dest)
               inst == Inst("const", <<Const(Cur.i.a, obj)>>)
    <2>1. EmitPlain(inst, ConstValue(obj)) /\ Emits({"set", "litinteger"})
      BY <1>4 DEF EmitConstant
    <2>2. phase = "emit" /\ k \in DOMAIN trace /\ Cur = trace[k] /\ Cur.i.op \in {"set", "litinteger"}
      BY <2>1, EmitsFacts
    <2>3. Plain(Cur.i) /\ Cur.i.op \in Compilable /\ Cur.i.op \in Returning /\ Constant(Cur.i)
      BY <2>2 DEF Plain, Compilable, Returning, Constant
    <2>4. obj = ObjectOf(Cur.i) /\ ValueOf(Cur.i) = ConstValue(obj)
      BY <2>3 DEF ValueOf, ObjectOf
    <2> HIDE DEF obj
    <2>5. Sources(inst, k)
      BY <2>2, <2>3, <2>4, InstFacts DEF Sources
    <2> HIDE DEF inst
    <2>6. inst.ip = Cur.ip /\ inst.ret = Writes(Cur.i) /\ inst.sym = Cur.sym /\ inst.to = << >>
      BY InstFacts DEF inst
    <2> QED
      BY <2>1, <2>2, <2>3, <2>4, <2>5, <2>6, PlainEffect
  <1>5. CASE EmitAdd
    <2>1. PICK v1 \in Meta(Cur.i.b), v2 \in Meta(Cur.i.c) :
            IF v1 = NULL \/ v2 = NULL THEN Abort
            ELSE IF v1.type = "int" /\ v2.type = "int"
            THEN EmitPlain(Inst("add_direct", <<AddOperand(Cur.i.b, v1), AddOperand(Cur.i.c, v2)>>), IntValue)
            ELSE EmitPlain(Inst("add", Loaded), IntValue)
      BY <1>5 DEF EmitAdd
    <2>2. Emits({"add"})
      BY <1>5 DEF EmitAdd
    <2>3. /\ phase = "emit" /\ k \in DOMAIN trace /\ Cur = trace[k] /\ Cur.i.op = "add"
          /\ Cur.i.b \in Reg /\ Cur.i.c \in Reg
      <3>1. phase = "emit" /\ k \in DOMAIN trace /\ Cur = trace[k] /\ Cur.i.op = "add"
        BY <2>2, EmitsFacts
      <3> QED
        BY <3>1, ItemFacts
    <2>4. Plain(Cur.i) /\ Cur.i.op \in Compilable /\ Cur.i.op \in Returning /\ ~Constant(Cur.i)
      BY <2>3 DEF Plain, Compilable, Returning, Constant
    <2>5. NativeOp(Cur.i) = "add" /\ ValueOf(Cur.i) = IntValue
      BY <2>3 DEF NativeOp, ValueOf, Constant
    <2> DEFINE x == AddOperand(Cur.i.b, v1)
               y == AddOperand(Cur.i.c, v2)
               direct == Inst("add_direct", <<x, y>>)
               inst == Inst("add", Loaded)
    <2>6. Operand(k, Cur.i.b, x) /\ Operand(k, Cur.i.c, y)
      BY <2>3, AddOperandFacts
    <2>7. EmitPlain(direct, IntValue) \/ EmitPlain(inst, IntValue)
      BY <2>1
    <2> HIDE DEF x, y
    <2>8. Sources(direct, k)
      <3>1. direct.op = "add_direct" /\ direct.src = <<x, y>>
        BY InstFacts
      <3>2. direct.src[1] = x /\ direct.src[2] = y
        BY <3>1
      <3> HIDE DEF direct
      <3> QED
        BY <2>3, <2>6, <3>1, <3>2 DEF Sources
    <2>9. Sources(inst, k)
      BY <2>3, <2>4, <2>5, InstFacts, LoadedFacts DEF Sources
    <2> HIDE DEF inst, direct
    <2>10. /\ inst.ip = Cur.ip /\ inst.ret = Writes(Cur.i) /\ inst.sym = Cur.sym /\ inst.to = << >>
           /\ direct.ip = Cur.ip /\ direct.ret = Writes(Cur.i) /\ direct.sym = Cur.sym /\ direct.to = << >>
      BY InstFacts DEF inst, direct
    <2>11. EmitPlain(direct, IntValue) => Done
      BY <2>3, <2>4, <2>5, <2>8, <2>10, PlainEffect
    <2>12. EmitPlain(inst, IntValue) => Done
      BY <2>3, <2>4, <2>5, <2>9, <2>10, PlainEffect
    <2> QED
      BY <2>7, <2>11, <2>12
  <1>6. CASE EmitSetLocal
    <2> DEFINE inst == Inst("setlocal", Loaded)
    <2>1. EmitPlain(inst, NULL) /\ Emits({"setlocal"})
      BY <1>6 DEF EmitSetLocal
    <2>2. phase = "emit" /\ k \in DOMAIN trace /\ Cur = trace[k] /\ Cur.i.op = "setlocal"
      BY <2>1, EmitsFacts
    <2>3. Plain(Cur.i) /\ Cur.i.op \in Compilable /\ Cur.i.op \notin Returning /\ ~Constant(Cur.i)
      BY <2>2 DEF Plain, Compilable, Returning, Constant
    <2>4. NativeOp(Cur.i) = "setlocal"
      BY <2>2 DEF NativeOp
    <2>5. Sources(inst, k)
      BY <2>2, <2>3, <2>4, InstFacts, LoadedFacts DEF Sources
    <2> HIDE DEF inst
    <2>6. inst.ip = Cur.ip /\ inst.ret = Writes(Cur.i) /\ inst.sym = Cur.sym /\ inst.to = << >>
      BY InstFacts DEF inst
    <2> QED
      BY <2>1, <2>2, <2>3, <2>4, <2>5, <2>6, PlainEffect
  <1>7. CASE EmitGoto
    <2> DEFINE to == <<<<"block", data[k][1]>>>>
               inst == [Inst("goto", << >>) EXCEPT !.to = to]
    <2>1. /\ Emits({"goto"}) /\ UNCHANGED values /\ Advance
          /\ code' = Put(Block(Cur.ip), <<inst>>)
      BY <1>7 DEF EmitGoto
    <2>2. phase = "emit" /\ k \in DOMAIN trace /\ Cur = trace[k] /\ Cur.i.op = "goto" /\ Cur \in Items
      BY <2>1, EmitsFacts
    <2>3. ~Plain(Cur.i) /\ Cur.i.op \in Compilable /\ Cur.i.op \notin Returning /\ ~Constant(Cur.i)
      BY <2>2 DEF Plain, Compilable, Returning, Constant
    <2>4. InTrace(Cur.i.dest) /\ data[k] = Leads(Cur) /\ Cur.i.dest \in Nat
      <3>1. DOMAIN data = DOMAIN trace
        <4>1. /\ Len(data) = Len(trace) /\ data \in Seq(Seq(Nat \cup {NULL})) /\ trace \in Seq(Items)
          BY <2>2 DEF Blocked, Full, Traces
        <4> QED
          BY <4>1
      <3> QED
        BY <2>2, <3>1, ItemFacts DEF Blocked
    <2>5. data[k][1] = Cur.i.dest
      BY <2>2, <2>4, LeadsFacts, TracedFacts
    <2>6. to = Targets(Cur)
      BY <2>2, <2>5 DEF Targets
    <2> HIDE DEF to
    <2>7. /\ inst.op = "goto" /\ inst.ip = Cur.ip /\ inst.ret = Writes(Cur.i) /\ inst.sym = Cur.sym
          /\ inst.to = to /\ inst.src = << >>
      BY DEF Inst
    <2> HIDE DEF inst
    <2>8. LoadedBy(Cur.i) = << >> /\ NativeOp(Cur.i) = "goto" /\ Writes(Cur.i) = NullReg
      BY <2>2 DEF LoadedBy, Loads, NativeOp, Writes
    <2>9. Sources(inst, k)
      BY <2>2, <2>3, <2>7, <2>8 DEF Sources
    <2>10. Usable(inst)
      BY <2>7, <2>8 DEF Usable
    <2>11. \A d \in Range(Branches(Cur)) : InTrace(d)
      BY <2>2, <2>4, LeadsFacts
    <2>12. MadeFrom(inst, k)
      BY <2>2, <2>3, <2>6, <2>7, <2>9, <2>10, <2>11 DEF MadeFrom
    <2>13. <<inst>> = <<inst>> \o Rest
      BY <2>3 DEF Rest
    <2>14. code' = [code EXCEPT ![Home(k)] = @ \o (<<inst>> \o Rest)]
      BY <2>1, <2>2, <2>13 DEF Put, Home
    <2>15. Stores
      BY <2>1, <2>3 DEF Stores
    <2> QED
      BY <2>1, <2>2, <2>12, <2>14, <2>15 DEF Grows
  <1>8. CASE EmitReturn
    <2> DEFINE inst == Inst("ret", Loaded)
    <2>1. /\ Emits({"return"}) /\ Usable(inst) /\ UNCHANGED values /\ Advance
          /\ code' = Put(Block(Cur.ip), <<inst>>)
      BY <1>8 DEF EmitReturn
    <2>2. phase = "emit" /\ k \in DOMAIN trace /\ Cur = trace[k] /\ Cur.i.op = "return" /\ Cur \in Items
      BY <2>1, EmitsFacts
    <2>3. ~Plain(Cur.i) /\ Cur.i.op \in Compilable /\ Cur.i.op \notin Returning /\ ~Constant(Cur.i)
      BY <2>2 DEF Plain, Compilable, Returning, Constant
    <2>4. NativeOp(Cur.i) = "ret" /\ Targets(Cur) = << >>
      BY <2>2 DEF NativeOp, Targets
    <2>5. Sources(inst, k)
      BY <2>2, <2>3, <2>4, InstFacts, LoadedFacts DEF Sources
    <2> HIDE DEF inst
    <2>6. inst.ip = Cur.ip /\ inst.ret = Writes(Cur.i) /\ inst.sym = Cur.sym /\ inst.to = << >>
      BY InstFacts DEF inst
    <2>7. \A d \in Range(Branches(Cur)) : InTrace(d)
      BY <2>2, LeadsFacts
    <2>8. MadeFrom(inst, k)
      BY <2>1, <2>2, <2>3, <2>4, <2>5, <2>6, <2>7 DEF MadeFrom
    <2>9. <<inst>> = <<inst>> \o Rest
      BY <2>3 DEF Rest
    <2>10. code' = [code EXCEPT ![Home(k)] = @ \o (<<inst>> \o Rest)]
      BY <2>1, <2>2, <2>9 DEF Put, Home
    <2>11. Stores
      BY <2>1, <2>3 DEF Stores
    <2> QED
      BY <2>1, <2>2, <2>8, <2>10, <2>11 DEF Grows
  <1>9. ~EmitUnknown
    BY DEF EmitUnknown
  <1> HIDE DEF Done
  <1> QED
    BY <1>1, <1>2, <1>3, <1>4, <1>5, <1>6, <1>7, <1>8, <1>9 DEF Done

BothIn == \A d \in Range(Branches(Cur)) : InTrace(d)

LEMMA AppendIs ==
  ASSUME NEW S, NEW s \in Seq(S), NEW x
  PROVE  Append(s, x) = s \o (<<x>> \o << >>)
  <1>1. s \in Seq(S \cup {x}) /\ <<x>> \o << >> = <<x>>
    BY SeqGrows
  <1>2. Append(s, x) = s \o <<x>>
    OBVIOUS
  <1> QED
    BY <1>1, <1>2

\* hvm_jit_build_bailout_block leaves a block that goes on after its end.
LEMMA IfEffect ==
  ASSUME Traces, Blocked, Prepared, EmitIf, ~Abort
  PROVE  /\ phase = "emit" /\ k \in DOMAIN trace /\ Advance /\ Stores /\ Cur.i.op = "if"
         /\ Typed' /\ (Spoilt => Spoilt')
         /\ Laid => (BothIn => Grows) /\ (~BothIn => Spoilt')
  <1> DEFINE inst == Inst("condbr", Loaded)
             truthy == IF data[k][1] # NULL THEN <<"block", data[k][1]>> ELSE Bailout("truthy")
             falsey == IF data[k][2] # NULL THEN <<"block", data[k][2]>> ELSE Bailout("falsey")
             bailouts == {truthy, falsey} \ DOMAIN code
             builder == IF falsey \in bailouts THEN falsey
                        ELSE IF truthy \in bailouts THEN truthy ELSE Block(Cur.ip)
             bail == Inst("bailout", << >>)
             blank == [b \in DOMAIN code \cup bailouts |-> IF b \in bailouts THEN <<bail>> ELSE code[b]]
             cond == CondBr(inst, truthy, falsey)
  <1>1. /\ Emits({"if"}) /\ Usable(inst) /\ UNCHANGED values /\ Advance
        /\ code' = [blank EXCEPT ![builder] = Append(@, cond)]
    BY DEF EmitIf
  <1>a. Emits({"if"})
    BY DEF EmitIf
  <1>2. phase = "emit" /\ k \in DOMAIN trace /\ Cur = trace[k] /\ Cur.i.op = "if" /\ Cur \in Items
    BY <1>a, EmitsFacts
  <1>3. ~Plain(Cur.i) /\ Cur.i.op \in Compilable /\ Cur.i.op \notin Returning /\ ~Constant(Cur.i)
    BY <1>2 DEF Plain, Compilable, Returning, Constant
  <1>4. Stores
    BY <1>1, <1>3 DEF Stores
  <1>5. PICK S : \A b \in DOMAIN code : code[b] \in Seq(S)
    BY <1>2 DEF Prepared, Typed, Emitting
  <1>6. /\ inst.op = "condbr" /\ inst.ip = Cur.ip /\ inst.ret = Writes(Cur.i) /\ inst.sym = Cur.sym
        /\ inst.src = Loaded /\ bail.op = "bailout"
    BY InstFacts
  <1>7. cond = [inst EXCEPT !.to = <<truthy, falsey>>]
    BY DEF CondBr
  <1>8. /\ data[k][1] = Traced(Cur.i.dest) /\ data[k][2] = Traced(Cur.ip + 1)
        /\ Cur.i.dest \in Nat /\ Cur.ip + 1 \in Nat
        /\ Range(Branches(Cur)) = {Cur.i.dest, Cur.ip + 1}
    <2>1. DOMAIN data = DOMAIN trace
      <3>1. Len(data) = Len(trace) /\ data \in Seq(Seq(Nat \cup {NULL})) /\ trace \in Seq(Items)
        BY <1>2 DEF Blocked, Full, Traces
      <3> QED
        BY <3>1
    <2>2. data[k] = Leads(Cur)
      BY <1>2, <2>1 DEF Blocked
    <2> QED
      BY <1>2, <2>2, ItemFacts, LeadsFacts
  <1> HIDE DEF inst, bail
  <1>9. /\ DOMAIN blank = DOMAIN code \cup bailouts
        /\ \A b \in DOMAIN code : b \notin bailouts /\ blank[b] = code[b]
        /\ \A b \in bailouts : blank[b] = <<bail>>
        /\ DOMAIN code' = DOMAIN blank
        /\ \A b \in DOMAIN blank : code'[b] = IF b = builder THEN Append(blank[b], cond) ELSE blank[b]
    BY <1>1
  <1> HIDE DEF cond, builder, bailouts, blank
  <1>10. \A b \in DOMAIN blank : blank[b] \in Seq(S \cup {bail, cond})
    <2> SUFFICES ASSUME NEW b \in DOMAIN blank PROVE blank[b] \in Seq(S \cup {bail, cond})
      OBVIOUS
    <2>1. CASE b \in DOMAIN code
      <3>1. code[b] \in Seq(S)
        BY <1>5, <2>1
      <3> QED
        BY <1>9, <2>1, <3>1, SeqGrows
    <2>2. CASE b \in bailouts
      <3>1. <<bail>> \in Seq(S \cup {bail, cond})
        OBVIOUS
      <3> QED
        BY <1>9, <2>2, <3>1
    <2> QED
      BY <1>9, <2>1, <2>2
  <1>11. Typed'
    <2>1. \A b \in DOMAIN code' : code'[b] \in Seq(S \cup {bail, cond})
      <3> SUFFICES ASSUME NEW b \in DOMAIN code' PROVE code'[b] \in Seq(S \cup {bail, cond})
        OBVIOUS
      <3>1. blank[b] \in Seq(S \cup {bail, cond})
        BY <1>9, <1>10
      <3>2. Append(blank[b], cond) \in Seq(S \cup {bail, cond})
        BY <3>1
      <3> QED
        BY <1>9, <3>1, <3>2
    <2> QED
      BY <2>1 DEF Typed
  <1>12. ASSUME Spoilt PROVE Spoilt'
    <2>1. PICK b \in DOMAIN code : \E n \in DOMAIN code[b] : n # Len(code[b]) /\ code[b][n].op \in Terminators
      BY <1>12 DEF Spoilt
    <2>2. PICK n \in DOMAIN code[b] : n # Len(code[b]) /\ code[b][n].op \in Terminators
      BY <2>1
    <2>3. b \in DOMAIN code' /\ (code'[b] = code[b] \/ code'[b] = Append(code[b], cond))
      BY <1>9
    <2>4. code[b] \in Seq(S)
      BY <1>5
    <2>5. /\ n \in DOMAIN Append(code[b], cond) /\ n # Len(Append(code[b], cond))
          /\ Append(code[b], cond)[n] = code[b][n]
      BY <2>4
    <2>6. n \in DOMAIN code'[b] /\ n # Len(code'[b]) /\ code'[b][n] = code[b][n]
      BY <2>2, <2>3, <2>5
    <2> QED
      BY <2>2, <2>3, <2>6 DEF Spoilt
  <1>13. ASSUME Laid, BothIn PROVE Grows
    <2>1. InTrace(Cur.i.dest) /\ InTrace(Cur.ip + 1)
      BY <1>8, <1>13 DEF BothIn
    <2>2. data[k][1] = Cur.i.dest /\ data[k][2] = Cur.ip + 1 /\ data[k][1] # NULL /\ data[k][2] # NULL
      BY <1>8, <2>1, TracedFacts
    <2>3. truthy = <<"block", Cur.i.dest>> /\ falsey = <<"block", Cur.ip + 1>>
      BY <2>2
    <2>4. Cur.i.dest \in Range(blocks) /\ Cur.ip + 1 \in Range(blocks)
      BY <1>2, <1>8, <2>1, BlockFacts DEF Full
    <2>5. truthy \in DOMAIN code /\ falsey \in DOMAIN code
      BY <1>13, <2>3, <2>4 DEF Laid
    <2>6. bailouts = {} /\ builder = Home(k)
      BY <1>2, <2>5 DEF bailouts, builder, Home
    <2>7. Home(k) \in DOMAIN code
      BY <1>2, <1>13, HomeFacts DEF Laid, Full
    <2>8. Append(code[Home(k)], cond) = code[Home(k)] \o (<<cond>> \o << >>)
      <3>1. code[Home(k)] \in Seq(S)
        BY <1>5, <2>7
      <3> QED
        BY <3>1, AppendIs
    <2>9. Rest = << >>
      BY <1>3 DEF Rest
    <2>10. blank = [b \in DOMAIN code |-> code[b]] /\ DOMAIN blank = DOMAIN code
      BY <1>9, <2>6 DEF blank
    <2>11. code' = [b \in DOMAIN code |-> IF b = Home(k) THEN code[Home(k)] \o (<<cond>> \o Rest) ELSE code[b]]
      <3>1. code' = [b \in DOMAIN blank |-> IF b = builder THEN Append(blank[builder], cond) ELSE blank[b]]
        BY <1>1 DEF cond, blank, builder, bailouts, bail
      <3> QED
        BY <2>6, <2>7, <2>8, <2>9, <2>10, <3>1
    <2>12. [code EXCEPT ![Home(k)] = @ \o (<<cond>> \o Rest)]
             = [b \in DOMAIN code |-> IF b = Home(k) THEN code[Home(k)] \o (<<cond>> \o Rest) ELSE code[b]]
      OBVIOUS
    <2>13. MadeFrom(cond, k)
      <3>1. /\ cond.op = "condbr" /\ cond.ip = Cur.ip /\ cond.ret = Writes(Cur.i) /\ cond.sym = Cur.sym
            /\ cond.src = Loaded /\ cond.to = <<truthy, falsey>>
        BY <1>6 DEF cond, CondBr, inst, Inst
      <3>2. Targets(Cur) = <<truthy, falsey>> /\ NativeOp(Cur.i) = "condbr"
        BY <1>2, <2>3 DEF Targets, NativeOp
      <3>3. Sources(cond, k)
        BY <1>2, <1>3, <3>1, <3>2, LoadedFacts DEF Sources
      <3>4. Usable(cond)
        BY <1>1, <1>6, <3>1 DEF Usable
      <3> QED
        BY <1>2, <1>3, <1>13, <3>1, <3>2, <3>3, <3>4 DEF MadeFrom, BothIn
    <2> QED
      BY <2>11, <2>12, <2>13 DEF Grows
  <1>14. ASSUME Laid, ~BothIn PROVE Spoilt'
    <2>1. ~InTrace(Cur.i.dest) \/ ~InTrace(Cur.ip + 1)
      BY <1>8, <1>14 DEF BothIn
    <2>2. data[k][1] = NULL \/ data[k][2] = NULL
      BY <1>8, <2>1, TracedFacts
    <2>3. \A b \in DOMAIN code : b[1] = "block"
      BY <1>14 DEF Laid
    <2>4. /\ data[k][1] = NULL => truthy = <<"truthy", Cur.ip>> /\ truthy[1] = "truthy"
          /\ data[k][2] = NULL => falsey = <<"falsey", Cur.ip>> /\ falsey[1] = "falsey"
      BY DEF Bailout
    <2>5. /\ data[k][1] = NULL => truthy \in bailouts
          /\ data[k][2] = NULL => falsey \in bailouts
      BY <2>3, <2>4 DEF bailouts
    <2>6. builder \in bailouts
      BY <2>2, <2>5 DEF builder
    <2>7. builder \in DOMAIN code' /\ code'[builder] = Append(<<bail>>, cond)
      BY <1>9, <2>6
    <2>8. Append(<<bail>>, cond)[1] = bail /\ Len(Append(<<bail>>, cond)) = 2 /\ 1 \in DOMAIN Append(<<bail>>, cond)
      OBVIOUS
    <2>9. code'[builder][1].op \in Terminators /\ 1 \in DOMAIN code'[builder] /\ 1 # Len(code'[builder])
      BY <1>6, <2>7, <2>8 DEF Terminators
    <2> QED
      BY <2>7, <2>9 DEF Spoilt
  <1> QED
    BY <1>1, <1>2, <1>4, <1>11, <1>12, <1>13, <1>14

LEMMA ValuedStep ==
  ASSUME Traces, Prepared, Valued, k \in DOMAIN trace, Advance, Stores
  PROVE  Valued' /\ DOMAIN values' = Reg
  <1>1. /\ k' = k + 1 /\ UNCHANGED <<trace, blocks, constant_regs>> /\ k \in Nat /\ DOMAIN values = Reg
        /\ Cur = trace[k] /\ trace[k].i \in Instruction
    BY ItemFacts DEF Advance, Prepared, Cur
  <1>2. \A r : Writers(r)' = Writers(r)
    BY <1>1, StillFacts
  <1>3. DOMAIN values' = Reg
    BY <1>1 DEF Stores
  <1>4. \A r \in Reg : k \in Writers(r) => values'[r] = ValueOf(trace[k].i)
    BY <1>1 DEF Stores, Writers
  <1>5. \A r \in Reg : k \notin Writers(r) => values'[r] = values[r]
    BY <1>1 DEF Stores, Writers
  <1>6. ASSUME NEW r \in Reg, NEW n \in Writers(r), n < k + 1, \A m \in Writers(r) : m < k + 1 => m <= n
        PROVE  values'[r] = ValueOf(trace[n].i)
    <2>1. n \in DOMAIN trace /\ n \in Nat
      <3>1. n \in DOMAIN trace
        BY DEF Writers
      <3> QED
        BY <3>1, ItemFacts
    <2>2. CASE n = k
      BY <1>4, <2>2
    <2>3. CASE n # k
      <3>1. n < k /\ k \notin Writers(r)
        BY <1>1, <1>6, <2>1, <2>3
      <3>2. \A m \in Writers(r) : m < k => m <= n
        <4>1. \A m \in Writers(r) : m \in Nat
          <5>1. \A m \in Writers(r) : m \in DOMAIN trace
            BY DEF Writers
          <5> QED
            BY <5>1, ItemFacts
        <4> QED
          BY <1>1, <1>6, <4>1
      <3> QED
        BY <1>5, <3>1, <3>2 DEF Valued
    <2> QED
      BY <2>2, <2>3
  <1>7. \A n : (trace[n].i)' = trace[n].i
    BY <1>1
  <1> QED
    BY <1>1, <1>2, <1>3, <1>6, <1>7 DEF Valued

LEMMA Updated ==
  ASSUME NEW f, NEW d, NEW e, NEW g, g = [f EXCEPT ![d] = e]
  PROVE  /\ DOMAIN g = DOMAIN f /\ \A b \in DOMAIN f : b # d => g[b] = f[b]
         /\ d \in DOMAIN f => g[d] = e
  OBVIOUS

LEMMA GrowthFacts ==
  ASSUME NEW inst, code' = [code EXCEPT ![Home(k)] = @ \o (<<inst>> \o Rest)],
         NEW S, \A b \in DOMAIN code : code[b] \in Seq(S)
  PROVE  /\ DOMAIN code' = DOMAIN code /\ \A b \in DOMAIN code : code'[b] \in Seq(S \cup {inst, Jump(k)})
         /\ \A b \in DOMAIN code : b # Home(k) => code'[b] = code[b]
         /\ Rest = << >> \/ (Rest = <<Jump(k)>> /\ Rest # << >> /\ Plain(Cur.i) /\ Crossing(k))
         /\ Home(k) \in DOMAIN code =>
              /\ Len(code[Home(k)]) \in Nat /\ DOMAIN code[Home(k)] = 1 .. Len(code[Home(k)])
              /\ \A n \in DOMAIN code[Home(k)] : n \in DOMAIN code'[Home(k)] /\ code'[Home(k)][n] = code[Home(k)][n]
              /\ Len(code[Home(k)]) + 1 \in DOMAIN code'[Home(k)] /\ code'[Home(k)][Len(code[Home(k)]) + 1] = inst
              /\ Rest = << >> => Len(code'[Home(k)]) = Len(code[Home(k)]) + 1
              /\ Rest # << >> => /\ Len(code'[Home(k)]) = Len(code[Home(k)]) + 2
                                 /\ Len(code[Home(k)]) + 2 \in DOMAIN code'[Home(k)]
                                 /\ code'[Home(k)][Len(code[Home(k)]) + 2] = Jump(k)
              /\ \A n \in DOMAIN code'[Home(k)] :
                   \/ n \in DOMAIN code[Home(k)] \/ n = Len(code[Home(k)]) + 1
                   \/ (n = Len(code[Home(k)]) + 2 /\ Rest # << >>)
  <1> DEFINE h == Home(k)
             new == code[h] \o (<<inst>> \o Rest)
  <1>1. /\ DOMAIN code' = DOMAIN code
        /\ \A b \in DOMAIN code : b # h => code'[b] = code[b]
        /\ h \in DOMAIN code => code'[h] = new
    <2>1. code' = [code EXCEPT ![h] = new]
      OBVIOUS
    <2> HIDE DEF h, new
    <2> QED
      BY <2>1, Updated
  <1>2. Rest = << >> \/ (Rest = <<Jump(k)>> /\ Rest # << >> /\ Plain(Cur.i) /\ Crossing(k))
    BY DEF Rest
  <1> HIDE DEF h
  <1>3. ASSUME h \in DOMAIN code
        PROVE  /\ new \in Seq(S \cup {inst, Jump(k)})
               /\ Len(code[h]) \in Nat /\ DOMAIN code[h] = 1 .. Len(code[h])
               /\ \A n \in DOMAIN code[h] : n \in DOMAIN new /\ new[n] = code[h][n]
               /\ Len(code[h]) + 1 \in DOMAIN new /\ new[Len(code[h]) + 1] = inst
               /\ Rest = << >> => Len(new) = Len(code[h]) + 1
               /\ Rest # << >> => /\ Len(new) = Len(code[h]) + 2
                                  /\ Len(code[h]) + 2 \in DOMAIN new
                                  /\ new[Len(code[h]) + 2] = Jump(k)
               /\ \A n \in DOMAIN new :
                    \/ n \in DOMAIN code[h] \/ n = Len(code[h]) + 1
                    \/ (n = Len(code[h]) + 2 /\ Rest # << >>)
    <2>1. code[h] \in Seq(S)
      BY <1>3
    <2>2. Len(code[h]) \in Nat /\ DOMAIN code[h] = 1 .. Len(code[h])
      BY <2>1
    <2>3. CASE Rest = << >>
      <3>1. new = code[h] \o (<<inst>> \o << >>)
        BY <2>3
      <3> HIDE DEF new
      <3>2. /\ new \in Seq(S \cup {inst}) /\ Len(new) = Len(code[h]) + 1 /\ new[Len(code[h]) + 1] = inst
            /\ \A n \in DOMAIN code[h] : new[n] = code[h][n]
            /\ \A n \in DOMAIN new : n \in DOMAIN code[h] \/ n = Len(code[h]) + 1
            /\ Len(code[h]) + 1 \in DOMAIN new /\ \A n \in DOMAIN code[h] : n \in DOMAIN new
        BY <2>1, <3>1, ExtendOnce
      <3>3. new \in Seq((S \cup {inst}) \cup {Jump(k)})
        BY <3>2, SeqGrows
      <3>4. (S \cup {inst}) \cup {Jump(k)} = S \cup {inst, Jump(k)}
        OBVIOUS
      <3> QED
        BY <2>2, <2>3, <3>2, <3>3, <3>4
    <2>4. CASE Rest # << >>
      <3>1. new = code[h] \o (<<inst>> \o <<Jump(k)>>)
        BY <1>2, <2>4
      <3> HIDE DEF new
      <3>2. /\ new \in Seq(S \cup {inst, Jump(k)}) /\ Len(new) = Len(code[h]) + 2
            /\ new[Len(code[h]) + 1] = inst /\ new[Len(code[h]) + 2] = Jump(k)
            /\ \A n \in DOMAIN code[h] : new[n] = code[h][n]
            /\ \A n \in DOMAIN new : n \in DOMAIN code[h] \/ n = Len(code[h]) + 1 \/ n = Len(code[h]) + 2
            /\ Len(code[h]) + 1 \in DOMAIN new /\ Len(code[h]) + 2 \in DOMAIN new
            /\ \A n \in DOMAIN code[h] : n \in DOMAIN new
        BY <2>1, <3>1, ExtendTwice
      <3> QED
        BY <2>2, <2>4, <3>2
    <2> QED
      BY <2>3, <2>4
  <1>4. \A b \in DOMAIN code : code'[b] \in Seq(S \cup {inst, Jump(k)})
    <2> SUFFICES ASSUME NEW b \in DOMAIN code PROVE code'[b] \in Seq(S \cup {inst, Jump(k)})
      OBVIOUS
    <2>1. CASE b = h
      BY <1>1, <1>3, <2>1
    <2>2. CASE b # h
      <3>1. code[b] \in Seq(S \cup {inst, Jump(k)})
        BY SeqGrows
      <3> QED
        BY <1>1, <2>2, <3>1
    <2> QED
      BY <2>1, <2>2
  <1> HIDE DEF new
  <1>5. h \in DOMAIN code => code'[h] = new
    BY <1>1
  <1>6. h \in DOMAIN code =>
          /\ Len(code[h]) \in Nat /\ DOMAIN code[h] = 1 .. Len(code[h])
          /\ \A n \in DOMAIN code[h] : n \in DOMAIN code'[h] /\ code'[h][n] = code[h][n]
          /\ Len(code[h]) + 1 \in DOMAIN code'[h] /\ code'[h][Len(code[h]) + 1] = inst
          /\ Rest = << >> => Len(code'[h]) = Len(code[h]) + 1
          /\ Rest # << >> => /\ Len(code'[h]) = Len(code[h]) + 2
                             /\ Len(code[h]) + 2 \in DOMAIN code'[h]
                             /\ code'[h][Len(code[h]) + 2] = Jump(k)
          /\ \A n \in DOMAIN code'[h] :
               \/ n \in DOMAIN code[h] \/ n = Len(code[h]) + 1
               \/ (n = Len(code[h]) + 2 /\ Rest # << >>)
    BY <1>3, <1>5
  <1> QED
    BY <1>1, <1>2, <1>4, <1>6 DEF h

LEMMA GrowsSpoilt ==
  ASSUME Typed, Grows
  PROVE  /\ Typed' /\ (Spoilt => Spoilt')
         /\ (Home(k) \in DOMAIN code /\ code[Home(k)] # << >> /\ ~Open(Home(k))) => Spoilt'
  <1>1. PICK inst : MadeFrom(inst, k) /\ code' = [code EXCEPT ![Home(k)] = @ \o (<<inst>> \o Rest)]
    BY DEF Grows
  <1>2. PICK S : \A b \in DOMAIN code : code[b] \in Seq(S)
    BY DEF Typed
  <1> DEFINE h == Home(k)
  <1>3. /\ DOMAIN code' = DOMAIN code /\ \A b \in DOMAIN code : code'[b] \in Seq(S \cup {inst, Jump(k)})
        /\ \A b \in DOMAIN code : b # h => code'[b] = code[b]
        /\ h \in DOMAIN code =>
             /\ Len(code[h]) \in Nat /\ DOMAIN code[h] = 1 .. Len(code[h])
             /\ \A n \in DOMAIN code[h] : n \in DOMAIN code'[h] /\ code'[h][n] = code[h][n]
             /\ Len(code'[h]) = Len(code[h]) + 1 \/ Len(code'[h]) = Len(code[h]) + 2
    BY <1>1, <1>2, GrowthFacts
  <1>4. Typed'
    BY <1>3 DEF Typed
  <1> HIDE DEF h
  <1>5. ASSUME NEW b \in DOMAIN code, NEW n \in DOMAIN code[b], code[b][n].op \in Terminators,
               n # Len(code[b]) \/ b = h
        PROVE  Spoilt'
    <2>1. CASE b = h
      <3>1. n \in DOMAIN code'[b] /\ code'[b][n] = code[b][n] /\ n # Len(code'[b])
        BY <1>3, <2>1
      <3> QED
        BY <1>3, <1>5, <3>1 DEF Spoilt
    <2>2. CASE b # h
      BY <1>3, <1>5, <2>2 DEF Spoilt
    <2> QED
      BY <2>1, <2>2
  <1>6. Spoilt => Spoilt'
    BY <1>5 DEF Spoilt
  <1>7. ASSUME h \in DOMAIN code, code[h] # << >>, ~Open(h) PROVE Spoilt'
    <2>1. code[h] \in Seq(S)
      BY <1>2, <1>7
    <2>2. Len(code[h]) \in DOMAIN code[h]
      BY <1>7, <2>1
    <2>3. code[h][Len(code[h])].op \in Terminators
      BY <1>7 DEF Open, Ending
    <2> QED
      BY <1>5, <1>7, <2>2, <2>3
  <1> QED
    BY <1>4, <1>6, <1>7 DEF h

LEMMA FromFacts ==
  ASSUME NEW inst, NEW m, MadeFrom(inst, m)
  PROVE  /\ inst.op \in Terminators <=> ~Plain(trace[m].i)
         /\ inst.ip = trace[m].ip
  <1>1. trace[m].i.op \in Compilable /\ Sources(inst, m) /\ inst.ip = trace[m].ip
    BY DEF MadeFrom
  <1> QED
    BY <1>1 DEF Sources, Constant, NativeOp, Plain, Compilable, Terminators

\* The lists of instructions grow as they should, unless one goes on after its end.
LEMMA GrowsLaid ==
  ASSUME Traces, Blocked, Prepared, phase = "emit", k \in DOMAIN trace, Laid, Advance, Grows,
         code[Home(k)] = << >> \/ Open(Home(k))
  PROVE  Laid'
  <1>1. PICK inst : MadeFrom(inst, k) /\ code' = [code EXCEPT ![Home(k)] = @ \o (<<inst>> \o Rest)]
    BY DEF Grows
  <1>2. PICK S : \A b \in DOMAIN code : code[b] \in Seq(S)
    BY DEF Prepared, Typed, Emitting
  <1> DEFINE h == Home(k)
             len == Len(code[h])
  <1>3. h \in DOMAIN code /\ h[2] \in Range(blocks) /\ h[2] \in Nat /\ h[2] <= trace[k].ip
    BY HomeFacts DEF Laid, Full
  <1>4. /\ DOMAIN code' = DOMAIN code /\ \A b \in DOMAIN code : code'[b] \in Seq(S \cup {inst, Jump(k)})
        /\ \A b \in DOMAIN code : b # h => code'[b] = code[b]
        /\ Rest = << >> \/ (Rest = <<Jump(k)>> /\ Rest # << >> /\ Plain(Cur.i) /\ Crossing(k))
        /\ len \in Nat /\ DOMAIN code[h] = 1 .. len
        /\ \A n \in DOMAIN code[h] : n \in DOMAIN code'[h] /\ code'[h][n] = code[h][n]
        /\ len + 1 \in DOMAIN code'[h] /\ code'[h][len + 1] = inst
        /\ Rest = << >> => Len(code'[h]) = len + 1
        /\ Rest # << >> => /\ Len(code'[h]) = len + 2
                           /\ len + 2 \in DOMAIN code'[h]
                           /\ code'[h][len + 2] = Jump(k)
        /\ \A n \in DOMAIN code'[h] : n \in DOMAIN code[h] \/ n = len + 1 \/ (n = len + 2 /\ Rest # << >>)
    <2>1. /\ DOMAIN code' = DOMAIN code /\ \A b \in DOMAIN code : code'[b] \in Seq(S \cup {inst, Jump(k)})
          /\ \A b \in DOMAIN code : b # h => code'[b] = code[b]
          /\ Rest = << >> \/ (Rest = <<Jump(k)>> /\ Rest # << >> /\ Plain(Cur.i) /\ Crossing(k))
      BY <1>1, <1>2, GrowthFacts
    <2>2. /\ len \in Nat /\ DOMAIN code[h] = 1 .. len
          /\ \A n \in DOMAIN code[h] : n \in DOMAIN code'[h] /\ code'[h][n] = code[h][n]
          /\ len + 1 \in DOMAIN code'[h] /\ code'[h][len + 1] = inst
          /\ Rest = << >> => Len(code'[h]) = len + 1
          /\ Rest # << >> => /\ Len(code'[h]) = len + 2
                             /\ len + 2 \in DOMAIN code'[h]
                             /\ code'[h][len + 2] = Jump(k)
          /\ \A n \in DOMAIN code'[h] : n \in DOMAIN code[h] \/ n = len + 1 \/ (n = len + 2 /\ Rest # << >>)
      BY <1>1, <1>2, <1>3, GrowthFacts
    <2> QED
      BY <2>1, <2>2
  <1>5. /\ UNCHANGED <<trace, blocks, constant_regs>> /\ k' = k + 1 /\ k \in Nat \ {0}
        /\ Cur = trace[k] /\ trace[k].ip \in Nat /\ trace \in Seq(Items)
        /\ inst.ip = trace[k].ip /\ (inst.op \in Terminators <=> ~Plain(trace[k].i))
    BY <1>1, ItemFacts, FromFacts DEF Advance, Prepared, Cur, Traces
  <1>6. /\ \A m : Home(m)' = Home(m) /\ Jump(m)' = Jump(m) /\ Crossing(m)' = Crossing(m)
        /\ \A x, m : MadeFrom(x, m)' <=> MadeFrom(x, m)
    BY <1>5, StillFacts
  <1>7. \A m \in DOMAIN trace : m \in Nat /\ trace[m].ip \in Nat
    BY ItemFacts
  <1>8. \A m, n \in DOMAIN trace : /\ m < n <=> trace[m].ip < trace[n].ip
                                   /\ trace[m].ip = trace[n].ip => m = n
    <2>1. \A m, n \in DOMAIN trace : m < n => trace[m].ip < trace[n].ip
      BY DEF Traces, Early
    <2>2. \A m, n \in DOMAIN trace : trace[m].ip = trace[n].ip => m = n
      BY DEF Traces
    <2>3. \A m, n \in DOMAIN trace : m < n \/ m = n \/ n < m
      BY <1>7
    <2> QED
      BY <1>7, <2>1, <2>2, <2>3
  \* What the block held ended with the item before this one.
  <1>9. ASSUME code[h] # << >>
        PROVE  /\ k - 1 \in DOMAIN trace /\ Plain(trace[k - 1].i) /\ code[h][len].ip = trace[k - 1].ip
               /\ len \in DOMAIN code[h] /\ code[h][len].op \notin Terminators
    <2>1. Open(h) /\ len \in DOMAIN code[h]
      BY <1>4, <1>9
    <2>2. code[h][len].op \notin Terminators /\ k # 1 /\ code[h][len].ip = trace[k - 1].ip
      BY <1>3, <2>1 DEF Laid, Open, Ending
    <2>3. k - 1 \in DOMAIN trace
      <3>1. k \in 1 .. Len(trace) /\ Len(trace) \in Nat /\ DOMAIN trace = 1 .. Len(trace)
        BY <1>5, ItemFacts
      <3> QED
        BY <2>2, <3>1
    <2>4. PICK m \in DOMAIN trace :
            \/ MadeFrom(code[h][len], m)
            \/ code[h][len] = Jump(m)
      BY <1>3, <2>1 DEF Laid, Comes
    <2>5. Jump(m).op \in Terminators
      BY DEF Jump, Br, Terminators
    <2>6. code[h][len].ip = trace[m].ip /\ Plain(trace[m].i)
      BY <2>2, <2>4, <2>5, FromFacts
    <2>7. m = k - 1
      BY <1>8, <2>2, <2>3, <2>6
    <2> QED
      BY <2>1, <2>2, <2>3, <2>6, <2>7
  <1>10. ASSUME NEW b \in DOMAIN code', NEW n \in DOMAIN code'[b] PROVE Comes(b, n)'
    <2>1. CASE b # h
      <3>1. code'[b] = code[b] /\ b \in DOMAIN code
        BY <1>4, <2>1
      <3>2. PICK m \in DOMAIN trace :
              /\ m < k /\ Home(m) = b
              /\ MadeFrom(code[b][n], m) \/ (n # 1 /\ n = Len(code[b]) /\ Crossing(m) /\ code[b][n] = Jump(m))
        BY <3>1 DEF Laid, Comes
      <3>3. m < k + 1
        BY <1>5, <1>7, <3>2
      <3> QED
        BY <1>5, <1>6, <3>1, <3>2, <3>3 DEF Comes
    <2>2. CASE b = h /\ n \in DOMAIN code[h]
      <3>1. PICK m \in DOMAIN trace :
              /\ m < k /\ Home(m) = b
              /\ MadeFrom(code[b][n], m) \/ (n # 1 /\ n = Len(code[b]) /\ Crossing(m) /\ code[b][n] = Jump(m))
        BY <1>4, <2>2 DEF Laid, Comes
      <3>2. MadeFrom(code[b][n], m)
        <4>1. CASE n = len /\ code[b][n] = Jump(m)
          <5>1. code[h] # << >> /\ code[h][len] = Jump(m)
            BY <1>4, <2>2, <4>1
          <5>2. Jump(m).op \in Terminators
            BY DEF Jump, Br, Terminators
          <5> QED
            BY <1>9, <5>1, <5>2
        <4> QED
          BY <2>2, <3>1, <4>1
      <3>3. m < k + 1 /\ code'[b][n] = code[b][n]
        BY <1>4, <1>5, <1>7, <2>2, <3>1
      <3> QED
        BY <1>5, <1>6, <3>1, <3>2, <3>3 DEF Comes
    <2>3. CASE b = h /\ n = len + 1
      <3>1. k < k + 1 /\ code'[b][n] = inst /\ Home(k) = b
        BY <1>4, <1>5, <2>3
      <3> QED
        BY <1>1, <1>5, <1>6, <3>1 DEF Comes
    <2>4. CASE b = h /\ n = len + 2 /\ Rest # << >>
      <3>1. k < k + 1 /\ code'[b][n] = Jump(k) /\ Home(k) = b /\ Crossing(k) /\ n # 1 /\ n = Len(code'[b])
        BY <1>4, <1>5, <2>4
      <3> QED
        BY <1>5, <1>6, <3>1 DEF Comes
    <2> QED
      BY <1>4, <2>1, <2>2, <2>3, <2>4
  \* The first instruction of a block is that of the item at its address.
  <1>11. ASSUME NEW b \in DOMAIN code', code'[b] # << >> PROVE code'[b][1].ip = b[2]
    <2>1. CASE b # h
      BY <1>4, <1>11, <2>1 DEF Laid
    <2>2. CASE b = h /\ code[h] # << >>
      <3>1. 1 \in DOMAIN code[h]
        BY <1>4, <1>9, <2>2
      <3> QED
        BY <1>3, <1>4, <2>2, <3>1 DEF Laid
    <2>3. CASE b = h /\ code[h] = << >>
      <3>1. len = 0
        BY <2>3
      <3>2. code'[h][1] = inst
        BY <1>4, <3>1
      <3>3. PICK j \in DOMAIN trace : trace[j].ip = h[2] /\ Home(j) = <<"block", h[2]>>
        BY <1>3, BlockFacts DEF Full
      <3>4. Home(j) = h
        BY <1>3, <3>3, HomeFacts DEF Full
      <3>5. ~(j < k)
        BY <2>3, <3>4 DEF Laid
      <3>6. j = k
        BY <1>3, <1>5, <1>7, <1>8, <3>3, <3>5
      <3> QED
        BY <1>5, <2>3, <3>2, <3>3, <3>6
    <2> QED
      BY <2>1, <2>2, <2>3
  <1>12. ASSUME NEW b \in DOMAIN code', NEW n \in DOMAIN code'[b], n # Len(code'[b]) PROVE Follows(b, n)'
    <2>1. ASSUME NEW m \in DOMAIN trace, m < k + 1, Plain(trace[m].i), m + 1 \in DOMAIN trace,
                 code'[b][n].ip = trace[m].ip, code'[b][n + 1].ip = trace[m + 1].ip
          PROVE  Follows(b, n)'
      BY <1>5, <2>1 DEF Follows
    <2>2. CASE b # h
      <3>1. code'[b] = code[b] /\ b \in DOMAIN code
        BY <1>4, <2>2
      <3>2. PICK m \in DOMAIN trace :
              /\ m < k /\ Plain(trace[m].i) /\ m + 1 \in DOMAIN trace
              /\ code[b][n].ip = trace[m].ip /\ code[b][n + 1].ip = trace[m + 1].ip
        BY <1>12, <3>1 DEF Laid, Follows
      <3>3. m < k + 1
        BY <1>5, <1>7, <3>2
      <3> QED
        BY <2>1, <3>1, <3>2, <3>3
    <2>3. CASE b = h /\ n \in DOMAIN code[h] /\ n # len
      <3>1. PICK m \in DOMAIN trace :
              /\ m < k /\ Plain(trace[m].i) /\ m + 1 \in DOMAIN trace
              /\ code[b][n].ip = trace[m].ip /\ code[b][n + 1].ip = trace[m + 1].ip
        BY <1>3, <2>3 DEF Laid, Follows
      <3>2. m < k + 1
        BY <1>5, <1>7, <3>1
      <3>3. n + 1 \in DOMAIN code[h]
        BY <1>4, <2>3
      <3> QED
        BY <1>4, <2>1, <2>3, <3>1, <3>2, <3>3
    <2>4. CASE b = h /\ n \in DOMAIN code[h] /\ n = len
      <3>1. code[h] # << >>
        BY <1>4, <2>4
      <3>2. /\ k - 1 \in DOMAIN trace /\ Plain(trace[k - 1].i) /\ code[h][len].ip = trace[k - 1].ip
            /\ k - 1 < k + 1 /\ (k - 1) + 1 = k
        BY <1>5, <1>9, <3>1
      <3> QED
        BY <1>4, <1>5, <2>1, <2>4, <3>2
    <2>5. CASE b = h /\ n = len + 1
      <3>1. Rest # << >>
        BY <1>4, <1>12, <2>5
      <3>2. Crossing(k) /\ Plain(trace[k].i)
        BY <1>4, <1>5, <3>1
      <3>3. k + 1 \in DOMAIN trace /\ k < k + 1
        BY <1>5, <3>2 DEF Crossing
      <3>4. n + 1 = len + 2 /\ Jump(k).ip = trace[k + 1].ip
        BY <1>4, <2>5 DEF Jump, Br
      <3>5. code'[b][n] = inst /\ code'[b][n + 1] = Jump(k)
        BY <1>4, <2>5, <3>1, <3>4
      <3> QED
        BY <1>5, <2>1, <3>2, <3>3, <3>4, <3>5
    <2>6. CASE b = h /\ n = len + 2 /\ Rest # << >>
      BY <1>4, <1>12, <2>6
    <2> QED
      BY <1>4, <2>2, <2>3, <2>4, <2>5, <2>6
  <1>13. ASSUME NEW m \in DOMAIN trace, m < k + 1 PROVE code'[Home(m)] # << >>
    <2>1. CASE Home(m) = h
      BY <1>4, <2>1
    <2>2. CASE Home(m) # h
      <3>1. m < k
        BY <1>5, <1>7, <1>13, <2>2
      <3>2. Home(m) \in DOMAIN code
        BY HomeFacts DEF Laid, Full
      <3> QED
        BY <1>4, <2>2, <3>1, <3>2 DEF Laid
    <2> QED
      BY <2>1, <2>2
  \* Only the block of this item may go on.
  <1>14. /\ code'[h] # << >> /\ Len(code'[h]) \in DOMAIN code'[h]
         /\ code'[h][Len(code'[h])] = IF Rest = << >> THEN inst ELSE Jump(k)
    BY <1>4
  <1>15. code'[h][Len(code'[h])].op \notin Terminators <=> Rest = << >> /\ Plain(trace[k].i)
    <2>1. Jump(k).op \in Terminators
      BY DEF Jump, Br, Terminators
    <2>2. inst.op \in Terminators <=> ~Plain(trace[k].i)
      BY <1>5
    <2> HIDE DEF h
    <2> QED
      BY <1>14, <2>1, <2>2
  <1>r. Rest = << >> /\ Plain(trace[k].i) /\ k + 1 \in DOMAIN trace => Home(k + 1) = h
    BY <1>5 DEF Rest, Crossing
  <1>s. /\ (k + 1) - 1 = k /\ k + 1 # 1 /\ inst.ip = trace[k].ip /\ k \in Nat
        /\ Home(k + 1) = h => Rest = << >> \/ ~Crossing(k)
    BY <1>4, <1>5 DEF Crossing
  <1>16. ASSUME NEW b \in DOMAIN code', code'[b] # << >>, code'[b][Len(code'[b])].op \notin Terminators
         PROVE  /\ k + 1 # 1 /\ code'[b][Len(code'[b])].ip = trace[(k + 1) - 1].ip
                /\ k + 1 \in DOMAIN trace => Home(k + 1) = b
    <2>1. CASE b # h
      <3>1. code'[b] = code[b] /\ b \in DOMAIN code
        BY <1>4, <2>1
      <3>2. Open(b)
        BY <1>16, <3>1 DEF Open, Ending
      <3>3. Home(k) = b
        BY <3>1, <3>2 DEF Laid
      <3> QED
        BY <2>1, <3>3
    <2>2. CASE b = h
      <3>1. Rest = << >> /\ Plain(trace[k].i)
        BY <1>15, <1>16, <2>2
      <3>2. code'[b][Len(code'[b])] = inst
        BY <1>14, <2>2, <3>1
      <3> QED
        BY <1>r, <1>s, <2>2, <3>1, <3>2
    <2> QED
      BY <2>1, <2>2
  <1>17. ASSUME k + 1 \in DOMAIN trace, Plain(trace[(k + 1) - 1].i), Home((k + 1) - 1) = Home(k + 1)
         PROVE  code'[Home(k + 1)] # << >> /\ code'[Home(k + 1)][Len(code'[Home(k + 1)])].op \notin Terminators
    <2>1. (k + 1) - 1 = k
      BY <1>s
    <2>2. Home(k + 1) = h /\ Plain(trace[k].i)
      BY <1>17, <2>1
    <2>3. Rest = << >>
      BY <2>2 DEF Rest, Crossing
    <2>4. code'[h] # << >> /\ code'[h][Len(code'[h])].op \notin Terminators
      BY <1>14, <1>15, <2>2, <2>3
    <2> QED
      BY <2>2, <2>4
  <1> HIDE DEF h, len
  <1>18. Laid'
    <2>1. DOMAIN code' = {"block"} \X Range(blocks')
      BY <1>4, <1>5 DEF Laid
    <2>2. \A b \in DOMAIN code' : Open(b)' => /\ k' # 1 /\ Ending(b)'.ip = trace'[k' - 1].ip
                                              /\ k' \in DOMAIN trace' => Home(k)' = b
      <3>1. Home(k)' = Home(k + 1)
        BY <1>5, <1>6 DEF Home, Block, CurrentBlock
      <3> QED
        BY <1>5, <1>16, <3>1 DEF Open, Ending
    <2> QED
      BY <1>4, <1>5, <1>6, <1>10, <1>11, <1>12, <1>13, <1>17, <2>1, <2>2 DEF Laid, Open, Ending
  <1> QED
    BY <1>18

\* Code that stays as it is stays as good as it is.
LEMMA StillLaid ==
  ASSUME UNCHANGED <<trace, blocks, constant_regs, values, k, code>>
  PROVE  /\ Valued' <=> Valued
         /\ Typed' <=> Typed
         /\ Spoilt' <=> Spoilt
         /\ Laid' <=> Laid
         /\ WellFormed' <=> WellFormed
  <1>1. /\ \A m : Home(m)' = Home(m) /\ Jump(m)' = Jump(m) /\ Crossing(m)' = Crossing(m)
        /\ \A r : Writers(r)' = Writers(r)
        /\ \A inst, m : MadeFrom(inst, m)' <=> MadeFrom(inst, m)
    BY StillFacts
  <1>2. Valued' <=> Valued
    BY <1>1 DEF Valued
  <1>3. (Typed' <=> Typed) /\ (Spoilt' <=> Spoilt) /\ (WellFormed' <=> WellFormed)
    BY DEF Typed, Spoilt, WellFormed
  <1>4. \A b, n : (Comes(b, n)' <=> Comes(b, n)) /\ (Follows(b, n)' <=> Follows(b, n))
    BY <1>1 DEF Comes, Follows
  <1>5. \A b : (Open(b)' <=> Open(b)) /\ Ending(b)' = Ending(b)
    BY DEF Open, Ending
  <1>6. (Open(Home(k))' <=> Open(Home(k))) /\ Home(k)' = Home(k) /\ Home(k - 1)' = Home(k - 1)
    BY DEF Open, Ending, Home, Block, CurrentBlock
  <1>7. Laid' <=> Laid
    BY <1>1, <1>4, <1>5, <1>6 DEF Laid
  <1> QED
    BY <1>2, <1>3, <1>7

\* The blocks are empty when code emission begins.
LEMMA IdentifyLocalsStep ==
  ASSUME Traces, Blocked, Prepared, IdentifyLocals
  PROVE  Prepared' /\ (phase' = "emit" => Laid')
  <1>1. k \in Nat \ {0} /\ k <= Len(trace) + 1 /\ k = 1 /\ DOMAIN values = Reg /\ constant_regs \subseteq Reg
    BY DEF IdentifyLocals, Prepared, Emitting
  <1>2. constant_regs = {r \in Reg : Cardinality(Writers(r)) < 2}
    BY DEF IdentifyLocals, Prepared
  <1>3. CASE Abort
    BY <1>1, <1>3 DEF Abort, compiled, Prepared, Emitting
  <1>4. CASE ~Abort
    <2>1. /\ phase' = "emit" /\ UNCHANGED <<trace, blocks, constant_regs, values, k>>
          /\ code' = [b \in {"block"} \X Range(blocks) |-> << >>]
      BY <1>4 DEF IdentifyLocals
    <2>2. /\ \A r : Writers(r)' = Writers(r)
      BY <2>1, StillFacts
    <2>3. constant_regs' = {r \in Reg : Cardinality(Writers(r)') < 2}
      BY <1>2, <2>1, <2>2
    <2>4. \A r : \A n \in Writers(r) : n \in DOMAIN trace
      BY DEF Writers
    <2>5. \A r : \A n \in Writers(r) : ~(n < k)
      <3>1. \A n \in DOMAIN trace : n \in Nat \ {0}
        BY ItemFacts
      <3> QED
        BY <1>1, <2>4, <3>1
    <2>6. Valued'
      BY <2>1, <2>2, <2>5 DEF Valued
    <2>7. \A b \in DOMAIN code' : code'[b] = << >>
      BY <2>1
    <2>8. Typed'
      <3>1. << >> \in Seq({})
        OBVIOUS
      <3>2. \A b \in DOMAIN code' : code'[b] \in Seq({})
        BY <2>7, <3>1, Zenon
      <3> QED
        BY <3>2 DEF Typed
    <2>9. Laid'
      <3>1. DOMAIN code' = {"block"} \X Range(blocks')
        BY <2>1
      <3>2. \A b \in DOMAIN code' : DOMAIN code'[b] = {} /\ code'[b] = << >>
        BY <2>7
      <3>3. \A m \in DOMAIN trace' : ~(m < k')
        <4>1. \A n \in DOMAIN trace : n \in Nat \ {0}
          BY ItemFacts
        <4> QED
          BY <1>1, <2>1, <4>1
      <3>4. k' = 1
        BY <1>1, <2>1
      <3> QED
        BY <3>1, <3>2, <3>3, <3>4 DEF Laid, Open
    <2> QED
      BY <1>1, <2>1, <2>3, <2>6, <2>8, <2>9 DEF Prepared, Emitting
  <1> QED
    BY <1>3, <1>4

\* An item is emitted.
LEMMA EmitStep ==
  ASSUME Traces, Blocked, Prepared,
         \/ EmitMove \/ EmitCompare \/ EmitArraySet \/ EmitConstant \/ EmitAdd \/ EmitSetLocal
         \/ EmitGoto \/ EmitIf \/ EmitReturn \/ EmitUnknown
  PROVE  Prepared'
  <1>1. CASE Abort
    BY <1>1 DEF Abort, compiled, Prepared, Emitting
  <1>2. ASSUME ~Abort
        PROVE  /\ phase = "emit" /\ k \in DOMAIN trace /\ Advance /\ Stores
               /\ Typed' /\ (Spoilt' \/ Laid')
    <2>1. CASE EmitIf
      <3>1. /\ phase = "emit" /\ k \in DOMAIN trace /\ Advance /\ Stores
            /\ Typed' /\ (Spoilt => Spoilt')
            /\ Laid => (BothIn => Grows) /\ (~BothIn => Spoilt')
        BY <1>2, <2>1, IfEffect
      <3>2. ASSUME Laid, Grows PROVE Laid' \/ Spoilt'
        <4>1. Home(k) \in DOMAIN code
          BY <3>1, <3>2, HomeFacts DEF Laid, Full
        <4>2. Typed
          BY <3>1 DEF Prepared, Emitting
        <4> QED
          BY <3>1, <3>2, <4>1, <4>2, GrowsSpoilt, GrowsLaid
      <3>3. Spoilt \/ Laid
        BY <3>1 DEF Prepared, Emitting
      <3> QED
        BY <3>1, <3>2, <3>3
    <2>2. CASE ~EmitIf
      <3>1. phase = "emit" /\ k \in DOMAIN trace /\ Advance /\ Grows /\ Stores
        BY <1>2, <2>2, EmissionEffect
      <3>2. Typed /\ (Spoilt \/ Laid)
        BY <3>1 DEF Prepared, Emitting
      <3>3. /\ Typed' /\ (Spoilt => Spoilt')
            /\ (Home(k) \in DOMAIN code /\ code[Home(k)] # << >> /\ ~Open(Home(k))) => Spoilt'
        BY <3>1, <3>2, GrowsSpoilt
      <3>4. Laid => Home(k) \in DOMAIN code
        BY <3>1, HomeFacts DEF Laid, Full
      <3> QED
        BY <3>1, <3>2, <3>3, <3>4, GrowsLaid
    <2> QED
      BY <2>1, <2>2
  <1>3. ASSUME ~Abort PROVE Prepared'
    <2>1. k' = k + 1 /\ phase' = "emit" /\ UNCHANGED <<trace, blocks, constant_regs>>
      BY <1>2, <1>3 DEF Advance
    <2>2. k \in 1 .. Len(trace) /\ Len(trace) \in Nat
      BY <1>2, <1>3, ItemFacts
    <2>3. k' \in Nat \ {0} /\ k' <= Len(trace') + 1
      BY <2>1, <2>2
    <2>4. Valued' /\ DOMAIN values' = Reg
      <3>1. Valued
        BY <1>2, <1>3 DEF Prepared, Emitting
      <3> QED
        BY <1>2, <1>3, <3>1, ValuedStep
    <2>5. \A r : Writers(r)' = Writers(r)
      BY <2>1, StillFacts
    <2>6. constant_regs = {r \in Reg : Cardinality(Writers(r)) < 2}
      BY <1>2, <1>3 DEF Prepared, Emitting
    <2>7. constant_regs' = {r \in Reg : Cardinality(Writers(r)') < 2} /\ constant_regs' \subseteq Reg
      BY <2>1, <2>5, <2>6
    <2> QED
      BY <1>2, <1>3, <2>1, <2>3, <2>4, <2>7 DEF Prepared, Emitting
  <1> QED
    BY <1>1, <1>3

\* The steps that leave the code as it is.
Resting ==
  /\ UNCHANGED <<values, k, code>>
  /\ \/ /\ phase \in Early \cup {"blocks"} /\ UNCHANGED constant_regs
        /\ phase' \in Early \cup {"blocks", "registers"}
     \/ phase' = "aborted" /\ UNCHANGED <<trace, constant_regs>>
     \/ /\ phase = "registers" /\ phase' = "locals" /\ UNCHANGED trace
        /\ constant_regs' = {r \in Reg : Cardinality(Writers(r)) < 2}
     \/ /\ UNCHANGED <<trace, blocks, constant_regs>>
        /\ \/ phase = "emit" /\ phase' = "compiled" /\ k > Len(trace) /\ WellFormed
           \/ phase \in {"compiled", "running"} /\ phase' \in {"compiled", "running", "crashed"}

LEMMA RestingSteps ==
  ASSUME \/ Record \/ Abandon \/ Sort \/ IdentifyBlocks \/ IdentifyRegisters \/ Verify
         \/ Run \/ RunPlain \/ RunArraySet \/ RunSetLocal \/ RunBranch \/ RunReturn \/ RunFaults
  PROVE  Resting
  <1>1. Record \/ Abandon \/ Sort => Resting
    BY DEF Record, Abandon, Sort, Resting, compiled, Early
  <1>2. IdentifyBlocks \/ IdentifyRegisters \/ Verify => Resting
    BY DEF IdentifyBlocks, IdentifyRegisters, Verify, Abort, Resting, compiled, Early
  <1>3. Run \/ RunPlain \/ RunArraySet \/ RunSetLocal \/ RunBranch \/ RunReturn \/ RunFaults => Resting
    BY DEF Run, RunPlain, RunArraySet, RunSetLocal, RunBranch, RunReturn, RunFaults, Executes,
           Resting, compiled
  <1> QED
    BY <1>1, <1>2, <1>3

LEMMA RestingPrepared ==
  ASSUME Traces, Traces', Prepared, Resting
  PROVE  Prepared'
  <1>1. /\ k \in Nat \ {0} /\ k <= Len(trace) + 1 /\ DOMAIN values = Reg /\ constant_regs \subseteq Reg
        /\ UNCHANGED <<values, k, code>>
    BY DEF Prepared, Resting
  <1>2. CASE phase \in Early \cup {"blocks"} /\ UNCHANGED constant_regs /\ phase' \in Early \cup {"blocks", "registers"}
    <2>1. k = 1
      BY <1>2 DEF Prepared, Emitting, Early
    <2>2. Len(trace') \in Nat
      <3>1. trace' \in Seq(Items)
        BY DEF Traces
      <3> QED
        BY <3>1
    <2> QED
      BY <1>1, <1>2, <2>1, <2>2 DEF Prepared, Emitting, Early
  <1>3. CASE phase' = "aborted" /\ UNCHANGED <<trace, constant_regs>>
    BY <1>1, <1>3 DEF Prepared, Emitting
  <1>4. CASE /\ phase = "registers" /\ phase' = "locals" /\ UNCHANGED trace
             /\ constant_regs' = {r \in Reg : Cardinality(Writers(r)) < 2}
    <2>1. \A r : Writers(r)' = Writers(r)
      BY <1>4 DEF Writers
    <2>2. constant_regs' = {r \in Reg : Cardinality(Writers(r)') < 2} /\ constant_regs' \subseteq Reg
      BY <1>4, <2>1
    <2>3. k = 1
      BY <1>4 DEF Prepared, Emitting
    <2> QED
      BY <1>1, <1>4, <2>2, <2>3 DEF Prepared, Emitting
  <1>5. CASE /\ UNCHANGED <<trace, blocks, constant_regs>>
             /\ \/ phase = "emit" /\ phase' = "compiled" /\ k > Len(trace) /\ WellFormed
                \/ phase \in {"compiled", "running"} /\ phase' \in {"compiled", "running", "crashed"}
    <2>1. UNCHANGED <<trace, blocks, constant_regs, values, k, code>>
      BY <1>1, <1>5
    <2>2. Valued /\ Typed /\ (Spoilt \/ Laid) /\ constant_regs = {r \in Reg : Cardinality(Writers(r)) < 2}
      BY <1>5 DEF Prepared, Emitting
    <2>3. k = Len(trace) + 1 /\ WellFormed
      <3>1. trace \in Seq(Items)
        BY DEF Traces
      <3>2. Len(trace) \in Nat
        BY <3>1
      <3> QED
        BY <1>1, <1>5, <3>2 DEF Prepared
    <2>4. Valued' /\ Typed' /\ (Spoilt' \/ Laid') /\ WellFormed'
      BY <2>1, <2>2, <2>3, StillLaid
    <2>5. \A r : Writers(r)' = Writers(r)
      BY <2>1, StillFacts
    <2>6. constant_regs' = {r \in Reg : Cardinality(Writers(r)') < 2}
      BY <2>1, <2>2, <2>5
    <2> QED
      BY <1>1, <1>5, <2>1, <2>3, <2>4, <2>6 DEF Prepared, Emitting
  <1> QED
    BY <1>2, <1>3, <1>4, <1>5 DEF Resting

\* hvm_jit_compile_pass_emit: the blocks are laid out in the order of the items, or one
\* goes on after its terminator; code LLVM has verified is laid out.
THEOREM PreparedInvariant == Spec => []Prepared
  <1>1. Init => Prepared
    BY DEF Init, Prepared, Emitting
  <1>2. ASSUME Traces, Traces', Blocked, Prepared, [Next]_vars PROVE Prepared'
    <2>1. CASE IdentifyLocals
      BY <1>2, <2>1, IdentifyLocalsStep
    <2>2. CASE \/ EmitMove \/ EmitCompare \/ EmitArraySet \/ EmitConstant \/ EmitAdd \/ EmitSetLocal
               \/ EmitGoto \/ EmitIf \/ EmitReturn \/ EmitUnknown
      BY <1>2, <2>2, EmitStep
    <2>3. CASE \/ Record \/ Abandon \/ Sort \/ IdentifyBlocks \/ IdentifyRegisters \/ Verify
               \/ Run \/ RunPlain \/ RunArraySet \/ RunSetLocal \/ RunBranch \/ RunReturn \/ RunFaults
      BY <1>2, <2>3, RestingSteps, RestingPrepared
    <2>4. CASE vars' = vars
      <3>1. UNCHANGED <<trace, blocks, constant_regs, values, k, code, phase>>
        BY <2>4 DEF vars, compiled
      <3>2. \A r : Writers(r)' = Writers(r)
        BY <3>1, StillFacts
      <3>3. {r \in Reg : Cardinality(Writers(r)') < 2} = {r \in Reg : Cardinality(Writers(r)) < 2}
        BY <3>2
      <3> QED
        BY <1>2, <3>1, <3>3, StillLaid DEF Prepared
    <2> QED
      BY <1>2, <2>1, <2>2, <2>3, <2>4 DEF Next
  <1> QED
    BY <1>1, <1>2, TracesInvariant, BlockedInvariant, PTL DEF Spec

--------------------------------------------------------------------------------
(* Closed traces *)

Good == Linked /\ BothSides /\ \A n \in DOMAIN trace : Translatable(n)
Compiles == Good => phase # "aborted" /\ (phase = "emit" => Laid)

\* The items are in the order of their addresses.
LEMMA OrderFacts ==
  ASSUME Traces, phase \notin Early
  PROVE  /\ \A m, n \in DOMAIN trace : m < n <=> trace[m].ip < trace[n].ip
         /\ \A m, n \in DOMAIN trace : trace[m].ip = trace[n].ip => m = n
         /\ \A n \in DOMAIN trace : n \in Nat /\ trace[n].ip \in Nat /\ trace[1].ip <= trace[n].ip
         /\ 1 \in DOMAIN trace /\ DOMAIN trace = 1 .. Len(trace) /\ Len(trace) \in Nat
         /\ Min(Ips) = trace[1].ip /\ \A ip : ip \in Ips <=> InTrace(ip)
  <1>1. \A n \in DOMAIN trace : n \in Nat /\ trace[n].ip \in Nat
    BY ItemFacts
  <1>2. \A m, n \in DOMAIN trace : m < n => trace[m].ip < trace[n].ip
    BY DEF Traces
  <1>3. \A m, n \in DOMAIN trace : trace[m].ip = trace[n].ip => m = n
    BY DEF Traces
  <1>4. \A m, n \in DOMAIN trace : m < n <=> trace[m].ip < trace[n].ip
    <2>1. \A m, n \in DOMAIN trace : m < n \/ m = n \/ n < m
      BY <1>1
    <2> QED
      BY <1>1, <1>2, <2>1
  <1>5. trace \in Seq(Items) /\ trace # << >>
    BY DEF Traces, Early
  <1>6. 1 \in DOMAIN trace /\ DOMAIN trace = 1 .. Len(trace) /\ Len(trace) \in Nat
    BY <1>5
  <1>7. \A ip : ip \in Ips <=> InTrace(ip)
    BY DEF Ips, InTrace, At
  <1>8. \A n \in DOMAIN trace : trace[1].ip <= trace[n].ip
    BY LowestFacts, ItemFacts
  <1>9. Min(Ips) = trace[1].ip
    <2>1. Ips \in SUBSET Nat /\ trace[1].ip \in Ips
      BY <1>1, <1>6 DEF Ips
    <2>2. Min(Ips) \in Ips /\ Min(Ips) <= trace[1].ip
      BY <2>1, MinFacts
    <2>3. trace[1].ip <= Min(Ips)
      BY <1>7, <2>2, LowestFacts
    <2>4. Min(Ips) \in Nat /\ trace[1].ip \in Nat
      BY <2>1, <2>2
    <2> QED
      BY <2>2, <2>3, <2>4
  <1> QED
    BY <1>1, <1>3, <1>4, <1>6, <1>7, <1>8, <1>9

\* Where a branch leads to begins a block: nothing further up is in it.
LEMMA BeginsEmpty ==
  ASSUME Traces, Blocked, Prepared, phase = "emit", k \in DOMAIN trace, Laid, Home(k)[2] = trace[k].ip
  PROVE  code[Home(k)] = << >>
  <1> SUFFICES ASSUME code[Home(k)] # << >> PROVE FALSE
    OBVIOUS
  <1>1. Home(k) \in DOMAIN code
    BY HomeFacts DEF Laid, Full
  <1>2. PICK S : code[Home(k)] \in Seq(S)
    BY <1>1 DEF Prepared, Typed, Emitting
  <1>3. 1 \in DOMAIN code[Home(k)]
    BY <1>2
  <1>4. PICK m \in DOMAIN trace : m < k /\ Home(m) = Home(k)
    BY <1>1, <1>3 DEF Laid, Comes
  <1>5. trace[m].ip < trace[k].ip /\ trace[m].ip \in Nat /\ trace[k].ip \in Nat
    BY <1>4, OrderFacts DEF Early
  <1>6. Home(m)[2] \in Nat /\ Home(m)[2] <= trace[m].ip
    BY HomeFacts DEF Full
  <1> QED
    BY <1>4, <1>5, <1>6

\* In a closed trace an item goes on in its block, or begins one.
LEMMA GoodOpen ==
  ASSUME Traces, Blocked, Prepared, phase = "emit", k \in DOMAIN trace, Laid, Linked, BothSides
  PROVE  code[Home(k)] = << >> \/ Open(Home(k))
  <1>1. /\ \A m, n \in DOMAIN trace : m < n <=> trace[m].ip < trace[n].ip
        /\ \A n \in DOMAIN trace : n \in Nat /\ trace[n].ip \in Nat /\ trace[1].ip <= trace[n].ip
        /\ 1 \in DOMAIN trace /\ DOMAIN trace = 1 .. Len(trace) /\ Len(trace) \in Nat
        /\ Min(Ips) = trace[1].ip /\ \A ip : ip \in Ips <=> InTrace(ip)
        /\ \A m, n \in DOMAIN trace : trace[m].ip = trace[n].ip => m = n
    BY OrderFacts DEF Early
  <1>2. CASE k = 1
    <2>1. Home(1)[2] \in Range(blocks) /\ Home(1)[2] \in Nat /\ Home(1)[2] <= trace[1].ip
      BY <1>1, HomeFacts DEF Full
    <2>2. PICK j \in DOMAIN trace : trace[j].ip = Home(1)[2]
      BY <2>1, BlockFacts DEF Full
    <2>3. Home(1)[2] = trace[1].ip
      BY <1>1, <2>1, <2>2
    <2> QED
      BY <1>2, <2>3, BeginsEmpty
  <1>3. CASE k # 1
    <2>1. trace[k].ip \in Ips \ {Min(Ips)}
      <3>1. trace[k].ip # trace[1].ip
        BY <1>1, <1>3
      <3> QED
        BY <1>1, <3>1 DEF Ips
    <2>2. PICK n \in DOMAIN trace : trace[k].ip \in After(trace[n])
      BY <2>1 DEF Linked
    <2>3. CASE trace[n].i.op \in {"if", "goto"}
      <3>1. trace[k].ip \in Range(Branches(trace[n])) /\ InTrace(trace[k].ip)
        BY <2>2, <2>3, ItemFacts DEF After
      <3>2. trace[k].ip \in Range(blocks)
        BY <3>1, BlockFacts DEF Full
      <3>3. Home(k)[2] \in Nat /\ Home(k)[2] <= trace[k].ip /\ trace[k].ip <= Home(k)[2]
        BY <1>1, <3>2, HomeFacts DEF Full
      <3>4. Home(k)[2] = trace[k].ip
        BY <1>1, <3>3
      <3> QED
        BY <3>4, BeginsEmpty
    <2>4. CASE trace[n].i.op = "return"
      BY <2>2, <2>4 DEF After
    <2>5. CASE trace[n].i.op \notin {"if", "goto", "return"}
      <3>1. trace[k].ip = trace[n].ip + 1 /\ Plain(trace[n].i)
        BY <2>2, <2>5 DEF After, Plain
      <3>2. n < k /\ k - 1 \in DOMAIN trace /\ k - 1 < k
        BY <1>1, <1>3, <3>1
      <3>3. n = k - 1
        <4>1. trace[k - 1].ip < trace[k].ip
          BY <1>1, <3>2
        <4>2. ~(trace[n].ip < trace[k - 1].ip)
          BY <1>1, <3>1, <3>2, <4>1
        <4>3. ~(n < k - 1)
          BY <1>1, <3>2, <4>2
        <4> QED
          BY <1>1, <3>2, <4>3
      <3>4. CASE Home(k - 1) = Home(k)
        BY <1>3, <3>1, <3>3, <3>4 DEF Laid
      <3>5. CASE Home(k - 1) # Home(k)
        <4>1. (k - 1) + 1 = k
          BY <1>1
        <4>2. Crossing(k - 1)
          BY <3>2, <3>5, <4>1 DEF Crossing
        <4>3. Home(k) = <<"block", trace[k].ip>>
          BY <3>2, <4>1, <4>2, CrossingFacts DEF Full
        <4> QED
          BY <4>3, BeginsEmpty
      <3> QED
        BY <3>4, <3>5
    <2> QED
      BY <2>3, <2>4, <2>5
  <1> QED
    BY <1>2, <1>3

\* LLVMVerifyModule accepts the code of a closed trace.
LEMMA GoodVerifies ==
  ASSUME Traces, Blocked, Prepared, phase = "emit", k > Len(trace), Laid, Linked, BothSides
  PROVE  WellFormed
  <1>1. /\ \A m, n \in DOMAIN trace : m < n <=> trace[m].ip < trace[n].ip
        /\ \A n \in DOMAIN trace : n \in Nat /\ trace[n].ip \in Nat /\ trace[1].ip <= trace[n].ip
        /\ 1 \in DOMAIN trace /\ DOMAIN trace = 1 .. Len(trace) /\ Len(trace) \in Nat
        /\ Min(Ips) = trace[1].ip /\ \A ip : ip \in Ips <=> InTrace(ip)
    BY OrderFacts DEF Early
  <1>2. \A m, n \in DOMAIN trace : trace[m].ip = trace[n].ip => m = n
    BY OrderFacts DEF Early
  <1>3. k = Len(trace) + 1 /\ \A n \in DOMAIN trace : n < k
    BY <1>1 DEF Prepared
  <1>4. DOMAIN code = {"block"} \X Range(blocks)
    BY DEF Laid
  <1>5. PICK S : \A b \in DOMAIN code : code[b] \in Seq(S)
    BY DEF Prepared, Typed, Emitting
  <1>6. ASSUME NEW b \in DOMAIN code PROVE code[b] # << >>
    <2>1. PICK x \in Range(blocks) : b = <<"block", x>>
      BY <1>4
    <2>2. PICK n \in DOMAIN trace : Home(n) = <<"block", x>>
      BY BlockFacts DEF Full
    <2> QED
      BY <1>3, <2>1, <2>2 DEF Laid
  <1>7. \A m : Jump(m).op \in Terminators
    BY DEF Jump, Br, Terminators
  <1>8. ASSUME NEW b \in DOMAIN code, NEW n \in DOMAIN code[b], n # Len(code[b])
        PROVE  code[b][n].op \notin Terminators
    <2>1. PICK m \in DOMAIN trace : Plain(trace[m].i) /\ code[b][n].ip = trace[m].ip
      BY <1>8 DEF Laid, Follows
    <2>2. PICK j \in DOMAIN trace : MadeFrom(code[b][n], j)
      BY <1>8 DEF Laid, Comes
    <2>3. j = m
      BY <1>2, <2>1, <2>2, FromFacts
    <2> QED
      BY <2>1, <2>2, <2>3, FromFacts
  <1>9. ASSUME NEW b \in DOMAIN code PROVE code[b][Len(code[b])].op \in Terminators
    <2> SUFFICES ASSUME code[b][Len(code[b])].op \notin Terminators PROVE FALSE
      OBVIOUS
    <2>1. Len(code[b]) \in DOMAIN code[b]
      BY <1>5, <1>6
    <2>2. Open(b)
      BY <1>6 DEF Open, Ending
    <2>3. k # 1 /\ code[b][Len(code[b])].ip = trace[k - 1].ip
      BY <2>2 DEF Laid, Ending
    <2>4. k - 1 \in DOMAIN trace /\ k - 1 = Len(trace)
      BY <1>1, <1>3
    <2>5. PICK j \in DOMAIN trace : MadeFrom(code[b][Len(code[b])], j)
      BY <1>7, <2>1 DEF Laid, Comes
    <2>6. j = Len(trace) /\ Plain(trace[j].i)
      BY <1>2, <2>3, <2>4, <2>5, FromFacts
    <2>7. After(trace[j]) = {trace[j].ip + 1}
      BY <2>6 DEF After, Plain
    <2>8. trace[j].ip + 1 \in Ips
      BY <2>7 DEF BothSides
    <2>9. PICK n \in DOMAIN trace : trace[n].ip = trace[j].ip + 1
      BY <2>8 DEF Ips
    <2>10. trace[j].ip < trace[n].ip
      BY <1>1, <2>9
    <2>11. Len(trace) < n
      BY <1>1, <2>6, <2>10
    <2> QED
      BY <1>1, <2>11
  <1>10. ASSUME NEW b \in DOMAIN code, NEW n \in DOMAIN code[b], NEW d \in Range(code[b][n].to)
         PROVE  d # <<"block", blocks[1]>>
    <2>1. PICK m \in DOMAIN trace : MadeFrom(code[b][n], m) \/ (Crossing(m) /\ code[b][n] = Jump(m))
      BY DEF Laid, Comes
    <2>2. blocks[1] = trace[1].ip /\ trace[1].ip \in Nat
      BY <1>1, BlockFacts DEF Full
    <2>3. CASE MadeFrom(code[b][n], m)
      <3>1. d \in Range(Targets(trace[m]))
        BY <2>3 DEF MadeFrom
      <3>2. \E x \in Range(Branches(trace[m])) : d = <<"block", x>>
        BY <3>1 DEF Targets, Branches, Range
      <3>3. \A x \in Range(Branches(trace[m])) : x \in After(trace[m])
        BY DEF After, Branches, Range
      <3>4. trace[1].ip \notin After(trace[m])
        BY <1>1 DEF Linked
      <3> QED
        BY <2>2, <3>2, <3>3, <3>4
    <2>4. CASE Crossing(m) /\ code[b][n] = Jump(m)
      <3>1. Home(m + 1) = <<"block", trace[m + 1].ip>> /\ Home(m + 1)[2] > trace[1].ip
        BY <2>4, CrossingFacts DEF Full
      <3>2. d = Home(m + 1)
        BY <2>4 DEF Jump, Br, Range
      <3> QED
        BY <2>2, <3>1, <3>2
    <2> QED
      BY <2>1, <2>3, <2>4
  <1> QED
    BY <1>6, <1>8, <1>9, <1>10 DEF WellFormed

\* What context->values holds of a register some item further up writes.
LEMMA KnownValue ==
  ASSUME Traces, Prepared, phase = "emit", k \in DOMAIN trace, NEW r \in Reg, WritersBelow(k, r) # {}
  PROVE  /\ LastWriter(k, r) \in DOMAIN trace /\ values[r] = ValueOf(trace[LastWriter(k, r)].i)
         /\ values[r] # NULL
  <1> DEFINE W == WritersBelow(k, r)
  <1>1. /\ \A m, n \in DOMAIN trace : m < n <=> trace[m].ip < trace[n].ip
        /\ \A n \in DOMAIN trace : n \in Nat /\ trace[n].ip \in Nat
    BY OrderFacts DEF Early
  <1>2. \A n : n \in W <=> n \in DOMAIN trace /\ n \in Writers(r) /\ n < k
    BY <1>1 DEF WritersBelow, Below, Writers
  <1>3. W \in SUBSET (0 .. k)
    BY <1>1, <1>2
  <1>4. PICK n \in W : \A m \in W : m <= n
    <2>1. k \in Nat /\ W # {}
      BY <1>1
    <2> HIDE DEF W
    <2> QED
      BY <1>3, <2>1, Greatest
  <1>5. \A j \in W : trace[j].ip <= trace[n].ip
    <2> SUFFICES ASSUME NEW j \in W PROVE trace[j].ip <= trace[n].ip
      OBVIOUS
    <2>1. j \in DOMAIN trace /\ n \in DOMAIN trace /\ j <= n
      BY <1>2, <1>4
    <2>2. ~(trace[n].ip < trace[j].ip)
      BY <1>1, <2>1
    <2> QED
      BY <1>1, <2>1, <2>2
  <1> DEFINE l == LastWriter(k, r)
  <1>6. l \in W /\ \A j \in W : trace[j].ip <= trace[l].ip
    BY <1>5 DEF LastWriter
  <1> HIDE DEF W, l
  <1>7. l \in DOMAIN trace /\ l \in Writers(r) /\ l < k
    BY <1>2, <1>6
  <1>8. \A m \in Writers(r) : m < k => m <= l
    <2> SUFFICES ASSUME NEW m \in Writers(r), m < k PROVE m <= l
      OBVIOUS
    <2>1. m \in DOMAIN trace /\ m \in W
      BY <1>2 DEF Writers
    <2>2. ~(trace[l].ip < trace[m].ip)
      BY <1>1, <1>6, <1>7, <2>1
    <2> QED
      BY <1>1, <1>7, <2>1, <2>2
  <1>9. values[r] = ValueOf(trace[l].i)
    BY <1>7, <1>8 DEF Prepared, Emitting, Valued
  <1>10. trace[l].i \in Instruction
    BY <1>7, ItemFacts
  <1> QED
    BY <1>7, <1>9, <1>10, ValueFacts DEF l

\* The registers of an item the compiler translates can be loaded and stored.
LEMMA UsableFacts ==
  ASSUME Traces, k \in DOMAIN trace, Translatable(k)
  PROVE  /\ \A op : Usable(Inst(op, Loaded))
         /\ \A r, obj : Usable(Inst("const", <<Const(r, obj)>>))
         /\ Cur.i.op = "add" => \A v1, v2 :
              Usable(Inst("add_direct", <<AddOperand(Cur.i.b, v1), AddOperand(Cur.i.c, v2)>>))
  <1>1. /\ \A r \in Range(Loads(Cur.i)) : r \in GenRegs \/ (Cur.i.op = "move" /\ r \in ParamRegs)
        /\ Writes(Cur.i) \in GenRegs \cup ArgRegs \cup {NullReg}
    BY DEF Translatable, Cur
  <1>2. \A op, src : (\A n \in DOMAIN src : src[n].kind = "slot" => src[n].reg \in GenRegs) => Usable(Inst(op, src))
    BY <1>1, InstFacts DEF Usable
  <1>3. ASSUME NEW n \in DOMAIN Loaded PROVE Loaded[n].kind = "slot" => Loaded[n].reg \in GenRegs
    <2>1. n \in DOMAIN Loads(Cur.i) /\ Loaded[n] = Load(Loads(Cur.i)[n])
      BY DEF Loaded
    <2>2. Loads(Cur.i)[n] \in Range(Loads(Cur.i))
      BY <2>1 DEF Range
    <2> QED
      BY <1>1, <2>1, <2>2 DEF Load, Slot, Param
  <1>4. \A r, obj : \A n \in DOMAIN <<Const(r, obj)>> : <<Const(r, obj)>>[n].kind # "slot"
    BY DEF Const
  <1>5. ASSUME Cur.i.op = "add", NEW v1, NEW v2,
               NEW n \in DOMAIN <<AddOperand(Cur.i.b, v1), AddOperand(Cur.i.c, v2)>>,
               <<AddOperand(Cur.i.b, v1), AddOperand(Cur.i.c, v2)>>[n].kind = "slot"
        PROVE  <<AddOperand(Cur.i.b, v1), AddOperand(Cur.i.c, v2)>>[n].reg \in GenRegs
    <2>1. Loads(Cur.i) = <<Cur.i.b, Cur.i.c>>
      BY <1>5 DEF Loads
    <2>2. Cur.i.b \in GenRegs /\ Cur.i.c \in GenRegs
      BY <1>1, <1>5, <2>1 DEF Range
    <2>3. \A r, v : AddOperand(r, v).kind = "slot" => AddOperand(r, v).reg = r
      BY DEF AddOperand, Const, Slot
    <2> QED
      BY <1>5, <2>2, <2>3
  <1> QED
    BY <1>2, <1>3, <1>4, <1>5

\* No item of a closed trace stops the compiler.
LEMMA GoodEmits ==
  ASSUME Traces, Blocked, Prepared, \A n \in DOMAIN trace : Translatable(n),
         \/ EmitMove \/ EmitCompare \/ EmitArraySet \/ EmitConstant \/ EmitAdd \/ EmitSetLocal
         \/ EmitGoto \/ EmitIf \/ EmitReturn \/ EmitUnknown
  PROVE  phase' = "emit"
  <1>1. \A inst, value : (phase = "emit" /\ Usable(inst) /\ EmitPlain(inst, value)) => phase' = "emit"
    BY DEF EmitPlain, Advance
  <1>2. \A ops : Emits(ops) => /\ phase = "emit" /\ k \in DOMAIN trace /\ Cur.i.op \in ops
                               /\ Translatable(k) /\ Cur = trace[k] /\ Cur.i \in Instruction
    BY EmitsFacts
  <1>3. EmitMove => phase' = "emit"
    BY <1>1, <1>2, UsableFacts DEF EmitMove
  <1>4. EmitCompare => phase' = "emit"
    BY <1>1, <1>2, UsableFacts DEF EmitCompare
  <1>5. EmitArraySet => phase' = "emit"
    BY <1>1, <1>2, UsableFacts DEF EmitArraySet
  <1>6. EmitConstant => phase' = "emit"
    BY <1>1, <1>2, UsableFacts DEF EmitConstant
  <1>7. ASSUME EmitAdd PROVE phase' = "emit"
    <2>1. /\ phase = "emit" /\ k \in DOMAIN trace /\ Cur.i.op = "add" /\ Translatable(k)
          /\ Cur = trace[k] /\ Cur.i.b \in Reg /\ Cur.i.c \in Reg
      BY <1>2, <1>7 DEF EmitAdd, Instruction
    <2>2. WritersBelow(k, Cur.i.b) # {} /\ WritersBelow(k, Cur.i.c) # {}
      BY <2>1 DEF Translatable
    <2>3. values[Cur.i.b] # NULL /\ values[Cur.i.c] # NULL
      BY <2>1, <2>2, KnownValue
    <2>4. \A v \in Meta(Cur.i.b) \cup Meta(Cur.i.c) : v # NULL
      BY <2>3 DEF Meta
    <2>5. /\ \A v1, v2 : Usable(Inst("add_direct", <<AddOperand(Cur.i.b, v1), AddOperand(Cur.i.c, v2)>>))
          /\ Usable(Inst("add", Loaded))
      BY <2>1, UsableFacts
    <2> QED
      BY <1>1, <1>7, <2>1, <2>4, <2>5 DEF EmitAdd
  <1>8. ASSUME EmitSetLocal PROVE phase' = "emit"
    <2>1. /\ phase = "emit" /\ k \in DOMAIN trace /\ Cur.i.op = "setlocal" /\ Translatable(k)
          /\ Cur = trace[k] /\ Cur.i.a \in Reg
      BY <1>2, <1>8 DEF EmitSetLocal, Instruction
    <2> DEFINE l == LastWriter(k, Cur.i.a)
    <2>2. /\ WritersBelow(k, Cur.i.a) # {} /\ trace[l].i.op = "set"
          /\ ConstPool[trace[l].i.dest].type = "symbol"
      BY <2>1 DEF Translatable
    <2>3. l \in DOMAIN trace /\ values[Cur.i.a] = ValueOf(trace[l].i) /\ values[Cur.i.a] # NULL
      BY <2>1, <2>2, KnownValue
    <2> HIDE DEF l
    <2>4. trace[l].i \in Instruction /\ Constant(trace[l].i) /\ ObjectOf(trace[l].i).type = "symbol"
      BY <2>2, <2>3, ItemFacts DEF Constant, ObjectOf
    <2>5. values[Cur.i.a].type = "symbol" /\ values[Cur.i.a].constant # NULL
      BY <2>3, <2>4, ValueFacts
    <2>6. \A v \in Meta(Cur.i.a) : v # NULL /\ v.type = "symbol" /\ v.constant # NULL
      BY <2>3, <2>5 DEF Meta
    <2>7. Usable(Inst("setlocal", Loaded))
      BY <2>1, UsableFacts
    <2> QED
      BY <1>1, <1>8, <2>1, <2>6, <2>7 DEF EmitSetLocal
  <1>9. EmitGoto => phase' = "emit"
    BY <1>2 DEF EmitGoto, Advance
  <1>10. EmitIf => phase' = "emit"
    BY <1>2, UsableFacts DEF EmitIf, Advance
  <1>11. EmitReturn => phase' = "emit"
    BY <1>2, UsableFacts DEF EmitReturn, Advance
  <1>12. ~EmitUnknown
    BY <1>2 DEF EmitUnknown, Translatable
  <1> QED
    BY <1>3, <1>4, <1>5, <1>6, <1>7, <1>8, <1>9, <1>10, <1>11, <1>12

\* Nor do the passes before.
LEMMA GoodPasses ==
  ASSUME Traces, Blocked, Prepared, Good, IdentifyBlocks \/ IdentifyLocals \/ Verify, phase = "emit" => Laid
  PROVE  phase' # "aborted"
  <1>1. phase \notin Early
    BY DEF IdentifyBlocks, IdentifyLocals, Verify, Early
  <1>2. CASE IdentifyBlocks
    <2> DEFINE item == trace[Len(data) + 1]
    <2>1. phase = "blocks" /\ Len(data) + 1 \in DOMAIN trace
      <3>1. phase = "blocks" /\ Len(data) < Len(trace) /\ data \in Seq(Seq(Nat \cup {NULL})) /\ trace \in Seq(Items)
        BY <1>2 DEF IdentifyBlocks, Blocked, Traces
      <3>2. Len(data) \in Nat /\ Len(trace) \in Nat /\ DOMAIN trace = 1 .. Len(trace)
        BY <3>1
      <3> QED
        BY <3>1, <3>2
    <2> HIDE DEF item
    <2>2. After(item) \subseteq Ips
      BY <2>1 DEF Good, BothSides, item
    <2>3. item.i.op = "goto" => InTrace(item.i.dest)
      <3> SUFFICES ASSUME item.i.op = "goto" PROVE InTrace(item.i.dest)
        OBVIOUS
      <3>1. item.i.dest \in After(item)
        BY DEF After, Branches, Range
      <3> QED
        BY <1>1, <2>2, <3>1, OrderFacts
    <2> QED
      BY <1>2, <2>3 DEF IdentifyBlocks, item
  <1>3. CASE IdentifyLocals
    <2>1. /\ \A m, n \in DOMAIN trace : m < n <=> trace[m].ip < trace[n].ip
          /\ DOMAIN trace = 1 .. Len(trace) /\ Len(trace) \in Nat
      BY <1>1, OrderFacts
    <2>2. ASSUME NEW n \in DOMAIN trace, trace[n].i.op = "getlocal"
          PROVE  \E m \in 1 .. n - 1 : trace[m].i.op = "setlocal" /\ trace[m].sym = trace[n].sym
      <3>1. Translatable(n)
        BY DEF Good
      <3>2. PICK m \in Below(n) : trace[m].i.op = "setlocal" /\ trace[m].sym = trace[n].sym
        BY <2>2, <3>1 DEF Translatable
      <3>3. m \in DOMAIN trace /\ m < n
        BY <2>1 DEF Below
      <3>4. m \in 1 .. n - 1
        BY <2>1, <3>3
      <3> QED
        BY <3>2, <3>4
    <2> QED
      BY <1>3, <2>2 DEF IdentifyLocals
  <1>4. CASE Verify
    <2>1. WellFormed
      BY <1>4, GoodVerifies DEF Verify, Good
    <2> QED
      BY <1>4, <2>1 DEF Verify
  <1> QED
    BY <1>2, <1>3, <1>4

\* Emitting one of its items leaves the blocks as they should be.
LEMMA GoodLaid ==
  ASSUME Traces, Blocked, Prepared, Good, Laid,
         \/ EmitMove \/ EmitCompare \/ EmitArraySet \/ EmitConstant \/ EmitAdd \/ EmitSetLocal
         \/ EmitGoto \/ EmitIf \/ EmitReturn \/ EmitUnknown
  PROVE  phase' = "emit" /\ Laid'
  <1>1. phase' = "emit"
    BY GoodEmits DEF Good
  <1>2. ~Abort
    BY <1>1 DEF Abort
  <1>3. phase = "emit" /\ k \in DOMAIN trace /\ Advance /\ Grows
    <2>1. CASE EmitIf
      <3>1. phase = "emit" /\ k \in DOMAIN trace /\ Advance /\ Cur.i.op = "if" /\ (BothIn => Grows)
        BY <1>2, <2>1, IfEffect
      <3>2. \A ip : ip \in Ips <=> InTrace(ip)
        BY <3>1, OrderFacts DEF Early
      <3>3. After(Cur) \subseteq Ips
        BY <3>1 DEF Good, BothSides, Cur
      <3>4. BothIn
        BY <3>1, <3>2, <3>3 DEF BothIn, After
      <3> QED
        BY <3>1, <3>4
    <2>2. CASE ~EmitIf
      BY <1>2, <2>2, EmissionEffect
    <2> QED
      BY <2>1, <2>2
  <1>4. code[Home(k)] = << >> \/ Open(Home(k))
    BY <1>3, GoodOpen DEF Good
  <1> QED
    BY <1>1, <1>3, <1>4, GrowsLaid

\* The trace stays what it is from the first pass on.
LEMMA StillGood ==
  ASSUME UNCHANGED trace
  PROVE  Good' <=> Good
  <1>1. \A r : Writers(r)' = Writers(r)
    BY DEF Writers
  <1>a. \A n : Below(n)' = Below(n)
    BY DEF Below
  <1>b. \A n, r : WritersBelow(n, r)' = WritersBelow(n, r)
    BY <1>1, <1>a DEF WritersBelow
  <1>c. \A n, r : LastWriter(n, r)' = LastWriter(n, r)
    BY <1>b DEF LastWriter
  <1>2. \A n : Translatable(n)' <=> Translatable(n)
    BY <1>a, <1>b, <1>c DEF Translatable
  <1>3. (Linked' <=> Linked) /\ (BothSides' <=> BothSides)
    BY DEF Linked, BothSides, Ips
  <1> QED
    BY <1>2, <1>3 DEF Good

\* hvm_jit_compile_trace gets through every trace that is closed and that it
\* translates: no assertion of it fails and LLVMVerifyModule accepts the code.
THEOREM ClosedTraces == Spec => []ClosedTracesCompile
  <1>1. Init => Compiles
    BY DEF Init, Compiles
  <1>2. ASSUME Traces, Blocked, Prepared, Compiles, [Next]_vars PROVE Compiles'
    <2>1. CASE \/ EmitMove \/ EmitCompare \/ EmitArraySet \/ EmitConstant \/ EmitAdd \/ EmitSetLocal
               \/ EmitGoto \/ EmitIf \/ EmitReturn \/ EmitUnknown
      <3>1. phase = "emit"
        BY <2>1 DEF EmitMove, EmitCompare, EmitArraySet, EmitConstant, EmitAdd, EmitSetLocal,
                    EmitGoto, EmitIf, EmitReturn, EmitUnknown, Emits
      <3>2. UNCHANGED trace
        BY <2>1 DEF EmitMove, EmitCompare, EmitArraySet, EmitConstant, EmitAdd, EmitSetLocal,
                    EmitGoto, EmitIf, EmitReturn, EmitUnknown, EmitPlain, Advance, Abort, compiled
      <3>3. Good' <=> Good
        BY <3>2, StillGood
      <3>4. Good => phase' = "emit" /\ Laid'
        BY <1>2, <2>1, <3>1, GoodLaid DEF Compiles
      <3> QED
        BY <3>3, <3>4 DEF Compiles
    <2>2. CASE IdentifyBlocks \/ IdentifyLocals \/ Verify
      <3>1. UNCHANGED trace
        BY <2>2 DEF IdentifyBlocks, IdentifyLocals, Verify, Abort, compiled
      <3>2. Good' <=> Good
        BY <3>1, StillGood
      <3>3. Good => phase' # "aborted"
        BY <1>2, <2>2, GoodPasses DEF Compiles
      <3>4. phase' = "emit" => Laid'
        <4>1. IdentifyBlocks \/ Verify => phase' # "emit"
          BY DEF IdentifyBlocks, Verify, Abort
        <4> QED
          BY <1>2, <2>2, <4>1, IdentifyLocalsStep
      <3> QED
        BY <3>2, <3>3, <3>4 DEF Compiles
    <2>3. CASE \/ Record \/ Abandon \/ Sort \/ IdentifyRegisters
               \/ Run \/ RunPlain \/ RunArraySet \/ RunSetLocal \/ RunBranch \/ RunReturn \/ RunFaults
      <3>1. phase' \notin {"emit", "aborted"}
        BY <2>3 DEF Record, Abandon, Sort, IdentifyRegisters, Run, RunPlain, RunArraySet, RunSetLocal,
                    RunBranch, RunReturn, RunFaults, Executes
      <3> QED
        BY <3>1 DEF Compiles
    <2>4. CASE vars' = vars
      <3>1. UNCHANGED <<trace, blocks, constant_regs, values, k, code, phase>>
        BY <2>4 DEF vars, compiled
      <3>2. (Good' <=> Good) /\ (Laid' <=> Laid)
        BY <3>1, StillGood, StillLaid
      <3> QED
        BY <1>2, <3>1, <3>2 DEF Compiles
    <2> QED
      BY <1>2, <2>1, <2>2, <2>3, <2>4 DEF Next
  <1>3. Compiles => ClosedTracesCompile
    BY DEF Compiles, ClosedTracesCompile, Good
  <1> QED
    BY <1>1, <1>2, <1>3, TracesInvariant, BlockedInvariant, PreparedInvariant, PTL DEF Spec

--------------------------------------------------------------------------------
(* The runs *)

Computing == {"move", "const", "add", "add_direct", "eq", "gt", "and", "arraylen", "arrayget",
              "invokeprimitive", "getlocal"}

\* What is left of an activation whatever the compiled code has done to it.
Whole(s) ==
  Shape(s) /\ DOMAIN s.regs = Reg /\ DOMAIN s.locals = Syms /\ s.regs[NullReg] = Null

\* The activation writes registers of its own, with items of the trace.
Written ==
  \A j \in st.wrote : \E m \in DOMAIN trace : /\ trace[m].ip = j /\ trace[m].i.op \in Returning
                                              /\ Writes(trace[m].i) \in GenRegs \cup ArgRegs \cup {NullReg}
\* The slot of a register with one writer, a constant, holds it once it is written.
Steady ==
  \A m \in DOMAIN trace :
    (/\ Constant(trace[m].i) /\ trace[m].ip \in st.wrote /\ Writes(trace[m].i) \in GenRegs
     /\ \A n \in Writers(Writes(trace[m].i)) : n = m) =>
      slots[Writes(trace[m].i)] = ObjectOf(trace[m].i)
Pointed ==
  /\ pc = [block |-> pc.block, at |-> pc.at]
  /\ pc.block \in DOMAIN code /\ pc.at \in DOMAIN code[pc.block]

Phases == {"record", "abandoned", "sort", "blocks", "registers", "locals", "emit", "aborted",
           "compiled", "running", "crashed"}
Runs ==
  /\ phase \in Phases
  /\ DOMAIN slots = GenRegs /\ DOMAIN locals = Syms /\ owed \in BOOLEAN
  /\ phase \notin {"compiled", "running", "crashed"} => ~owed
  /\ phase \in {"compiled", "running", "crashed"} => Whole(st)
  /\ (phase = "compiled" /\ owed) => st.result.status = "returned"
  /\ phase = "running" =>
       /\ Pointed /\ Written /\ Steady
       /\ st.own => passed = st.regs[<<"param", 0>>]

LEMMA FromOps ==
  ASSUME NEW inst, NEW m, MadeFrom(inst, m)
  PROVE  /\ inst.op \in Computing <=> trace[m].i.op \in Returning
         /\ inst.op \notin {"const", "add_direct"} =>
              /\ ~Constant(trace[m].i) /\ inst.op = NativeOp(trace[m].i) /\ inst.src = LoadedBy(trace[m].i)
         /\ inst.op = "const" => /\ Constant(trace[m].i)
                                 /\ inst.src = <<Const(trace[m].i.a, ObjectOf(trace[m].i))>>
         /\ inst.op = "add_direct" =>
              /\ trace[m].i.op = "add" /\ inst.src = <<inst.src[1], inst.src[2]>>
              /\ Operand(m, trace[m].i.b, inst.src[1]) /\ Operand(m, trace[m].i.c, inst.src[2])
         /\ Constant(trace[m].i) => inst.op = "const"
         /\ inst.op # "br" /\ inst.op # "bailout"
         /\ inst.op \in Computing \cup {"arrayset", "setlocal", "goto", "condbr", "ret"}
         /\ inst.op = "setlocal" => trace[m].i.op = "setlocal"
         /\ inst.op = "arrayset" => trace[m].i.op = "arrayset"
         /\ inst.op = "goto" => trace[m].i.op = "goto"
         /\ inst.op = "condbr" => trace[m].i.op = "if"
         /\ inst.op = "ret" => trace[m].i.op = "return"
         /\ inst.op \in {"move", "eq", "gt", "and", "arraylen", "arrayget", "invokeprimitive", "getlocal"} =>
              trace[m].i.op = inst.op
         /\ inst.op = "add" => trace[m].i.op = "add"
  <1>1. trace[m].i.op \in Compilable /\ Sources(inst, m)
    BY DEF MadeFrom
  <1>2. CASE /\ Constant(trace[m].i) /\ inst.op = "const"
             /\ inst.src = <<Const(trace[m].i.a, ObjectOf(trace[m].i))>>
    BY <1>2 DEF Constant, Computing, Returning
  <1>3. CASE /\ trace[m].i.op = "add" /\ inst.op = "add_direct" /\ inst.src = <<inst.src[1], inst.src[2]>>
             /\ Operand(m, trace[m].i.b, inst.src[1]) /\ Operand(m, trace[m].i.c, inst.src[2])
    BY <1>3 DEF Constant, Computing, Returning
  <1>4. CASE ~Constant(trace[m].i) /\ inst.op = NativeOp(trace[m].i) /\ inst.src = LoadedBy(trace[m].i)
    <2>1. trace[m].i.op \in Compilable \ {"set", "litinteger"}
      BY <1>1, <1>4 DEF Constant
    <2>2. inst.op = IF trace[m].i.op = "if" THEN "condbr" ELSE IF trace[m].i.op = "return" THEN "ret" ELSE trace[m].i.op
      BY <1>4 DEF NativeOp
    <2> HIDE DEF Constant
    <2> QED
      BY <1>4, <2>1, <2>2 DEF Computing, Returning, Compilable
  <1> QED
    BY <1>1, <1>2, <1>3, <1>4 DEF Sources

\* Code that LLVM accepted has no block that goes on after its end.
LEMMA Verified ==
  ASSUME Prepared, phase \in {"compiled", "running", "crashed"}
  PROVE  Laid /\ WellFormed /\ \E S : \A b \in DOMAIN code : code[b] \in Seq(S)
  <1>1. WellFormed /\ (Spoilt \/ Laid) /\ Typed
    BY DEF Prepared, Emitting
  <1>2. ~Spoilt
    BY <1>1 DEF Spoilt, WellFormed
  <1> QED
    BY <1>1, <1>2 DEF Typed

\* The native instruction to execute comes from an item, or goes on to the next block.
LEMMA HereFacts ==
  ASSUME Traces, Blocked, Prepared, phase = "running", Pointed
  PROVE  /\ \E m \in DOMAIN trace : \/ MadeFrom(Here, m)
                                    \/ Crossing(m) /\ Here = Jump(m)
         /\ Here.op \in Terminators <=> pc.at = Len(code[pc.block])
         /\ Here.op \notin Terminators =>
              /\ pc.at + 1 \in DOMAIN code[pc.block] /\ pc.at \in Nat
              /\ Follows(pc.block, pc.at)
  <1>1. Laid /\ WellFormed
    BY Verified
  <1>2. PICK S : \A b \in DOMAIN code : code[b] \in Seq(S)
    BY Verified
  <1>3. pc.block \in DOMAIN code /\ pc.at \in DOMAIN code[pc.block] /\ Here = code[pc.block][pc.at]
    BY DEF Pointed, Here
  <1>4. PICK m \in DOMAIN trace : MadeFrom(Here, m) \/ (Crossing(m) /\ Here = Jump(m))
    BY <1>1, <1>3 DEF Laid, Comes
  <1>5. Here.op \in Terminators <=> pc.at = Len(code[pc.block])
    BY <1>1, <1>3 DEF WellFormed
  <1>6. ASSUME Here.op \notin Terminators
        PROVE  pc.at + 1 \in DOMAIN code[pc.block] /\ pc.at \in Nat /\ Follows(pc.block, pc.at)
    <2>1. code[pc.block] \in Seq(S) /\ pc.at # Len(code[pc.block])
      BY <1>2, <1>3, <1>5, <1>6
    <2>2. pc.at + 1 \in DOMAIN code[pc.block] /\ pc.at \in Nat
      BY <1>3, <2>1
    <2> QED
      BY <1>1, <1>3, <2>1, <2>2 DEF Laid
  <1> QED
    BY <1>4, <1>5, <1>6

\* A branch leads to a block, and to its first instruction.
LEMMA TargetFacts ==
  ASSUME Traces, Blocked, Prepared, phase = "running", Pointed
  PROVE  /\ \A b \in DOMAIN code : 1 \in DOMAIN code[b] /\ code[b][1].ip = b[2]
         /\ \A d \in DOMAIN Here.to : Here.to[d] \in DOMAIN code
         /\ Here.op \in {"br", "goto"} => 1 \in DOMAIN Here.to
         /\ Here.op = "condbr" => 1 \in DOMAIN Here.to /\ 2 \in DOMAIN Here.to
  <1>1. Laid /\ WellFormed
    BY Verified
  <1>2. PICK S : \A b \in DOMAIN code : code[b] \in Seq(S)
    BY Verified
  <1>3. ASSUME NEW b \in DOMAIN code PROVE 1 \in DOMAIN code[b] /\ code[b][1].ip = b[2]
    <2>1. code[b] # << >> /\ code[b] \in Seq(S)
      BY <1>1, <1>2 DEF WellFormed
    <2>2. 1 \in DOMAIN code[b]
      BY <2>1
    <2> QED
      BY <1>1, <2>1, <2>2 DEF Laid
  <1>4. PICK m \in DOMAIN trace : MadeFrom(Here, m) \/ (Crossing(m) /\ Here = Jump(m))
    BY HereFacts
  <1>5. DOMAIN code = {"block"} \X Range(blocks)
    BY <1>1 DEF Laid
  <1>6. CASE MadeFrom(Here, m)
    <2>1. Here.to = Targets(trace[m]) /\ \A d \in Range(Branches(trace[m])) : InTrace(d)
      BY <1>6 DEF MadeFrom
    <2>2. \A d \in Range(Branches(trace[m])) : d \in Range(blocks)
      BY <2>1, BlockFacts DEF Full
    <2>3. \A d \in Range(Branches(trace[m])) : <<"block", d>> \in DOMAIN code
      BY <1>5, <2>2
    <2>4. /\ trace[m].i.op = "if" => /\ Here.to = <<<<"block", trace[m].i.dest>>, <<"block", trace[m].ip + 1>>>>
                                     /\ Range(Branches(trace[m])) = {trace[m].i.dest, trace[m].ip + 1}
          /\ trace[m].i.op = "goto" => /\ Here.to = <<<<"block", trace[m].i.dest>>>>
                                       /\ Range(Branches(trace[m])) = {trace[m].i.dest}
          /\ trace[m].i.op \notin {"if", "goto"} => Here.to = << >>
      BY <2>1, LeadsFacts, ItemFacts DEF Targets
    <2>5. \A d \in DOMAIN Here.to : Here.to[d] \in DOMAIN code
      BY <2>3, <2>4
    <2>6. /\ Here.op # "br" /\ (Here.op = "goto" => trace[m].i.op = "goto")
          /\ Here.op = "condbr" => trace[m].i.op = "if"
      BY <1>6, FromOps
    <2> QED
      BY <1>3, <2>4, <2>5, <2>6
  <1>7. CASE Crossing(m) /\ Here = Jump(m)
    <2>1. Home(m + 1) \in DOMAIN code
      BY <1>5, <1>7, HomeFacts DEF Crossing, Full
    <2>2. Here.to = <<Home(m + 1)>> /\ Here.op = "br"
      BY <1>7 DEF Jump, Br
    <2> QED
      BY <1>3, <2>1, <2>2
  <1> QED
    BY <1>4, <1>6, <1>7

\* Where an instruction that computes leaves its value.
Called == IF Here.op = "invokeprimitive" THEN CallPrimitive(st, V(1).v) ELSE st
Kept(val) == IF Here.ret \in ArgRegs THEN [Called.regs EXCEPT ![Here.ret] = val] ELSE Called.regs
Afterwards(val) ==
  Made(Called.ip, Kept(val), Called.arrays, Called.locals, Called.out, Called.result,
       Called.wrote \cup {Here.ip}, Called.own)

LEMMA CopyRegsKeep ==
  ASSUME NEW regs, DOMAIN regs = Reg
  PROVE  /\ DOMAIN CopyRegs(regs) = Reg /\ CopyRegs(regs)[NullReg] = regs[NullReg]
         /\ \A r \in GenRegs : CopyRegs(regs)[r] = regs[r]
  <1>1. <<"arg", 0>> \in ArgRegs
    BY JITAssumption DEF ArgRegs
  <1>2. NullReg \notin ParamRegs \cup {<<"arg", 0>>} /\ \A r \in GenRegs : r \notin ParamRegs \cup {<<"arg", 0>>}
    BY <1>1, RegisterFacts
  <1>3. <<"param", 0>> \in ParamRegs /\ NullReg \in Reg /\ GenRegs \subseteq Reg
    BY RegisterFacts
  <1> QED
    BY <1>2, <1>3 DEF CopyRegs

LEMMA CalledFacts ==
  ASSUME Whole(st)
  PROVE  /\ Whole(Called) /\ Called.ip = st.ip /\ Called.arrays = st.arrays /\ Called.locals = st.locals
         /\ Called.result = st.result /\ Called.wrote = st.wrote
         /\ \A r \in GenRegs : Called.regs[r] = st.regs[r]
         /\ Here.op = "invokeprimitive" => ~Called.own
         /\ Here.op # "invokeprimitive" => Called = st
  <1>1. CASE Here.op = "invokeprimitive"
    <2> DEFINE out == Append(st.out, [sym |-> V(1).v, param |-> st.regs[<<"arg", 0>>]])
    <2>1. Called = Made(st.ip, CopyRegs(st.regs), st.arrays, st.locals, out, st.result, st.wrote, FALSE)
      BY <1>1, CallForm DEF Called, Whole
    <2> HIDE DEF out
    <2>2. /\ DOMAIN CopyRegs(st.regs) = Reg /\ CopyRegs(st.regs)[NullReg] = st.regs[NullReg]
          /\ \A r \in GenRegs : CopyRegs(st.regs)[r] = st.regs[r]
      BY CopyRegsKeep DEF Whole
    <2>3. \A no : LET s == Made(st.ip, CopyRegs(st.regs), st.arrays, st.locals, out, st.result, st.wrote, no)
                  IN  /\ Shape(s) /\ s.ip = st.ip /\ s.regs = CopyRegs(st.regs) /\ s.arrays = st.arrays
                      /\ s.locals = st.locals /\ s.result = st.result /\ s.wrote = st.wrote /\ s.own = no
      BY DEF Shape, Made
    <2>4. /\ Shape(Called) /\ Called.ip = st.ip /\ Called.regs = CopyRegs(st.regs) /\ Called.arrays = st.arrays
          /\ Called.locals = st.locals /\ Called.result = st.result /\ Called.wrote = st.wrote
          /\ Called.own = FALSE
      BY <2>1, <2>3
    <2> QED
      BY <1>1, <2>2, <2>4 DEF Whole
  <1>2. CASE Here.op # "invokeprimitive"
    BY <1>2 DEF Called
  <1> QED
    BY <1>1, <1>2

LEMMA KeptFacts ==
  ASSUME Whole(st), NEW val
  PROVE  /\ DOMAIN Kept(val) = Reg /\ Kept(val)[NullReg] = Null
         /\ \A r \in Reg : Kept(val)[r] = IF r = Here.ret /\ Here.ret \in ArgRegs THEN val ELSE Called.regs[r]
  <1>1. DOMAIN Called.regs = Reg /\ Called.regs[NullReg] = Null
    BY CalledFacts DEF Whole
  <1> QED
    BY <1>1, RegisterFacts DEF Kept

LEMMA PlainRun ==
  ASSUME Whole(st), RunPlain
  PROVE  \E val \in Results :
           /\ slots' = IF Here.ret \in GenRegs THEN [slots EXCEPT ![Here.ret] = val] ELSE slots
           /\ st' = Afterwards(val)
           /\ owed' = (Owes /\ ~Raises(val))
  <1>1. PICK val \in Results :
          /\ slots' = IF Here.ret \in GenRegs THEN [slots EXCEPT ![Here.ret] = val] ELSE slots
          /\ st' = [Called EXCEPT !.regs = IF Here.ret \in ArgRegs THEN [@ EXCEPT ![Here.ret] = val] ELSE @,
                                  !.wrote = @ \cup {Here.ip}]
          /\ owed' = (Owes /\ ~Raises(val))
    BY DEF RunPlain, Called
  <1> DEFINE wrote == Called.wrote \cup {Here.ip}
             regs == Kept(val)
             t == [Called EXCEPT !.regs = regs]
  <1>2. st' = [Called EXCEPT !.regs = regs, !.wrote = wrote]
    BY <1>1 DEF Kept
  <1> HIDE DEF wrote, regs
  <1>3. [Called EXCEPT !.regs = regs, !.wrote = wrote] = [t EXCEPT !.wrote = wrote]
    OBVIOUS
  <1>4. Shape(Called)
    BY CalledFacts DEF Whole
  <1>5. t = Made(Called.ip, regs, Called.arrays, Called.locals, Called.out, Called.result, Called.wrote, Called.own)
    BY <1>4 DEF Shape, Made
  <1> HIDE DEF t
  <1>6. [t EXCEPT !.wrote = wrote] =
          Made(Called.ip, regs, Called.arrays, Called.locals, Called.out, Called.result, wrote, Called.own)
    BY <1>5 DEF Made
  <1>7. st' = Afterwards(val)
    BY <1>2, <1>3, <1>6 DEF Afterwards, regs, wrote
  <1> QED
    BY <1>1, <1>7

LEMMA AfterwardsFacts ==
  ASSUME Whole(st), NEW val
  PROVE  LET s == Afterwards(val)
         IN  /\ Whole(s) /\ s.regs = Kept(val) /\ s.arrays = Called.arrays /\ s.locals = st.locals
             /\ s.out = Called.out /\ s.result = st.result /\ s.wrote = st.wrote \cup {Here.ip}
             /\ s.own = Called.own /\ s.ip = st.ip
  <1> DEFINE wrote == Called.wrote \cup {Here.ip}
  <1>1. wrote = st.wrote \cup {Here.ip} /\ Called.ip = st.ip /\ Called.locals = st.locals /\ Called.result = st.result
        /\ DOMAIN Called.locals = Syms
    BY CalledFacts DEF Whole
  <1>2. DOMAIN Kept(val) = Reg /\ Kept(val)[NullReg] = Null
    BY KeptFacts
  <1> HIDE DEF wrote
  <1>3. \A regs : LET s == Made(Called.ip, regs, Called.arrays, Called.locals, Called.out, Called.result,
                                wrote, Called.own)
                  IN  /\ Shape(s) /\ s.ip = Called.ip /\ s.regs = regs /\ s.arrays = Called.arrays
                      /\ s.locals = Called.locals /\ s.out = Called.out /\ s.result = Called.result
                      /\ s.wrote = wrote /\ s.own = Called.own
    BY DEF Shape, Made
  <1> DEFINE s == Afterwards(val)
  <1>4. s = Made(Called.ip, Kept(val), Called.arrays, Called.locals, Called.out, Called.result, wrote, Called.own)
    BY DEF Afterwards, wrote
  <1> HIDE DEF s
  <1>5. /\ Shape(s) /\ s.ip = Called.ip /\ s.regs = Kept(val) /\ s.arrays = Called.arrays
        /\ s.locals = Called.locals /\ s.out = Called.out /\ s.result = Called.result
        /\ s.wrote = wrote /\ s.own = Called.own
    BY <1>3, <1>4
  <1>6. /\ Whole(s) /\ s.regs = Kept(val) /\ s.arrays = Called.arrays /\ s.locals = st.locals
        /\ s.out = Called.out /\ s.result = st.result /\ s.wrote = st.wrote \cup {Here.ip}
        /\ s.own = Called.own /\ s.ip = st.ip
    BY <1>1, <1>2, <1>5 DEF Whole
  <1> QED
    BY <1>6 DEF s

\* The other ways an activation changes.
LEMMA SetLocalForm ==
  ASSUME NEW s, Shape(s), NEW x, NEW v
  PROVE  [s EXCEPT !.locals[x] = WithValue(@, v)] =
           Made(s.ip, s.regs, s.arrays, [s.locals EXCEPT ![x] = WithValue(@, v)], s.out, s.result, s.wrote, s.own)
  <1> DEFINE new == [s.locals EXCEPT ![x] = WithValue(@, v)]
  <1>1. [s EXCEPT !.locals[x] = WithValue(@, v)] = [s EXCEPT !.locals = new]
    OBVIOUS
  <1> HIDE DEF new
  <1>2. [s EXCEPT !.locals = new] = Made(s.ip, s.regs, s.arrays, new, s.out, s.result, s.wrote, s.own)
    BY DEF Shape, Made
  <1> QED
    BY <1>1, <1>2 DEF new

LEMMA ReturnForm ==
  ASSUME NEW s, Shape(s), NEW ip, NEW result
  PROVE  [s EXCEPT !.ip = ip, !.result = result] =
           Made(ip, s.regs, s.arrays, s.locals, s.out, result, s.wrote, s.own)
  <1> DEFINE t == [s EXCEPT !.ip = ip]
  <1>1. [s EXCEPT !.ip = ip, !.result = result] = [t EXCEPT !.result = result]
    OBVIOUS
  <1>2. t = Made(ip, s.regs, s.arrays, s.locals, s.out, s.result, s.wrote, s.own)
    BY DEF Shape, Made
  <1> HIDE DEF t
  <1>3. [t EXCEPT !.result = result] = Made(ip, s.regs, s.arrays, s.locals, s.out, result, s.wrote, s.own)
    BY <1>2 DEF Made
  <1> QED
    BY <1>1, <1>3

LEMMA CallRegsKeep ==
  ASSUME NEW regs, DOMAIN regs = Reg, NEW param
  PROVE  /\ DOMAIN CallRegs(regs, param) = Reg /\ CallRegs(regs, param)[NullReg] = regs[NullReg]
         /\ CallRegs(regs, param)[<<"param", 0>>] = param
         /\ \A r \in GenRegs : CallRegs(regs, param)[r] = regs[r]
  <1> DEFINE new == [regs EXCEPT ![<<"arg", 0>>] = param]
  <1>1. <<"arg", 0>> \in Reg /\ NullReg # <<"arg", 0>> /\ \A r \in GenRegs : r # <<"arg", 0>>
    BY RegisterFacts DEF NullReg, GenRegs
  <1>2. DOMAIN new = Reg /\ new[NullReg] = regs[NullReg] /\ \A r \in GenRegs : new[r] = regs[r]
    BY <1>1, RegisterFacts
  <1>3. new[<<"arg", 0>>] = param
    BY <1>1
  <1> HIDE DEF new
  <1>4. CallRegs(regs, param) = CopyRegs(new)
    BY DEF CallRegs, new
  <1>5. CopyRegs(new)[<<"param", 0>>] = new[<<"arg", 0>>]
    BY RegisterFacts DEF CopyRegs
  <1> QED
    BY <1>2, <1>3, <1>4, <1>5, CopyRegsKeep

\* A block begins at the pc the code is called with.
LEMMA RunStep ==
  ASSUME Traces, Blocked, Prepared, Runs, Run
  PROVE  Runs'
  <1>1. /\ phase = "compiled" /\ phase' = "running" /\ UNCHANGED <<trace, blocks, code>>
        /\ pc' = [block |-> <<"block", blocks[1]>>, at |-> 1]
        /\ slots' = [r \in GenRegs |-> Null] /\ locals' = [x \in Syms |-> NULL]
        /\ passed' = st'.regs[<<"param", 0>>] /\ owed' \in BOOLEAN
    BY DEF Run, compiled
  <1>2. PICK param \in Params : st' = Enter(CallRegs(st.regs, param), st.arrays)
    BY DEF Run
  <1>3. Whole(st)
    BY <1>1 DEF Runs
  <1> DEFINE regs == CallRegs(st.regs, param)
  <1>4. DOMAIN regs = Reg /\ regs[NullReg] = Null
    BY <1>3, CallRegsKeep DEF Whole
  <1>a. st' = Enter(regs, st.arrays)
    BY <1>2
  <1> HIDE DEF regs
  <1>5. /\ Shape(st') /\ st'.regs = regs /\ DOMAIN st'.locals = Syms
        /\ st'.wrote = {}
    BY <1>a DEF Enter, Shape, Made
  <1>6. Whole(st')
    BY <1>4, <1>5 DEF Whole
  <1>7. Written' /\ Steady'
    <2>1. \A j : j \notin st'.wrote
      BY <1>5
    <2> QED
      BY <2>1 DEF Written, Steady
  <1>8. Pointed'
    <2>1. Laid /\ WellFormed
      BY <1>1, Verified
    <2>2. PICK S : \A b \in DOMAIN code : code[b] \in Seq(S)
      BY <1>1, Verified
    <2>3. blocks[1] \in Range(blocks)
      BY <1>1, BlockFacts DEF Full
    <2>4. <<"block", blocks[1]>> \in DOMAIN code
      BY <2>1, <2>3 DEF Laid
    <2>5. code[<<"block", blocks[1]>>] # << >> /\ code[<<"block", blocks[1]>>] \in Seq(S)
      BY <2>1, <2>2, <2>4 DEF WellFormed
    <2>6. 1 \in DOMAIN code[<<"block", blocks[1]>>]
      BY <2>5
    <2> QED
      BY <1>1, <2>4, <2>6 DEF Pointed
  <1> QED
    BY <1>1, <1>6, <1>7, <1>8 DEF Runs, Phases

\* The instruction after one that does not end its block.
LEMMA NextFacts ==
  ASSUME Traces, Blocked, Prepared, phase = "running", Pointed, Here.op \notin Terminators,
         pc' = NextInst, UNCHANGED code
  PROVE  Pointed' /\ pc' = [block |-> pc.block, at |-> pc.at + 1]
  <1>1. pc.block \in DOMAIN code /\ pc.at + 1 \in DOMAIN code[pc.block]
    BY HereFacts DEF Pointed
  <1>2. pc = [block |-> pc.block, at |-> pc.at]
    BY DEF Pointed
  <1>3. pc' = [block |-> pc.block, at |-> pc.at + 1]
    BY <1>2 DEF NextInst
  <1>4. pc'.block = pc.block /\ pc'.at = pc.at + 1
    BY <1>3
  <1> QED
    BY <1>1, <1>3, <1>4 DEF Pointed

\* An instruction that computes comes from an item that writes a register.
LEMMA ComputingFacts ==
  ASSUME Traces, Blocked, Prepared, phase = "running", Pointed, Here.op \in Computing
  PROVE  \E m \in DOMAIN trace :
           /\ MadeFrom(Here, m) /\ trace[m].i.op \in Returning /\ Here.ip = trace[m].ip
           /\ Here.ret = Writes(trace[m].i) /\ Here.ret \in GenRegs \cup ArgRegs \cup {NullReg}
           /\ Here.sym = trace[m].sym
  <1>1. PICK m \in DOMAIN trace : MadeFrom(Here, m) \/ (Crossing(m) /\ Here = Jump(m))
    BY HereFacts
  <1>2. Here # Jump(m)
    BY DEF Jump, Br, Computing
  <1>3. MadeFrom(Here, m)
    BY <1>1, <1>2
  <1> QED
    BY <1>3, FromOps DEF MadeFrom, Usable

LEMMA PlainStep ==
  ASSUME Traces, Blocked, Prepared, Runs, RunPlain
  PROVE  Runs'
  <1>1. /\ phase = "running" /\ phase' = "running" /\ Here.op \in Computing
        /\ UNCHANGED <<trace, blocks, code, passed, locals>> /\ pc' = NextInst
    BY DEF RunPlain, Executes, compiled, Computing
  <1>2. /\ Whole(st) /\ Pointed /\ Written /\ Steady /\ DOMAIN slots = GenRegs /\ DOMAIN locals = Syms
        /\ st.own => passed = st.regs[<<"param", 0>>]
    BY <1>1 DEF Runs
  <1>3. PICK val \in Results :
          /\ slots' = IF Here.ret \in GenRegs THEN [slots EXCEPT ![Here.ret] = val] ELSE slots
          /\ st' = Afterwards(val)
          /\ owed' = (Owes /\ ~Raises(val))
    BY <1>2, PlainRun
  <1>4. /\ Whole(st') /\ st'.regs = Kept(val) /\ st'.locals = st.locals /\ st'.wrote = st.wrote \cup {Here.ip}
        /\ st'.own = Called.own
    BY <1>2, <1>3, AfterwardsFacts
  <1>5. PICK m \in DOMAIN trace :
          /\ MadeFrom(Here, m) /\ trace[m].i.op \in Returning /\ Here.ip = trace[m].ip
          /\ Here.ret = Writes(trace[m].i) /\ Here.ret \in GenRegs \cup ArgRegs \cup {NullReg}
    BY <1>1, <1>2, ComputingFacts
  <1>6. Pointed'
    <2>1. Here.op \notin Terminators
      BY <1>1 DEF Computing, Terminators
    <2> QED
      BY <1>1, <1>2, <2>1, NextFacts
  <1>7. Written'
    <2> SUFFICES ASSUME NEW j \in st'.wrote
                 PROVE  \E n \in DOMAIN trace' :
                          /\ trace'[n].ip = j /\ trace'[n].i.op \in Returning
                          /\ Writes(trace'[n].i) \in GenRegs \cup ArgRegs \cup {NullReg}
      BY DEF Written
    <2>1. CASE j \in st.wrote
      BY <1>1, <1>2, <2>1 DEF Written
    <2>2. CASE j = Here.ip
      BY <1>1, <1>5, <2>2
    <2> QED
      BY <1>4, <2>1, <2>2
  <1>8. Steady'
    <2>1. \A r : Writers(r)' = Writers(r)
      BY <1>1 DEF Writers
    <2> SUFFICES ASSUME NEW n \in DOMAIN trace, Constant(trace[n].i), trace[n].ip \in st'.wrote,
                        Writes(trace[n].i) \in GenRegs, \A i \in Writers(Writes(trace[n].i)) : i = n
                 PROVE  slots'[Writes(trace[n].i)] = ObjectOf(trace[n].i)
      BY <1>1, <2>1 DEF Steady
    <2> DEFINE r == Writes(trace[n].i)
    <2>2. CASE Here.ret = r
      <3>1. m \in Writers(r)
        BY <1>5, <2>2 DEF Writers
      <3>2. m = n
        BY <3>1
      <3>3. Here.op = "const" /\ Here.src = <<Const(trace[m].i.a, ObjectOf(trace[m].i))>>
        BY <1>5, <3>2, FromOps
      <3>4. Here.src[1] = Const(trace[m].i.a, ObjectOf(trace[m].i))
        BY <3>3
      <3>5. V(1) = ObjectOf(trace[n].i)
        BY <3>2, <3>4 DEF V, Const
      <3>6. val = ObjectOf(trace[n].i)
        BY <1>3, <3>3, <3>5 DEF Results
      <3> QED
        BY <1>2, <1>3, <2>2, <3>6
    <2>3. CASE Here.ret # r
      <3>1. slots'[r] = slots[r]
        BY <1>2, <1>3, <2>3
      <3>2. trace[n].ip # Here.ip
        <4>1. ASSUME trace[n].ip = Here.ip PROVE FALSE
          <5>1. n = m
            BY <1>5, <4>1 DEF Traces
          <5> QED
            BY <1>5, <2>3, <5>1
        <4> QED
          BY <4>1
      <3>3. trace[n].ip \in st.wrote
        BY <1>4, <3>2
      <3>4. slots[r] = ObjectOf(trace[n].i)
        BY <1>2, <3>3 DEF Steady
      <3> QED
        BY <3>1, <3>4
    <2> QED
      BY <2>2, <2>3
  <1>10. st'.own => passed' = st'.regs[<<"param", 0>>]
    <2> SUFFICES ASSUME st'.own PROVE passed' = st'.regs[<<"param", 0>>]
      OBVIOUS
    <2>1. Called = st
      BY <1>2, <1>4, CalledFacts
    <2>2. <<"param", 0>> \in Reg /\ <<"param", 0>> \notin ArgRegs
      BY RegisterFacts
    <2>3. st'.regs[<<"param", 0>>] = st.regs[<<"param", 0>>]
      BY <1>2, <1>4, <2>1, <2>2, KeptFacts
    <2> QED
      BY <1>1, <1>2, <1>4, <2>1, <2>3
  <1>11. DOMAIN slots' = GenRegs /\ owed' \in BOOLEAN
    BY <1>2, <1>3 DEF Runs, Owes
  <1> QED
    BY <1>1, <1>2, <1>4, <1>6, <1>7, <1>8, <1>10, <1>11 DEF Runs, Phases

\* A step that writes no register.
LEMMA StillRuns ==
  ASSUME UNCHANGED <<trace, slots>>, st'.wrote = st.wrote
  PROVE  (Written' <=> Written) /\ (Steady' <=> Steady)
  <1>1. \A r : Writers(r)' = Writers(r)
    BY DEF Writers
  <1> QED
    BY <1>1 DEF Written, Steady

LEMMA ArraySetStep ==
  ASSUME Traces, Blocked, Prepared, Runs, RunArraySet
  PROVE  Runs'
  <1>1. /\ phase = "running" /\ phase' = "running" /\ Here.op = "arrayset"
        /\ UNCHANGED <<trace, blocks, code, passed, locals, slots>> /\ pc' = NextInst /\ owed' = Owes
        /\ st' = [st EXCEPT !.arrays[V(1).v][V(2).v + 1] = V(3)]
    BY DEF RunArraySet, Executes, compiled
  <1>2. /\ Whole(st) /\ Pointed /\ Written /\ Steady /\ DOMAIN slots = GenRegs /\ DOMAIN locals = Syms
        /\ st.own => passed = st.regs[<<"param", 0>>]
    BY <1>1 DEF Runs
  <1> DEFINE arrays == [st.arrays EXCEPT ![V(1).v][V(2).v + 1] = V(3)]
  <1>3. st' = Made(st.ip, st.regs, arrays, st.locals, st.out, st.result, st.wrote, st.own)
    <2>1. st' = [st EXCEPT !.arrays = arrays]
      BY <1>1
    <2> HIDE DEF arrays
    <2> QED
      BY <1>2, <2>1 DEF Whole, Shape, Made
  <1> HIDE DEF arrays
  <1>4. /\ Shape(st') /\ st'.regs = st.regs /\ st'.locals = st.locals /\ st'.wrote = st.wrote
        /\ st'.own = st.own
    BY <1>3 DEF Shape, Made
  <1>5. Pointed'
    BY <1>1, <1>2, NextFacts DEF Terminators
  <1>6. Whole(st')
    BY <1>2, <1>4 DEF Whole
  <1>7. Written' /\ Steady'
    BY <1>1, <1>2, <1>4, StillRuns
  <1>8. owed' \in BOOLEAN
    BY <1>1 DEF Owes, Runs
  <1> QED
    BY <1>1, <1>2, <1>4, <1>5, <1>6, <1>7, <1>8 DEF Runs, Phases

LEMMA SetLocalStep ==
  ASSUME Traces, Blocked, Prepared, Runs, RunSetLocal
  PROVE  Runs'
  <1>1. /\ phase = "running" /\ phase' = "running" /\ Here.op = "setlocal"
        /\ UNCHANGED <<trace, blocks, code, passed, slots>> /\ pc' = NextInst /\ owed' = Owes
        /\ locals' = [locals EXCEPT ![Here.sym] = V(1)]
        /\ st' = [st EXCEPT !.locals[Here.sym] = WithValue(@, V(1))]
    BY DEF RunSetLocal, Executes, compiled
  <1>2. /\ Whole(st) /\ Pointed /\ Written /\ Steady /\ DOMAIN slots = GenRegs /\ DOMAIN locals = Syms
        /\ st.own => passed = st.regs[<<"param", 0>>]
    BY <1>1 DEF Runs
  <1> DEFINE locs == [st.locals EXCEPT ![Here.sym] = WithValue(@, V(1))]
  <1>3. st' = Made(st.ip, st.regs, st.arrays, locs, st.out, st.result, st.wrote, st.own)
    BY <1>1, <1>2, SetLocalForm DEF Whole
  <1>4. DOMAIN locs = Syms
    BY <1>2 DEF Whole
  <1> HIDE DEF locs
  <1>5. /\ Shape(st') /\ st'.regs = st.regs /\ st'.locals = locs /\ st'.wrote = st.wrote
        /\ st'.own = st.own
    BY <1>3 DEF Shape, Made
  <1>6. Pointed'
    BY <1>1, <1>2, NextFacts DEF Terminators
  <1>7. DOMAIN locals' = Syms
    BY <1>1, <1>2
  <1>8. Whole(st')
    BY <1>2, <1>4, <1>5 DEF Whole
  <1> QED
    BY <1>1, <1>2, <1>5, <1>6, <1>7, <1>8, StillRuns DEF Runs, Owes, Phases

LEMMA BranchStep ==
  ASSUME Traces, Blocked, Prepared, Runs, RunBranch
  PROVE  Runs'
  <1>1. /\ phase = "running" /\ phase' = "running" /\ Here.op \in {"br", "goto", "condbr"}
        /\ UNCHANGED <<trace, blocks, code, passed, slots, locals, st>>
        /\ owed' = IF Here.op = "br" THEN owed ELSE Owes
    BY DEF RunBranch, Executes, compiled
  <1>2. /\ Whole(st) /\ Pointed /\ Written /\ Steady /\ DOMAIN slots = GenRegs /\ DOMAIN locals = Syms
        /\ st.own => passed = st.regs[<<"param", 0>>]
    BY <1>1 DEF Runs
  <1> DEFINE to == IF Here.op = "condbr" /\ Falsey(V(1)) THEN Here.to[2] ELSE Here.to[1]
  <1>3. pc' = [block |-> to, at |-> 1]
    BY DEF RunBranch
  <1>4. to \in DOMAIN code
    BY <1>1, <1>2, TargetFacts
  <1> HIDE DEF to
  <1>5. 1 \in DOMAIN code[to]
    BY <1>1, <1>2, <1>4, TargetFacts
  <1>6. Pointed'
    BY <1>1, <1>3, <1>4, <1>5 DEF Pointed
  <1>7. Whole(st') /\ Written' /\ Steady'
    BY <1>1, <1>2, StillRuns
  <1>8. owed' \in BOOLEAN
    BY <1>1 DEF Owes, Runs
  <1> QED
    BY <1>1, <1>2, <1>6, <1>7, <1>8 DEF Runs, Phases

LEMMA ReturnStep ==
  ASSUME Runs, RunReturn
  PROVE  Runs'
  <1>1. /\ phase = "running" /\ phase' = "compiled" /\ UNCHANGED <<slots, locals>> /\ owed' = Owes
        /\ st' = [st EXCEPT !.ip = Here.ip, !.result = [status |-> "returned", val |-> V(1)]]
    BY DEF RunReturn, Executes
  <1>2. Whole(st)
    BY <1>1 DEF Runs
  <1> DEFINE result == [status |-> "returned", val |-> V(1)]
  <1>3. result.status = "returned"
    OBVIOUS
  <1> HIDE DEF result
  <1>4. st' = Made(Here.ip, st.regs, st.arrays, st.locals, st.out, result, st.wrote, st.own)
    BY <1>1, <1>2, ReturnForm DEF Whole, result
  <1>5. Shape(st') /\ st'.regs = st.regs /\ st'.locals = st.locals /\ st'.result = result
    BY <1>4 DEF Shape, Made
  <1> QED
    BY <1>1, <1>2, <1>3, <1>5 DEF Runs, Whole, Owes, Phases

LEMMA FaultStep ==
  ASSUME Runs, RunFaults
  PROVE  Runs'
  <1>1. /\ phase = "running" /\ phase' = "crashed" /\ UNCHANGED <<slots, locals>> /\ owed' = Owes
        /\ st' = [st EXCEPT !.result.status = "crashed"]
    BY DEF RunFaults
  <1>2. Whole(st)
    BY <1>1 DEF Runs
  <1> DEFINE result == [st.result EXCEPT !.status = "crashed"]
  <1>3. st' = [st EXCEPT !.result = result]
    BY <1>1
  <1> HIDE DEF result
  <1>4. st' = Made(st.ip, st.regs, st.arrays, st.locals, st.out, result, st.wrote, st.own)
    BY <1>2, <1>3 DEF Whole, Shape, Made
  <1>5. Shape(st') /\ st'.regs = st.regs /\ st'.locals = st.locals
    BY <1>4 DEF Shape, Made
  <1> QED
    BY <1>1, <1>2, <1>5 DEF Runs, Whole, Owes, Phases

\* Before the code is called.
Preparing == Phases \ {"compiled", "running", "crashed"}
LEMMA PreparingSteps ==
  ASSUME phase \in Phases,
         \/ Record \/ Abandon \/ Sort \/ IdentifyBlocks \/ IdentifyRegisters \/ IdentifyLocals
         \/ EmitMove \/ EmitCompare \/ EmitArraySet \/ EmitConstant \/ EmitAdd \/ EmitSetLocal
         \/ EmitGoto \/ EmitIf \/ EmitReturn \/ EmitUnknown \/ Verify
  PROVE  /\ UNCHANGED <<slots, locals, owed>> /\ phase \in Preparing
         /\ phase' \in Preparing \/ (phase = "emit" /\ phase' = "compiled" /\ st' = st)
  <1>1. Record \/ Abandon \/ Sort => (UNCHANGED <<slots, locals, owed>> /\ phase \in Preparing /\ phase' \in Preparing)
    BY DEF Record, Abandon, Sort, native, Preparing, Phases
  <1>2. IdentifyBlocks \/ IdentifyRegisters \/ IdentifyLocals =>
          (UNCHANGED <<slots, locals, owed>> /\ phase \in Preparing /\ phase' \in Preparing)
    BY DEF IdentifyBlocks, IdentifyRegisters, IdentifyLocals, Abort, native, Preparing, Phases
  <1>3. EmitMove \/ EmitCompare \/ EmitArraySet \/ EmitConstant \/ EmitAdd \/ EmitSetLocal =>
          (UNCHANGED <<slots, locals, owed>> /\ phase \in Preparing /\ phase' \in Preparing)
    BY DEF EmitMove, EmitCompare, EmitArraySet, EmitConstant, EmitAdd, EmitSetLocal, EmitPlain, Emits,
           Advance, Abort, native, Preparing, Phases
  <1>4. EmitGoto \/ EmitIf \/ EmitReturn \/ EmitUnknown =>
          (UNCHANGED <<slots, locals, owed>> /\ phase \in Preparing /\ phase' \in Preparing)
    BY DEF EmitGoto, EmitIf, EmitReturn, EmitUnknown, Emits, Advance, Abort, native, Preparing, Phases
  <1>5. Verify => /\ UNCHANGED <<slots, locals, owed>> /\ phase \in Preparing
                  /\ phase' \in Preparing \/ (phase = "emit" /\ phase' = "compiled" /\ st' = st)
    BY DEF Verify, Abort, native, Preparing, Phases
  <1> QED
    BY <1>1, <1>2, <1>3, <1>4, <1>5

LEMMA PreparingStep ==
  ASSUME Traces, Runs,
         \/ Record \/ Abandon \/ Sort \/ IdentifyBlocks \/ IdentifyRegisters \/ IdentifyLocals
         \/ EmitMove \/ EmitCompare \/ EmitArraySet \/ EmitConstant \/ EmitAdd \/ EmitSetLocal
         \/ EmitGoto \/ EmitIf \/ EmitReturn \/ EmitUnknown \/ Verify
  PROVE  Runs'
  <1>1. phase \in Phases /\ DOMAIN slots = GenRegs /\ DOMAIN locals = Syms /\ owed \in BOOLEAN
    BY DEF Runs
  <1>2. /\ UNCHANGED <<slots, locals, owed>> /\ phase \in Preparing
        /\ phase' \in Preparing \/ (phase = "emit" /\ phase' = "compiled" /\ st' = st)
    BY <1>1, PreparingSteps
  <1>3. ~owed
    BY <1>2 DEF Runs, Preparing
  <1>4. CASE phase' \in Preparing
    BY <1>1, <1>2, <1>3, <1>4 DEF Runs, Preparing, Phases
  <1>5. CASE phase = "emit" /\ phase' = "compiled" /\ st' = st
    <2>1. st \in Acts /\ st.regs[NullReg] = Null
      BY <1>5 DEF Traces, Building
    <2>2. Shape(st) /\ DOMAIN st.regs = Reg /\ DOMAIN st.locals = Syms
      BY <2>1, ActsShape DEF Acts
    <2>3. Whole(st')
      BY <1>5, <2>1, <2>2 DEF Whole
    <2> QED
      BY <1>1, <1>2, <1>3, <1>5, <2>3 DEF Runs, Phases
  <1> QED
    BY <1>2, <1>4, <1>5

\* What holds while hvm_jit_run_compiled_trace's function runs: pc is in the code, what
\* the activation wrote the items write, a constant's slot holds it, and the parameter
\* passed is the activation's until a primitive is called.
THEOREM RunsInvariant == Spec => []Runs
  <1>1. Init => Runs
    BY DEF Init, Runs, Phases
  <1>2. ASSUME Traces, Blocked, Prepared, Runs, [Next]_vars PROVE Runs'
    <2>1. CASE \/ Record \/ Abandon \/ Sort \/ IdentifyBlocks \/ IdentifyRegisters \/ IdentifyLocals
               \/ EmitMove \/ EmitCompare \/ EmitArraySet \/ EmitConstant \/ EmitAdd \/ EmitSetLocal
               \/ EmitGoto \/ EmitIf \/ EmitReturn \/ EmitUnknown \/ Verify
      BY <1>2, <2>1, PreparingStep
    <2>2. CASE Run
      BY <1>2, <2>2, RunStep
    <2>3. CASE RunPlain
      BY <1>2, <2>3, PlainStep
    <2>4. CASE RunArraySet
      BY <1>2, <2>4, ArraySetStep
    <2>5. CASE RunSetLocal
      BY <1>2, <2>5, SetLocalStep
    <2>6. CASE RunBranch
      BY <1>2, <2>6, BranchStep
    <2>7. CASE RunReturn
      BY <1>2, <2>7, ReturnStep
    <2>8. CASE RunFaults
      BY <1>2, <2>8, FaultStep
    <2>9. CASE vars' = vars
      <3>1. UNCHANGED <<phase, st, trace, code, slots, locals, owed, passed, pc>>
        BY <2>9 DEF vars, compiled, native
      <3>2. \A r : Writers(r)' = Writers(r)
        BY <3>1 DEF Writers
      <3>3. (Steady' <=> Steady) /\ (Written' <=> Written) /\ (Pointed' <=> Pointed)
        BY <3>1, <3>2 DEF Steady, Written, Pointed
      <3>4. Whole(st') <=> Whole(st)
        BY <3>1
      <3> QED
        BY <1>2, <3>1, <3>3, <3>4 DEF Runs
    <2> QED
      BY <1>2, <2>1, <2>2, <2>3, <2>4, <2>5, <2>6, <2>7, <2>8, <2>9 DEF Next
  <1> QED
    BY <1>1, <1>2, TracesInvariant, BlockedInvariant, PreparedInvariant, PTL DEF Spec

\* The state of the compiler, and of the code it runs, is of its type.
THEOREM TypeInvariant == Spec => []TypeOK
  <1>1. ASSUME Traces, Prepared, Runs PROVE TypeOK
    <2>1. trace \in Seq(Items)
      BY <1>1 DEF Traces
    <2>2. k \in 1 .. Len(trace) + 1 /\ constant_regs \subseteq Reg
      <3>1. Len(trace) \in Nat
        BY <2>1
      <3> QED
        BY <1>1, <3>1 DEF Prepared
    <2>3. \A n \in DOMAIN trace : trace[n].i.op \in Recorded /\ trace[n].sym \in Syms \cup {NULL}
      BY <1>1, ItemFacts
    <2> QED
      BY <1>1, <2>2, <2>3 DEF Runs, Phases, Pointed, TypeOK
  <1> QED
    BY <1>1, TracesInvariant, PreparedInvariant, RunsInvariant, PTL

\* Where the object of a register is part of the code the activation has it in the slot.
LEMMA ConstantFacts ==
  ASSUME Traces, Blocked, Prepared, Runs, phase = "running", Here.op = "add_direct",
         NEW m \in DOMAIN trace, MadeFrom(Here, m), NEW r, NEW src, Operand(m, r, src), r \in Reads(trace[m].i),
         src.kind = "const", NEW j \in st.wrote, j < Here.ip, Writes(body[j]) = src.reg
  PROVE  src.reg = r /\ r \in GenRegs /\ slots[r] = src.obj
  <1>1. /\ src = Const(r, src.obj) /\ r \in constant_regs
        /\ \A n \in Writers(r) : n < m => Constant(trace[n].i) /\ src.obj = ObjectOf(trace[n].i)
    BY DEF Operand, Slot
  <1>2. src.reg = r
    BY <1>1 DEF Const
  <1>3. PICK n \in DOMAIN trace : trace[n].ip = j /\ trace[n].i.op \in Returning
                                  /\ Writes(trace[n].i) \in GenRegs \cup ArgRegs \cup {NullReg}
    BY DEF Runs, Written
  <1>4. trace[n].i = body[j]
    BY <1>3 DEF Traces, ItemOK
  <1>5. n \in Writers(r)
    BY <1>2, <1>3, <1>4 DEF Writers
  <1>6. n < m
    <2>1. Here.ip = trace[m].ip
      BY DEF MadeFrom
    <2> QED
      BY <1>3, <2>1, OrderFacts DEF Early
  <1>7. Constant(trace[n].i) /\ src.obj = ObjectOf(trace[n].i)
    BY <1>1, <1>5, <1>6
  <1>8. r \in GenRegs
    <2>1. trace[m].i.op = "add"
      BY FromOps
    <2>2. Reads(trace[m].i) = {trace[m].i.b, trace[m].i.c}
      BY <2>1 DEF Reads, IntOps
    <2>3. ItemOK(trace[m])
      BY DEF Traces
    <2>4. r \notin ArgRegs /\ r # NullReg
      BY <2>1, <2>2, <2>3 DEF ItemOK
    <2> QED
      BY <1>2, <1>3, <1>4, <2>4
  <1>9. \A i \in Writers(r) : i = n
    <2>1. Cardinality(Writers(r)) < 2
      BY <1>1 DEF Prepared, Emitting
    <2> QED
      BY <1>5, <2>1, OneWriter
  <1>10. slots[r] = ObjectOf(trace[n].i)
    BY <1>2, <1>3, <1>4, <1>7, <1>8, <1>9 DEF Runs, Steady
  <1> QED
    BY <1>2, <1>7, <1>8, <1>10

\* hvm_jit_obj_int_add_direct gets the objects the registers hold, whichever way the
\* code got to the addition.
THEOREM Constants == Spec => []ConstantsAgree
  <1>1. ASSUME Traces, Blocked, Prepared, Runs PROVE ConstantsAgree
    <2> SUFFICES ASSUME phase = "running", Here.op = "add_direct", NEW n \in DOMAIN Here.src,
                        Here.src[n].kind = "const",
                        NEW j \in st.wrote, j < Here.ip, Writes(body[j]) = Here.src[n].reg
                 PROVE  slots[Here.src[n].reg] = Here.src[n].obj
      BY DEF ConstantsAgree
    <2>1. Pointed
      BY <1>1 DEF Runs
    <2>2. PICK m \in DOMAIN trace : MadeFrom(Here, m)
      BY <1>1, <2>1, ComputingFacts DEF Computing
    <2>3. /\ trace[m].i.op = "add" /\ Here.src = <<Here.src[1], Here.src[2]>>
          /\ Operand(m, trace[m].i.b, Here.src[1]) /\ Operand(m, trace[m].i.c, Here.src[2])
      BY <2>2, FromOps
    <2>4. n = 1 \/ n = 2
      BY <2>3
    <2>5. trace[m].i.b \in Reads(trace[m].i) /\ trace[m].i.c \in Reads(trace[m].i)
      BY <2>3 DEF Reads, IntOps
    <2>6. \E r \in Reads(trace[m].i) : Operand(m, r, Here.src[n])
      BY <2>3, <2>4, <2>5
    <2> QED
      BY <1>1, <2>2, <2>6, ConstantFacts
  <1> QED
    BY <1>1, TracesInvariant, BlockedInvariant, PreparedInvariant, RunsInvariant, PTL

--------------------------------------------------------------------------------
(* The runs implement the interpreter *)

\* The operators of the abstract specification are those of the activation.
LEMMA SameOperators ==
  /\ \A s : Interpreted!I(s) = I(s) /\ Interpreted!A(s) = A(s) /\ Interpreted!B(s) = B(s) /\ Interpreted!C(s) = C(s)
  /\ \A val, type : Interpreted!IsA(val, type) <=> IsA(val, type)
  /\ \A val : Interpreted!Falsey(val) <=> Falsey(val)
  /\ \A i : Interpreted!Reads(i) = Reads(i) /\ Interpreted!Writes(i) = Writes(i)
  /\ \A s, arr, idx : Interpreted!InArray(s, arr, idx) <=> InArray(s, arr, idx)
  /\ \A s : Interpreted!Assigned(s) = Assigned(s)
  /\ \A regs : Interpreted!CopyRegs(regs) = CopyRegs(regs)
  /\ \A regs, arrays : Interpreted!Enter(regs, arrays) = Enter(regs, arrays)
  /\ \A s, sym : Interpreted!CallPrimitive(s, sym) = CallPrimitive(s, sym)
  /\ \A s, r, val : Interpreted!Write(s, r, val) = Write(s, r, val)
  <1>1. /\ \A s : Interpreted!I(s) = I(s) /\ Interpreted!A(s) = A(s) /\ Interpreted!B(s) = B(s) /\ Interpreted!C(s) = C(s)
        /\ \A val, type : Interpreted!IsA(val, type) <=> IsA(val, type)
        /\ \A val : Interpreted!Falsey(val) <=> Falsey(val)
    BY DEF Interpreted!I, Interpreted!A, Interpreted!B, Interpreted!C, I, A, B, C, Interpreted!IsA, IsA,
           Interpreted!Falsey, Falsey
  <1>2. \A i : Interpreted!Reads(i) = Reads(i) /\ Interpreted!Writes(i) = Writes(i)
    BY DEF Interpreted!Reads, Reads, Interpreted!Writes, Writes, Interpreted!IntOps, IntOps,
           Interpreted!NullReg, NullReg
  <1>3. \A s, arr, idx : Interpreted!InArray(s, arr, idx) <=> InArray(s, arr, idx)
    BY <1>1 DEF Interpreted!InArray, InArray
  <1>4. \A s : Interpreted!Assigned(s) = Assigned(s)
    BY <1>2 DEF Interpreted!Assigned, Assigned
  <1>5. \A regs : Interpreted!CopyRegs(regs) = CopyRegs(regs)
    BY DEF Interpreted!CopyRegs, CopyRegs, Interpreted!Reg, Reg, Interpreted!GenRegs, GenRegs,
           Interpreted!ArgRegs, ArgRegs, Interpreted!ParamRegs, ParamRegs, Interpreted!ZeroReg, ZeroReg,
           Interpreted!NullReg, NullReg
  <1>6. \A regs, arrays : Interpreted!Enter(regs, arrays) = Enter(regs, arrays)
    BY DEF Interpreted!Enter, Enter
  <1>7. \A s, sym : Interpreted!CallPrimitive(s, sym) = CallPrimitive(s, sym)
    BY <1>5 DEF Interpreted!CallPrimitive, CallPrimitive
  <1>8. \A s, r, val : Interpreted!Write(s, r, val) = Write(s, r, val)
    BY DEF Interpreted!Write, Write, Interpreted!GenRegs, GenRegs, Interpreted!ArgRegs, ArgRegs
  <1> QED
    BY <1>1, <1>2, <1>3, <1>4, <1>5, <1>6, <1>7, <1>8

LEMMA SameSteps ==
  ASSUME NEW s
  PROVE  /\ Interpreted!Steps(s) = Steps(s)
         /\ Interpreted!Sound(s) <=> Sound(s)
         /\ Interpreted!MayRaise(s) <=> MayRaise(s)
  <1>0. /\ \A vals, val : Interpreted!WithValue(vals, val) = WithValue(vals, val)
        /\ \A x : Interpreted!Lookup(s, x) = Lookup(s, x)
    BY DEF Interpreted!WithValue, WithValue, Interpreted!Lookup, Lookup
  <1>1. Interpreted!Sound(s) <=> Sound(s)
    BY SameOperators DEF Interpreted!Sound, Sound, Interpreted!IntOps, IntOps, Interpreted!ArgRegs, ArgRegs,
                         Interpreted!ParamRegs, ParamRegs
  <1>2. Interpreted!MayRaise(s) <=> MayRaise(s)
    BY <1>0, SameOperators DEF Interpreted!MayRaise, MayRaise
  <1>3. Interpreted!Value(s) = Value(s)
    BY SameOperators DEF Interpreted!Value, Value, Interpreted!IntOf, IntOf, Interpreted!Bool, Bool,
                         Interpreted!Signed, Signed
  <1>4. Interpreted!Steps(s) = Steps(s)
    <2>0. Interpreted!I(s) = I(s) /\ Interpreted!A(s) = A(s) /\ Interpreted!B(s) = B(s)
      BY SameOperators
    <2>1. CASE I(s).op = "setlocal"
      <3> DEFINE x == A(s).v
                 val == B(s)
      <3>1. Interpreted!Steps(s) = {[s EXCEPT !.locals[x] = Interpreted!WithValue(@, val), !.ip = @ + 1]}
        BY <2>0, <2>1 DEF Interpreted!Steps
      <3>2. Steps(s) = {[s EXCEPT !.locals[x] = WithValue(@, val), !.ip = @ + 1]}
        BY <2>1 DEF Steps
      <3> HIDE DEF x, val
      <3> DEFINE mine == WithValue(s.locals[x], val)
                 its == Interpreted!WithValue(s.locals[x], val)
      <3>3. mine = its
        BY <1>0
      <3>4. Interpreted!Steps(s) = {[s EXCEPT !.locals[x] = its, !.ip = @ + 1]}
        BY <3>1
      <3>5. Steps(s) = {[s EXCEPT !.locals[x] = mine, !.ip = @ + 1]}
        BY <3>2
      <3> HIDE DEF mine, its
      <3> QED
        BY <3>3, <3>4, <3>5
    <2>2. CASE I(s).op = "getlocal"
      <3>1. Interpreted!Steps(s) = {Interpreted!Write(s, I(s).a, val) : val \in Interpreted!Lookup(s, B(s).v) \ {NULL}}
        BY <2>0, <2>2 DEF Interpreted!Steps
      <3>2. Steps(s) = {Write(s, I(s).a, val) : val \in Lookup(s, B(s).v) \ {NULL}}
        BY <2>2 DEF Steps
      <3> QED
        BY <1>0, <3>1, <3>2, SameOperators
    <2>3. CASE I(s).op \notin {"setlocal", "getlocal"}
      BY <1>3, <2>3, SameOperators DEF Interpreted!Steps, Steps
    <2> QED
      BY <2>1, <2>2, <2>3
  <1> QED
    BY <1>1, <1>2, <1>4

\* What being in the scope says.
LEMMA ScopeFacts ==
  ASSUME NEW s, Interpreted!InScope(s)
  PROVE  /\ Sound(s) /\ I(s).op \in Compilable
         /\ Reads(I(s)) \cap GenRegs \subseteq Assigned(s)
         /\ Reads(I(s)) \cap ParamRegs \subseteq {<<"param", 0>>}
         /\ Reads(I(s)) \cap ParamRegs # {} => s.own
         /\ I(s).op = "and" => C(s) # NULL
         /\ I(s).op = "add" => \A r \in Reads(I(s)) : \E j \in s.wrote : j < s.ip /\ Writes(body[j]) = r
         /\ I(s).op \in {"setlocal", "getlocal"} =>
              \E j \in s.wrote : /\ body[j].op = "set"
                                 /\ \A n \in DOMAIN body : Writes(body[n]) = Named(I(s)) <=> n = j
         /\ I(s).op = "setlocal" => s.locals[A(s).v] \in {<<>>, <<B(s)>>}
         /\ \A t \in Steps(s) : t.result.status = "running" => t.ip \in DOMAIN body /\ body[t.ip].op \in Recorded
  <1>1. /\ Interpreted!Sound(s) /\ Interpreted!I(s).op \in Interpreted!Compilable
        /\ Interpreted!Reads(Interpreted!I(s)) \cap Interpreted!GenRegs \subseteq Interpreted!Assigned(s)
        /\ Interpreted!Reads(Interpreted!I(s)) \cap Interpreted!ParamRegs \subseteq {<<"param", 0>>}
        /\ Interpreted!Reads(Interpreted!I(s)) \cap Interpreted!ParamRegs # {} => s.own
        /\ Interpreted!I(s).op = "and" => Interpreted!C(s) # NULL
        /\ Interpreted!I(s).op = "add" =>
             \A r \in Interpreted!Reads(Interpreted!I(s)) :
               \E j \in s.wrote : j < s.ip /\ Interpreted!Writes(body[j]) = r
        /\ Interpreted!I(s).op = "setlocal" => s.locals[Interpreted!A(s).v] \in {<<>>, <<Interpreted!B(s)>>}
    BY DEF Interpreted!InScope
  <1>2. \A t \in Interpreted!Steps(s) :
          t.result.status = "running" => t.ip \in DOMAIN body /\ body[t.ip].op \in Interpreted!Recorded
    BY DEF Interpreted!InScope
  <1>3. Interpreted!I(s).op \in {"setlocal", "getlocal"} =>
          \E j \in s.wrote :
            /\ body[j].op = "set"
            /\ \A n \in DOMAIN body :
                 Interpreted!Writes(body[n]) =
                   (IF Interpreted!I(s).op = "setlocal" THEN Interpreted!I(s).a ELSE Interpreted!I(s).b) <=> n = j
    BY DEF Interpreted!InScope
  <1>4. I(s).op \in {"setlocal", "getlocal"} =>
          \E j \in s.wrote : /\ body[j].op = "set"
                             /\ \A n \in DOMAIN body : Writes(body[n]) = Named(I(s)) <=> n = j
    BY <1>3, SameOperators DEF Named
  <1>5. /\ Interpreted!GenRegs = GenRegs /\ Interpreted!ParamRegs = ParamRegs
        /\ Interpreted!Compilable = Compilable /\ Interpreted!Recorded = Recorded
    BY DEF Interpreted!GenRegs, GenRegs, Interpreted!ParamRegs, ParamRegs, Interpreted!Compilable, Compilable,
           Interpreted!Recorded, Recorded
  <1>6. Sound(s) /\ Interpreted!Steps(s) = Steps(s)
    BY <1>1, SameSteps
  <1>7. \A t \in Steps(s) : t.result.status = "running" => t.ip \in DOMAIN body /\ body[t.ip].op \in Recorded
    BY <1>2, <1>5, <1>6
  <1>8. /\ I(s).op \in Compilable
        /\ Reads(I(s)) \cap GenRegs \subseteq Assigned(s)
        /\ Reads(I(s)) \cap ParamRegs \subseteq {<<"param", 0>>}
        /\ Reads(I(s)) \cap ParamRegs # {} => s.own
        /\ I(s).op = "and" => C(s) # NULL
        /\ I(s).op = "add" => \A r \in Reads(I(s)) : \E j \in s.wrote : j < s.ip /\ Writes(body[j]) = r
        /\ I(s).op = "setlocal" => s.locals[A(s).v] \in {<<>>, <<B(s)>>}
    BY <1>1, <1>5, SameOperators
  <1> QED
    BY <1>4, <1>6, <1>7, <1>8

\* The activation the run is mapped to, field by field.
Address == IF phase = "running" THEN Here.ip ELSE st.ip
Mirror == [r \in Reg |-> IF owed /\ r \in GenRegs \cap Assigned(st) THEN slots[r] ELSE st.regs[r]]

LEMMA MapForm ==
  ASSUME NEW s, Shape(s), NEW ip, NEW regs
  PROVE  [s EXCEPT !.ip = ip, !.regs = regs] =
           Made(ip, regs, s.arrays, s.locals, s.out, s.result, s.wrote, s.own)
  <1> DEFINE t == [s EXCEPT !.ip = ip]
  <1>1. [s EXCEPT !.ip = ip, !.regs = regs] = [t EXCEPT !.regs = regs]
    OBVIOUS
  <1>2. t = Made(ip, s.regs, s.arrays, s.locals, s.out, s.result, s.wrote, s.own)
    BY DEF Shape, Made
  <1> HIDE DEF t
  <1>3. [t EXCEPT !.regs = regs] = Made(ip, regs, s.arrays, s.locals, s.out, s.result, s.wrote, s.own)
    BY <1>2 DEF Made
  <1> QED
    BY <1>1, <1>3

LEMMA FieldFacts ==
  ASSUME NEW ip, NEW regs, NEW arrays, NEW locs, NEW out, NEW result, NEW wrote, NEW own, NEW s,
         s = Made(ip, regs, arrays, locs, out, result, wrote, own)
  PROVE  /\ Shape(s) /\ s.ip = ip /\ s.regs = regs /\ s.arrays = arrays /\ s.locals = locs /\ s.out = out
         /\ s.result = result /\ s.wrote = wrote /\ s.own = own
  BY DEF Shape, Made

LEMMA MappedFacts ==
  ASSUME Whole(st)
  PROVE  /\ Mapped = Made(Address, Mirror, st.arrays, st.locals, st.out, st.result, st.wrote, st.own)
         /\ Shape(Mapped) /\ Mapped.ip = Address /\ Mapped.regs = Mirror /\ Mapped.arrays = st.arrays
         /\ Mapped.locals = st.locals /\ Mapped.out = st.out /\ Mapped.result = st.result
         /\ Mapped.wrote = st.wrote /\ Mapped.own = st.own
  <1>1. Mapped = [st EXCEPT !.ip = Address, !.regs = Mirror]
    BY DEF Mapped, Address, Mirror
  <1>2. Mapped = Made(Address, Mirror, st.arrays, st.locals, st.out, st.result, st.wrote, st.own)
    BY <1>1, MapForm DEF Whole
  <1> QED
    BY <1>2, FieldFacts

LEMMA MappedNext ==
  ASSUME Whole(st')
  PROVE  Mapped' = Made(Address', Mirror', st'.arrays, st'.locals, st'.out, st'.result, st'.wrote, st'.own)
  <1>1. Mapped' = [st' EXCEPT !.ip = Address', !.regs = Mirror']
    BY DEF Mapped, Address, Mirror
  <1> QED
    BY <1>1, MapForm DEF Whole

\* The instruction of the interpreter that is due is the item's.
LEMMA ItemHere ==
  ASSUME Traces, Runs, phase = "running", NEW m \in DOMAIN trace, MadeFrom(Here, m)
  PROVE  /\ Mapped.ip = trace[m].ip /\ Here.ip = trace[m].ip /\ I(Mapped) = trace[m].i
         /\ body[Here.ip] = trace[m].i /\ ItemOK(trace[m])
  <1>1. Mapped.ip = Here.ip
    BY MappedFacts DEF Address, Runs
  <1>2. Here.ip = trace[m].ip
    BY DEF MadeFrom
  <1>3. ItemOK(trace[m])
    BY DEF Traces
  <1> QED
    BY <1>1, <1>2, <1>3 DEF I, ItemOK

\* What it reads is in the slots, or was passed to the function.
LEMMA ReadsAgree ==
  ASSUME Runs, phase = "running", owed, Interpreted!InScope(Mapped), NEW r \in Reads(I(Mapped))
  PROVE  /\ r \in GenRegs => Mapped.regs[r] = slots[r] /\ r \in Assigned(st)
         /\ r \in ParamRegs => r = <<"param", 0>> /\ Mapped.regs[r] = passed
         /\ r \notin GenRegs /\ r \in Reg => Mapped.regs[r] = st.regs[r]
  <1>1. /\ Mapped.regs = Mirror /\ Mapped.own = st.own /\ Assigned(Mapped) = Assigned(st)
    BY MappedFacts DEF Runs, Assigned
  <1>2. \A x \in Reg : Mapped.regs[x] = IF x \in GenRegs \cap Assigned(st) THEN slots[x] ELSE st.regs[x]
    BY <1>1 DEF Mirror
  <1>3. Reads(I(Mapped)) \cap GenRegs \subseteq Assigned(Mapped)
    BY ScopeFacts
  <1>4. r \in ParamRegs => r = <<"param", 0>> /\ st.own
    BY <1>1, ScopeFacts
  <1>5. <<"param", 0>> \in Reg /\ <<"param", 0>> \notin GenRegs /\ GenRegs \subseteq Reg
    BY RegisterFacts
  <1>6. st.own => passed = st.regs[<<"param", 0>>]
    BY DEF Runs
  <1> QED
    BY <1>1, <1>2, <1>3, <1>4, <1>5, <1>6

LEMMA LoadsRead ==
  ASSUME NEW i
  PROVE  /\ i.op \in {"add", "eq", "gt", "and", "arrayget"} => Loads(i) = <<i.b, i.c>> /\ Reads(i) = {i.b, i.c}
         /\ i.op = "arrayset" => Loads(i) = <<i.a, i.b, i.c>> /\ Reads(i) = {i.a, i.b, i.c}
         /\ i.op = "setlocal" => Loads(i) = <<i.b>> /\ Reads(i) = {i.a, i.b}
         /\ i.op \in {"move", "arraylen"} => Loads(i) = <<i.b>> /\ Reads(i) = {i.b}
         /\ i.op \in {"if", "return", "invokeprimitive"} => Loads(i) = <<i.a>> /\ Reads(i) = {i.a}
         /\ i.op = "getlocal" => Reads(i) = {i.b}
  BY DEF Loads, Reads, IntOps

\* What a native instruction loads is what the interpreter's registers would hold.
LEMMA LoadAgrees ==
  ASSUME Traces, Runs, phase = "running", owed, Interpreted!InScope(Mapped),
         NEW m \in DOMAIN trace, MadeFrom(Here, m), Here.src = LoadedBy(trace[m].i),
         NEW n \in DOMAIN Loads(trace[m].i), Loads(trace[m].i)[n] \in Reads(trace[m].i)
  PROVE  /\ V(n) = Mapped.regs[Loads(trace[m].i)[n]]
         /\ Here.src[n].kind = "param" => Here.src[n].reg = <<"param", 0>>
  <1> DEFINE i == trace[m].i
             r == Loads(i)[n]
  <1>1. I(Mapped) = i
    BY ItemHere
  <1>2. n \in DOMAIN Here.src /\ Here.src[n] = LoadBy(i, r)
    BY DEF LoadedBy
  <1>3. /\ r \in GenRegs => Mapped.regs[r] = slots[r]
        /\ r \in ParamRegs => r = <<"param", 0>> /\ Mapped.regs[r] = passed
    BY <1>1, ReadsAgree
  <1>4. CASE i.op = "move" /\ r \in ParamRegs
    <2>1. Here.src[n] = Param(r)
      BY <1>2, <1>4 DEF LoadBy
    <2>2. Here.src[n].kind = "param" /\ Here.src[n].reg = r
      BY <2>1 DEF Param
    <2>3. V(n) = passed
      BY <2>2 DEF V
    <2> QED
      BY <1>3, <1>4, <2>2, <2>3
  <1>5. CASE ~(i.op = "move" /\ r \in ParamRegs)
    <2>1. Here.src[n] = Slot(r)
      BY <1>2, <1>5 DEF LoadBy
    <2>2. Here.src[n].kind = "slot" /\ Here.src[n].reg = r
      BY <2>1 DEF Slot
    <2>3. r \in GenRegs
      BY <1>2, <2>2 DEF MadeFrom, Usable
    <2>4. V(n) = slots[r]
      BY <2>2 DEF V
    <2> QED
      BY <1>3, <2>2, <2>3, <2>4
  <1> QED
    BY <1>4, <1>5

LEMMA ValuesAgree ==
  ASSUME Traces, Blocked, Prepared, Runs, phase = "running", owed, Interpreted!InScope(Mapped),
         NEW m \in DOMAIN trace, MadeFrom(Here, m)
  PROVE  /\ Here.op \in {"add", "add_direct", "eq", "gt", "and", "arrayget"} => V(1) = B(Mapped) /\ V(2) = C(Mapped)
         /\ Here.op = "arrayset" => V(1) = A(Mapped) /\ V(2) = B(Mapped) /\ V(3) = C(Mapped)
         /\ Here.op \in {"setlocal", "arraylen", "move"} => V(1) = B(Mapped)
         /\ Here.op = "move" => (Here.src[1].kind = "param" => Here.src[1].reg = <<"param", 0>>)
         /\ Here.op \in {"condbr", "ret", "invokeprimitive"} => V(1) = A(Mapped)
         /\ Here.op = "const" => V(1) = ObjectOf(trace[m].i)
  <1> DEFINE i == trace[m].i
  <1>1. I(Mapped) = i /\ Mapped.ip = Here.ip /\ Mapped.wrote = st.wrote
    BY ItemHere, MappedFacts DEF Runs
  <1>2. A(Mapped) = Mapped.regs[i.a] /\ B(Mapped) = Mapped.regs[i.b] /\ C(Mapped) = Mapped.regs[i.c]
    BY <1>1 DEF A, B, C
  <1>3. CASE Here.op = "const"
    <2>1. Here.src = <<Const(i.a, ObjectOf(i))>>
      BY <1>3, FromOps
    <2>2. Here.src[1] = Const(i.a, ObjectOf(i))
      BY <2>1
    <2>3. V(1) = ObjectOf(i)
      BY <2>2 DEF V, Const
    <2> QED
      BY <1>3, <2>3
  <1>4. CASE Here.op = "add_direct"
    <2>1. /\ i.op = "add" /\ Here.src = <<Here.src[1], Here.src[2]>>
          /\ Operand(m, i.b, Here.src[1]) /\ Operand(m, i.c, Here.src[2])
      BY <1>4, FromOps
    <2>2. 1 \in DOMAIN Here.src /\ 2 \in DOMAIN Here.src
      BY <2>1
    <2>3. ASSUME NEW r \in Reads(i), NEW n \in DOMAIN Here.src, Operand(m, r, Here.src[n])
          PROVE  V(n) = Mapped.regs[r]
      <3>1. r \in GenRegs => Mapped.regs[r] = slots[r]
        BY <1>1, <2>3, ReadsAgree
      <3>2. CASE Here.src[n] = Slot(r)
        <4>1. Here.src[n].kind = "slot" /\ Here.src[n].reg = r
          BY <3>2 DEF Slot
        <4>2. r \in GenRegs
          BY <2>3, <4>1 DEF MadeFrom, Usable
        <4> QED
          BY <3>1, <4>1, <4>2 DEF V
      <3>3. CASE Here.src[n] = Const(r, Here.src[n].obj)
        <4>1. Here.src[n].kind = "const" /\ Here.src[n].reg = r
          BY <3>3 DEF Const
        <4>2. PICK j \in st.wrote : j < Here.ip /\ Writes(body[j]) = r
          BY <1>1, <2>1, <2>3, ScopeFacts
        <4>3. r \in GenRegs /\ slots[r] = Here.src[n].obj
          BY <1>4, <2>3, <4>1, <4>2, ConstantFacts
        <4>4. V(n) = Here.src[n].obj
          BY <4>1 DEF V
        <4> QED
          BY <3>1, <4>3, <4>4
      <3> QED
        BY <2>3, <3>2, <3>3 DEF Operand
    <2>4. i.b \in Reads(i) /\ i.c \in Reads(i)
      BY <2>1, LoadsRead
    <2>5. V(1) = Mapped.regs[i.b]
      BY <2>1, <2>2, <2>3, <2>4
    <2>6. V(2) = Mapped.regs[i.c]
      BY <2>1, <2>2, <2>3, <2>4
    <2> QED
      BY <1>2, <1>4, <2>5, <2>6
  <1>5. CASE Here.op \notin {"const", "add_direct"}
    <2>1. Here.src = LoadedBy(i)
      BY <1>5, FromOps
    <2>2. \A n \in DOMAIN Loads(i) : Loads(i)[n] \in Reads(i) =>
            /\ V(n) = Mapped.regs[Loads(i)[n]]
            /\ Here.src[n].kind = "param" => Here.src[n].reg = <<"param", 0>>
      BY <2>1, LoadAgrees
    <2>3. CASE Here.op \in {"add", "eq", "gt", "and", "arrayget"}
      <3>1. i.op = Here.op
        BY <2>3, FromOps
      <3>2. Loads(i) = <<i.b, i.c>> /\ Reads(i) = {i.b, i.c}
        BY <2>3, <3>1, LoadsRead
      <3>3. V(1) = Mapped.regs[i.b] /\ V(2) = Mapped.regs[i.c]
        BY <2>2, <3>2
      <3> QED
        BY <1>2, <2>3, <3>3
    <2>4. CASE Here.op = "arrayset"
      <3>1. i.op = "arrayset"
        BY <2>4, FromOps
      <3>2. Loads(i) = <<i.a, i.b, i.c>> /\ Reads(i) = {i.a, i.b, i.c}
        BY <3>1, LoadsRead
      <3>3. V(1) = Mapped.regs[i.a] /\ V(2) = Mapped.regs[i.b] /\ V(3) = Mapped.regs[i.c]
        BY <2>2, <3>2
      <3> QED
        BY <1>2, <2>4, <3>3
    <2>5. CASE Here.op \in {"setlocal", "arraylen", "move"}
      <3>1. i.op = Here.op
        BY <2>5, FromOps
      <3>2. Loads(i) = <<i.b>> /\ i.b \in Reads(i)
        BY <2>5, <3>1, LoadsRead
      <3>3. /\ V(1) = Mapped.regs[i.b]
            /\ Here.src[1].kind = "param" => Here.src[1].reg = <<"param", 0>>
        BY <2>2, <3>2
      <3> QED
        BY <1>2, <2>5, <3>3
    <2>6. CASE Here.op \in {"condbr", "ret", "invokeprimitive"}
      <3>1. i.op \in {"if", "return", "invokeprimitive"}
        BY <2>6, FromOps
      <3>2. Loads(i) = <<i.a>> /\ i.a \in Reads(i)
        BY <3>1, LoadsRead
      <3>3. V(1) = Mapped.regs[i.a]
        BY <2>2, <3>2
      <3> QED
        BY <1>2, <2>6, <3>3
    <2> QED
      BY <1>5, <2>3, <2>4, <2>5, <2>6
  <1> QED
    BY <1>3, <1>4, <1>5

\* The local an instruction names is the one that is in its code.
LEMMA SymbolAgrees ==
  ASSUME Traces, Blocked, Prepared, Runs, phase = "running", owed, Interpreted!InScope(Mapped),
         NEW m \in DOMAIN trace, MadeFrom(Here, m), trace[m].i.op \in {"setlocal", "getlocal"}
  PROVE  /\ Here.sym \in Syms /\ Here.sym = Mapped.regs[Named(trace[m].i)].v
  <1> DEFINE i == trace[m].i
             r == Named(i)
  <1>1. I(Mapped) = i /\ Mapped.wrote = st.wrote /\ Mapped.regs = Mirror /\ ItemOK(trace[m])
    BY ItemHere, MappedFacts DEF Runs
  <1>2. PICK j \in st.wrote : /\ body[j].op = "set"
                              /\ \A n \in DOMAIN body : Writes(body[n]) = r <=> n = j
    BY <1>1, ScopeFacts
  <1>3. PICK n \in DOMAIN trace : /\ trace[n].ip = j /\ trace[n].i.op \in Returning
                                  /\ Writes(trace[n].i) \in GenRegs \cup ArgRegs \cup {NullReg}
    BY DEF Runs, Written
  <1>4. trace[n].i = body[j] /\ j \in DOMAIN body
    BY <1>3 DEF Traces, ItemOK
  <1>5. Names(r, j) /\ Writes(trace[n].i) = r
    BY <1>2, <1>4 DEF Names
  <1>6. r \in Reads(i) /\ Reads(i) \cap ArgRegs = {} /\ IsA(Mapped.regs[r], "symbol")
    <2>1. Sound(Mapped)
      BY ScopeFacts
    <2>2. Reads(i) \cap ArgRegs = {} /\ (i.op = "setlocal" => IsA(A(Mapped), "symbol"))
          /\ (i.op = "getlocal" => IsA(B(Mapped), "symbol"))
      BY <1>1, <2>1 DEF Sound
    <2>3. r \in Reads(i)
      BY LoadsRead DEF Named
    <2> QED
      BY <1>1, <2>2, <2>3 DEF A, B, Named
  <1>7. r # NullReg
    <2>1. st.regs[NullReg] = Null
      BY DEF Runs, Whole
    <2>2. Mapped.regs[NullReg] = Null
      BY <1>1, <2>1, RegisterFacts DEF Mirror
    <2> QED
      BY <1>6, <2>2 DEF IsA, Null
  <1>8. r \in GenRegs
    BY <1>3, <1>5, <1>6, <1>7
  <1>9. Here.sym = trace[m].sym /\ trace[m].sym \in Syms /\ trace[m].sym = ConstPool[body[j].dest].v
    <2>1. Here.sym = trace[m].sym
      BY DEF MadeFrom
    <2> QED
      BY <1>1, <1>4, <1>5, <1>8, <2>1 DEF ItemOK
  <1>10. \A l \in Writers(r) : l = n
    <2> SUFFICES ASSUME NEW l \in Writers(r) PROVE l = n
      OBVIOUS
    <2>1. l \in DOMAIN trace /\ Writes(trace[l].i) = r
      BY DEF Writers
    <2>2. trace[l].i = body[trace[l].ip] /\ trace[l].ip \in DOMAIN body
      BY <2>1 DEF Traces, ItemOK
    <2>3. trace[l].ip = j
      BY <1>2, <2>1, <2>2
    <2> QED
      BY <1>3, <2>1, <2>3 DEF Traces
  <1>11. slots[r] = ConstPool[body[j].dest]
    <2>1. Constant(trace[n].i) /\ ObjectOf(trace[n].i) = ConstPool[body[j].dest]
      BY <1>2, <1>4 DEF Constant, ObjectOf
    <2> QED
      BY <1>3, <1>5, <1>8, <1>10, <2>1 DEF Runs, Steady
  <1>12. Mapped.regs[r] = slots[r]
    BY <1>1, <1>6, <1>8, ReadsAgree
  <1> QED
    BY <1>9, <1>11, <1>12

\* The code goes on where the interpreter does.
LEMMA GoesOn ==
  ASSUME Traces, Blocked, Prepared, Runs, phase = "running", Interpreted!InScope(Mapped),
         NEW m \in DOMAIN trace, MadeFrom(Here, m), Plain(trace[m].i), pc' = NextInst, UNCHANGED code,
         NEW t \in Steps(Mapped), t.result = Mapped.result, t.ip = Mapped.ip + 1
  PROVE  Here'.ip = Mapped.ip + 1
  <1>1. Mapped.ip = trace[m].ip /\ trace[m].ip \in Nat /\ m \in Nat
    BY ItemHere, ItemFacts
  <1>2. t.ip \in DOMAIN body /\ body[t.ip].op \in Recorded
    <2>1. Mapped.result.status = "running"
      BY ScopeFacts DEF Sound
    <2> QED
      BY <2>1, ScopeFacts
  <1>3. trace[m].ip + 1 \in Ips
    <2>1. Onward(trace[m].ip + 1)
      BY DEF Traces
    <2> QED
      BY <1>1, <1>2, <2>1 DEF Onward
  <1>4. PICK l \in DOMAIN trace : trace[l].ip = trace[m].ip + 1
    BY <1>3 DEF Ips
  <1>5. Pointed
    BY DEF Runs
  <1>6. Here.op \notin Terminators
    BY FromFacts
  <1>7. Follows(pc.block, pc.at)
    BY <1>5, <1>6, HereFacts
  <1>8. PICK n \in DOMAIN trace : /\ n + 1 \in DOMAIN trace /\ code[pc.block][pc.at].ip = trace[n].ip
                                  /\ code[pc.block][pc.at + 1].ip = trace[n + 1].ip
    BY <1>7 DEF Follows
  <1>9. n = m
    <2>1. trace[n].ip = trace[m].ip
      BY <1>8, ItemHere DEF Here
    <2> QED
      BY <2>1 DEF Traces
  <1>10. trace[m + 1].ip = trace[m].ip + 1
    <2>1. l \in Nat /\ trace[m + 1].ip \in Nat /\ m + 1 \in DOMAIN trace
      BY <1>4, <1>8, <1>9, ItemFacts
    <2>2. /\ m < l <=> trace[m].ip < trace[l].ip
          /\ m < m + 1 <=> trace[m].ip < trace[m + 1].ip
          /\ m + 1 < l <=> trace[m + 1].ip < trace[l].ip
      BY <2>1, OrderFacts DEF Early
    <2>3. m < l /\ trace[m].ip < trace[m + 1].ip
      BY <1>1, <1>4, <2>1, <2>2
    <2>4. ~(trace[m + 1].ip < trace[l].ip)
      BY <1>1, <1>4, <2>1, <2>3
    <2>5. l = m + 1
      BY <1>1, <2>1, <2>2, <2>3, <2>4
    <2> QED
      BY <1>4, <2>5
  <1>11. Here' = code[pc.block][pc.at + 1]
    <2>1. pc' = [block |-> pc.block, at |-> pc.at + 1]
      BY <1>5, <1>6, NextFacts
    <2>2. pc'.block = pc.block /\ pc'.at = pc.at + 1
      BY <2>1
    <2> QED
      BY <2>2 DEF Here
  <1> QED
    BY <1>1, <1>8, <1>9, <1>10, <1>11

\* The native instruction stores what the interpreter computes.
LEMMA ValueComputed ==
  ASSUME Traces, Blocked, Prepared, Runs, phase = "running", owed, Interpreted!InScope(Mapped),
         NEW m \in DOMAIN trace, MadeFrom(Here, m), NEW val \in Results,
         Here.op \in Computing \ {"getlocal", "invokeprimitive"}
  PROVE  val = Value(Mapped)
  <1> DEFINE s == Mapped
  <1>1. I(s) = trace[m].i /\ Sound(s) /\ s.arrays = st.arrays /\ (I(s).op = "and" => C(s) # NULL)
    BY ItemHere, ScopeFacts, MappedFacts DEF Runs
  <1>2. CASE Here.op = "const"
    <2>1. Constant(trace[m].i) /\ V(1) = ObjectOf(trace[m].i)
      BY <1>2, FromOps, ValuesAgree
    <2>2. val = V(1)
      BY <1>2 DEF Results
    <2> QED
      BY <1>1, <2>1, <2>2 DEF Value, Constant, ObjectOf
  <1>3. CASE Here.op = "move"
    <2>1. I(s).op = "move"
      BY <1>1, <1>3, FromOps
    <2>2. V(1) = B(s) /\ (Here.src[1].kind = "param" => Here.src[1].reg = <<"param", 0>>)
      BY <1>3, ValuesAgree
    <2>3. val = V(1)
      BY <1>3, <2>2 DEF Results
    <2> QED
      BY <2>1, <2>2, <2>3 DEF Value
  <1>4. CASE Here.op \in {"add", "add_direct"}
    <2>1. I(s).op = "add"
      BY <1>1, <1>4, FromOps
    <2>2. V(1) = B(s) /\ V(2) = C(s)
      BY <1>4, ValuesAgree
    <2>3. Ints
      BY <1>1, <2>1, <2>2 DEF Sound, IntOps, Ints
    <2>4. val = IntOf((V(1).v + V(2).v) % IntMod)
      BY <1>4, <2>3 DEF Results
    <2> QED
      BY <2>1, <2>2, <2>4 DEF Value
  <1>5. CASE Here.op = "eq"
    <2>1. I(s).op = "eq"
      BY <1>1, <1>5, FromOps
    <2>2. V(1) = B(s) /\ V(2) = C(s)
      BY <1>5, ValuesAgree
    <2>3. Ints
      BY <1>1, <2>1, <2>2 DEF Sound, IntOps, Ints
    <2>4. val = Bool(V(1).v = V(2).v)
      BY <1>5, <2>3 DEF Results
    <2> QED
      BY <2>1, <2>2, <2>4 DEF Value
  <1>6. CASE Here.op = "gt"
    <2>1. I(s).op = "gt"
      BY <1>1, <1>6, FromOps
    <2>2. V(1) = B(s) /\ V(2) = C(s)
      BY <1>6, ValuesAgree
    <2>3. Ints
      BY <1>1, <2>1, <2>2 DEF Sound, IntOps, Ints
    <2>4. val = Bool(Signed(V(1).v) > Signed(V(2).v))
      BY <1>6, <2>3 DEF Results
    <2> QED
      BY <2>1, <2>2, <2>4 DEF Value
  <1>7. CASE Here.op = "and"
    <2>1. I(s).op = "and"
      BY <1>1, <1>7, FromOps
    <2>2. V(1) = B(s) /\ V(2) = C(s)
      BY <1>7, ValuesAgree
    <2>3. val = Bool(~Falsey(V(1)) /\ ~Falsey(V(2)))
      BY <1>7 DEF Results
    <2> QED
      BY <2>1, <2>2, <2>3 DEF Value
  <1>8. CASE Here.op = "arraylen"
    <2>1. I(s).op = "arraylen"
      BY <1>1, <1>8, FromOps
    <2>2. V(1) = B(s)
      BY <1>8, ValuesAgree
    <2>3. val = IntOf(Len(st.arrays[V(1).v]))
      BY <1>8 DEF Results
    <2> QED
      BY <1>1, <2>1, <2>2, <2>3 DEF Value
  <1>9. CASE Here.op = "arrayget"
    <2>1. I(s).op = "arrayget"
      BY <1>1, <1>9, FromOps
    <2>2. V(1) = B(s) /\ V(2) = C(s)
      BY <1>9, ValuesAgree
    <2>3. val = st.arrays[V(1).v][V(2).v + 1]
      BY <1>9 DEF Results
    <2> QED
      BY <1>1, <2>1, <2>2, <2>3 DEF Value
  <1> QED
    BY <1>2, <1>3, <1>4, <1>5, <1>6, <1>7, <1>8, <1>9 DEF Computing

\* The interpreter's activation once the primitive, if there is one, was called.
Base == IF Here.op = "invokeprimitive" THEN CallPrimitive(Mapped, A(Mapped).v) ELSE Mapped

LEMMA BaseFacts ==
  ASSUME Whole(st), phase = "running", owed, Here.op = "invokeprimitive" => V(1) = A(Mapped)
  PROVE  /\ Shape(Base) /\ Base.ip = Here.ip /\ Base.arrays = Called.arrays /\ Base.locals = st.locals
         /\ Base.out = Called.out /\ Base.result = st.result /\ Base.wrote = st.wrote /\ Base.own = Called.own
         /\ DOMAIN Base.regs = Reg /\ Base.regs = [r \in Reg |-> Base.regs[r]]
         /\ \A r \in Reg : Base.regs[r] = IF r \in GenRegs \cap Assigned(st) THEN slots[r] ELSE Called.regs[r]
  <1>1. /\ Shape(Mapped) /\ Mapped.ip = Here.ip /\ Mapped.regs = Mirror /\ Mapped.arrays = st.arrays
        /\ Mapped.locals = st.locals /\ Mapped.out = st.out /\ Mapped.result = st.result
        /\ Mapped.wrote = st.wrote /\ Mapped.own = st.own
    BY MappedFacts DEF Address
  <1>2. DOMAIN Mirror = Reg /\ \A r \in Reg : Mirror[r] = IF r \in GenRegs \cap Assigned(st) THEN slots[r] ELSE st.regs[r]
    BY DEF Mirror
  <1>a. Mirror = [r \in Reg |-> Mirror[r]] /\ CopyRegs(Mirror) = [r \in Reg |-> CopyRegs(Mirror)[r]]
    BY DEF Mirror, CopyRegs
  <1>3. CASE Here.op # "invokeprimitive"
    <2>1. Base = Mapped /\ Called = st
      BY <1>3 DEF Base, Called
    <2>2. Base.regs = Mirror
      BY <1>1, <2>1
    <2> QED
      BY <1>1, <1>2, <1>a, <2>1, <2>2
  <1>4. CASE Here.op = "invokeprimitive"
    <2> DEFINE mine == Append(Mapped.out, [sym |-> A(Mapped).v, param |-> Mapped.regs[<<"arg", 0>>]])
               its == Append(st.out, [sym |-> V(1).v, param |-> st.regs[<<"arg", 0>>]])
    <2>1. <<"arg", 0>> \in Reg /\ <<"arg", 0>> \notin GenRegs /\ <<"param", 0>> \notin GenRegs
          /\ <<"param", 0>> \in ParamRegs /\ \A r \in GenRegs : r \notin ParamRegs
      <3>1. <<"arg", 0>> \notin GenRegs
        BY DEF GenRegs
      <3> QED
        BY <3>1, RegisterFacts
    <2>2. Mirror[<<"arg", 0>>] = st.regs[<<"arg", 0>>]
      BY <1>2, <2>1
    <2>3. mine = its
      BY <1>1, <1>4, <2>2
    <2>4. Base = Made(Mapped.ip, CopyRegs(Mapped.regs), Mapped.arrays, Mapped.locals, mine, Mapped.result,
                      Mapped.wrote, FALSE)
      BY <1>1, <1>4, CallForm DEF Base
    <2>5. Called = Made(st.ip, CopyRegs(st.regs), st.arrays, st.locals, its, st.result, st.wrote, FALSE)
      BY <1>4, CallForm DEF Called, Whole
    <2> HIDE DEF mine, its
    <2>6. /\ Shape(Base) /\ Base.ip = Mapped.ip /\ Base.regs = CopyRegs(Mapped.regs) /\ Base.arrays = Mapped.arrays
          /\ Base.locals = Mapped.locals /\ Base.out = mine /\ Base.result = Mapped.result
          /\ Base.wrote = Mapped.wrote /\ Base.own = FALSE
      <3>1. \A no : LET s == Made(Mapped.ip, CopyRegs(Mapped.regs), Mapped.arrays, Mapped.locals, mine,
                                  Mapped.result, Mapped.wrote, no)
                    IN  /\ Shape(s) /\ s.ip = Mapped.ip /\ s.regs = CopyRegs(Mapped.regs)
                        /\ s.arrays = Mapped.arrays /\ s.locals = Mapped.locals /\ s.out = mine
                        /\ s.result = Mapped.result /\ s.wrote = Mapped.wrote /\ s.own = no
        BY DEF Shape, Made
      <3> QED
        BY <2>4, <3>1
    <2>7. /\ Called.regs = CopyRegs(st.regs) /\ Called.arrays = st.arrays
          /\ Called.out = its /\ Called.own = FALSE
      <3>1. \A no : LET s == Made(st.ip, CopyRegs(st.regs), st.arrays, st.locals, its, st.result, st.wrote, no)
                    IN  s.regs = CopyRegs(st.regs) /\ s.arrays = st.arrays /\ s.out = its /\ s.own = no
        BY DEF Made
      <3> QED
        BY <2>5, <3>1
    <2>8. /\ DOMAIN CopyRegs(Mirror) = Reg
          /\ \A r \in Reg : CopyRegs(Mirror)[r] =
               IF r \in GenRegs \cap Assigned(st) THEN slots[r] ELSE CopyRegs(st.regs)[r]
      BY <1>2, <2>1, <2>2 DEF CopyRegs
    <2>9. Base.regs = CopyRegs(Mirror)
      BY <1>1, <2>6
    <2> QED
      BY <1>1, <1>a, <2>3, <2>6, <2>7, <2>8, <2>9
  <1> QED
    BY <1>3, <1>4

\* The registers of the interpreter and those of the run change alike.
LEMMA MirrorWrites ==
  ASSUME UNCHANGED body, owed', Whole(st), NEW w, NEW val, DOMAIN slots = GenRegs,
         w \in GenRegs \cup ArgRegs \cup {NullReg},
         Here.ret = w, Writes(body[Here.ip]) = w, st'.wrote = st.wrote \cup {Here.ip}, st'.regs = Kept(val),
         slots' = IF w \in GenRegs THEN [slots EXCEPT ![w] = val] ELSE slots,
         NEW regs, DOMAIN regs = Reg, regs = [r \in Reg |-> regs[r]],
         \A r \in Reg : regs[r] = IF r \in GenRegs \cap Assigned(st) THEN slots[r] ELSE Called.regs[r]
  PROVE  Mirror' = IF w \in GenRegs \cup ArgRegs THEN [regs EXCEPT ![w] = val] ELSE regs
  <1> DEFINE new == IF w \in GenRegs \cup ArgRegs THEN [regs EXCEPT ![w] = val] ELSE regs
  <1>1. \A r : r \in Assigned(st)' <=> r \in Assigned(st) \/ r = w
    BY DEF Assigned
  <1>2. DOMAIN Mirror' = Reg /\ \A r \in Reg : Mirror'[r] = IF r \in GenRegs /\ r \in Assigned(st)' THEN slots'[r] ELSE st'.regs[r]
    BY DEF Mirror
  <1>3. GenRegs \subseteq Reg /\ ArgRegs \subseteq Reg /\ NullReg \notin GenRegs \cup ArgRegs /\ NullReg \in Reg
        /\ \A r \in GenRegs : r \notin ArgRegs
    BY RegisterFacts
  <1>4. \A r \in Reg : st'.regs[r] = IF r = w /\ w \in ArgRegs THEN val ELSE Called.regs[r]
    BY KeptFacts
  <1>5. \A r \in GenRegs : slots'[r] = IF r = w THEN val ELSE slots[r]
    OBVIOUS
  <1>6. DOMAIN new = Reg /\ \A r \in Reg : new[r] = IF r = w /\ w \in GenRegs \cup ArgRegs THEN val ELSE regs[r]
    BY <1>3
  <1> HIDE DEF new
  <1>7. \A r \in Reg : Mirror'[r] = new[r]
    BY <1>1, <1>2, <1>3, <1>4, <1>5, <1>6
  <1>8. Mirror' = [r \in Reg |-> Mirror'[r]] /\ new = [r \in Reg |-> new[r]]
    <2>1. Mirror' = [r \in Reg |-> Mirror'[r]]
      BY DEF Mirror
    <2>2. [regs EXCEPT ![w] = val] = [r \in Reg |-> [regs EXCEPT ![w] = val][r]]
      OBVIOUS
    <2>3. new = [r \in Reg |-> new[r]]
      BY <2>2 DEF new
    <2> QED
      BY <2>1, <2>3
  <1>9. Mirror' = new
    BY <1>7, <1>8
  <1> QED
    BY <1>9 DEF new

\* An instruction that is no continuation comes from an item.
LEMMA FromItem ==
  ASSUME Traces, Blocked, Prepared, phase = "running", Pointed, Here.op # "br"
  PROVE  \E m \in DOMAIN trace : MadeFrom(Here, m)
  <1>1. PICK m \in DOMAIN trace : MadeFrom(Here, m) \/ (Crossing(m) /\ Here = Jump(m))
    BY HereFacts
  <1>2. Here # Jump(m)
    BY DEF Jump, Br
  <1> QED
    BY <1>1, <1>2

\* A local holds one value while the interpreter's behaviour is owed, and its slot holds it.
Settled ==
  (phase = "running" /\ owed) => \A x \in Syms : st.locals[x] \in {<<>>, <<locals[x]>>}

LEMMA SetLocalSettles ==
  ASSUME Traces, Blocked, Prepared, Runs, Settled, RunSetLocal, owed'
  PROVE  \A x \in Syms : st'.locals[x] \in {<<>>, <<locals'[x]>>}
  <1>1. /\ phase = "running" /\ Here.op = "setlocal" /\ owed' = Owes
        /\ locals' = [locals EXCEPT ![Here.sym] = V(1)]
        /\ st' = [st EXCEPT !.locals[Here.sym] = WithValue(@, V(1))]
    BY DEF RunSetLocal, Executes
  <1>2. Whole(st) /\ Pointed /\ DOMAIN locals = Syms
    BY <1>1 DEF Runs
  <1>3. owed /\ Interpreted!InScope(Mapped)
    BY <1>1 DEF Owes
  <1>4. PICK m \in DOMAIN trace : MadeFrom(Here, m)
    BY <1>1, <1>2, FromItem
  <1>5. trace[m].i.op = "setlocal" /\ I(Mapped) = trace[m].i
    BY <1>1, <1>4, FromOps, ItemHere
  <1>6. V(1) = B(Mapped) /\ Here.sym = A(Mapped).v /\ Here.sym \in Syms
    <2>1. V(1) = B(Mapped)
      BY <1>1, <1>3, <1>4, ValuesAgree
    <2>2. Here.sym \in Syms /\ Here.sym = Mapped.regs[Named(trace[m].i)].v
      BY <1>1, <1>3, <1>4, <1>5, SymbolAgrees
    <2> QED
      BY <1>5, <2>1, <2>2 DEF Named, A
  <1>7. st.locals[Here.sym] \in {<<>>, <<V(1)>>}
    <2>1. Mapped.locals = st.locals
      BY <1>2, MappedFacts
    <2>2. Mapped.locals[A(Mapped).v] \in {<<>>, <<B(Mapped)>>}
      BY <1>3, <1>5, ScopeFacts
    <2> QED
      BY <1>6, <2>1, <2>2
  <1>8. WithValue(st.locals[Here.sym], V(1)) = <<V(1)>>
    <2>1. WithValue(<<>>, V(1)) = <<V(1)>>
      BY DEF WithValue
    <2>2. WithValue(<<V(1)>>, V(1)) = <<V(1)>>
      BY DEF WithValue
    <2> QED
      BY <1>7, <2>1, <2>2
  <1>9. st'.locals = [st.locals EXCEPT ![Here.sym] = WithValue(@, V(1))]
    <2> DEFINE locs == [st.locals EXCEPT ![Here.sym] = WithValue(@, V(1))]
    <2>1. st' = Made(st.ip, st.regs, st.arrays, locs, st.out, st.result, st.wrote, st.own)
      BY <1>1, <1>2, SetLocalForm DEF Whole
    <2> HIDE DEF locs
    <2>2. st'.locals = locs
      BY <2>1 DEF Made
    <2> QED
      BY <2>2 DEF locs
  <1>10. \A x \in Syms : /\ st'.locals[x] = IF x = Here.sym THEN <<V(1)>> ELSE st.locals[x]
                         /\ locals'[x] = IF x = Here.sym THEN V(1) ELSE locals[x]
    BY <1>1, <1>2, <1>8, <1>9 DEF Whole
  <1> QED
    BY <1>1, <1>3, <1>10 DEF Settled

\* In scope each local is set to one value only, and Run gives the activation new ones.
LEMMA SettledStep ==
  ASSUME Traces, Blocked, Prepared, Runs, Settled, [Next]_vars
  PROVE  Settled'
  <1> SUFFICES ASSUME phase' = "running", owed'
               PROVE  \A x \in Syms : st'.locals[x] \in {<<>>, <<locals'[x]>>}
    BY DEF Settled
  <1>1. CASE \/ Record \/ Abandon \/ Sort \/ IdentifyBlocks \/ IdentifyRegisters \/ IdentifyLocals
             \/ EmitMove \/ EmitCompare \/ EmitArraySet \/ EmitConstant \/ EmitAdd \/ EmitSetLocal
             \/ EmitGoto \/ EmitIf \/ EmitReturn \/ EmitUnknown \/ Verify
    <2>1. phase \in Phases
      BY DEF Runs
    <2> QED
      BY <1>1, <2>1, PreparingSteps DEF Preparing
  <1>2. CASE Run
    <2>1. PICK param \in Params : st' = Enter(CallRegs(st.regs, param), st.arrays)
      BY <1>2 DEF Run
    <2>2. st'.locals = [x \in Syms |-> <<>>]
      BY <2>1 DEF Enter
    <2> QED
      BY <2>2
  <1>3. CASE RunPlain
    <2>1. phase = "running" /\ UNCHANGED locals
      BY <1>3 DEF RunPlain, Executes
    <2>2. Whole(st)
      BY <2>1 DEF Runs
    <2>3. PICK val \in Results : st' = Afterwards(val) /\ owed' = (Owes /\ ~Raises(val))
      BY <1>3, <2>2, PlainRun
    <2>4. st'.locals = st.locals
      BY <2>2, <2>3, AfterwardsFacts
    <2> QED
      BY <2>1, <2>3, <2>4 DEF Settled, Owes
  <1>4. CASE RunArraySet
    <2>1. phase = "running" /\ UNCHANGED locals /\ owed' = Owes
          /\ st' = [st EXCEPT !.arrays[V(1).v][V(2).v + 1] = V(3)]
      BY <1>4 DEF RunArraySet, Executes
    <2>2. st'.locals = st.locals
      <3>1. Whole(st)
        BY <2>1 DEF Runs
      <3> QED
        BY <2>1, <3>1 DEF Whole, Shape, Made
    <2> QED
      BY <2>1, <2>2 DEF Settled, Owes
  <1>5. CASE RunSetLocal
    BY <1>5, SetLocalSettles
  <1>6. CASE RunBranch
    BY <1>6 DEF RunBranch, Executes, Settled, Owes
  <1>7. CASE RunReturn \/ RunFaults
    BY <1>7 DEF RunReturn, RunFaults
  <1>8. CASE vars' = vars
    <2>1. UNCHANGED <<phase, st, locals, owed>>
      BY <1>8 DEF vars, compiled, native
    <2> QED
      BY <2>1 DEF Settled
  <1> QED
    BY <1>1, <1>2, <1>3, <1>4, <1>5, <1>6, <1>7, <1>8 DEF Next

\* An instruction that computes is one step of the interpreter's.
LEMMA PlainStays ==
  ASSUME Traces, Blocked, Prepared, Runs, Runs', Settled, RunPlain, owed'
  PROVE  owed /\ Sound(Mapped) /\ Mapped' \in Steps(Mapped)
  <1>1. /\ phase = "running" /\ phase' = "running" /\ Here.op \in Computing
        /\ UNCHANGED <<trace, blocks, code, passed, locals, body>> /\ pc' = NextInst
    BY DEF RunPlain, Executes, compiled, Computing
  <1>2. /\ Whole(st) /\ Whole(st') /\ Pointed /\ DOMAIN slots = GenRegs /\ DOMAIN locals = Syms
    BY <1>1 DEF Runs
  <1>3. PICK val \in Results :
          /\ slots' = IF Here.ret \in GenRegs THEN [slots EXCEPT ![Here.ret] = val] ELSE slots
          /\ st' = Afterwards(val)
          /\ owed' = (Owes /\ ~Raises(val))
    BY <1>2, PlainRun
  <1>4. owed /\ Interpreted!InScope(Mapped) /\ ~Raises(val)
    BY <1>3 DEF Owes
  <1>5. PICK m \in DOMAIN trace :
          /\ MadeFrom(Here, m) /\ trace[m].i.op \in Returning /\ Here.ip = trace[m].ip
          /\ Here.ret = Writes(trace[m].i) /\ Here.ret \in GenRegs \cup ArgRegs \cup {NullReg}
          /\ Here.sym = trace[m].sym
    BY <1>1, <1>2, ComputingFacts
  <1> DEFINE i == trace[m].i
             w == Here.ret
             t == Write(Base, w, val)
  <1>6. I(Mapped) = i /\ body[Here.ip] = i /\ Mapped.ip = Here.ip
    BY <1>1, <1>5, ItemHere
  <1>7. Sound(Mapped)
    BY <1>4, ScopeFacts
  <1>8. /\ Shape(Mapped) /\ Mapped.locals = st.locals /\ Mapped.result = st.result
    BY <1>2, MappedFacts
  <1>9. Here.op = "invokeprimitive" => V(1) = A(Mapped)
    BY <1>1, <1>4, <1>5, ValuesAgree
  <1>10. /\ Shape(Base) /\ Base.ip = Here.ip /\ Base.arrays = Called.arrays /\ Base.locals = st.locals
         /\ Base.out = Called.out /\ Base.result = st.result /\ Base.wrote = st.wrote /\ Base.own = Called.own
         /\ DOMAIN Base.regs = Reg /\ Base.regs = [r \in Reg |-> Base.regs[r]]
         /\ \A r \in Reg : Base.regs[r] = IF r \in GenRegs \cap Assigned(st) THEN slots[r] ELSE Called.regs[r]
    BY <1>1, <1>2, <1>4, <1>9, BaseFacts
  <1> DEFINE regs == IF w \in GenRegs \cup ArgRegs THEN [Base.regs EXCEPT ![w] = val] ELSE Base.regs
             wrote == st.wrote \cup {Here.ip}
             next == Here.ip + 1
  <1>11. t = Made(next, regs, Called.arrays, st.locals, Called.out, st.result, wrote, Called.own)
    <2>1. t = Made(Base.ip + 1, regs, Base.arrays, Base.locals, Base.out, Base.result,
                   Base.wrote \cup {Base.ip}, Base.own)
      BY <1>10, WriteForm
    <2> QED
      BY <1>10, <2>1
  <1>12. t \in Steps(Mapped)
    <2>1. CASE Here.op = "getlocal"
      <3>1. i.op = "getlocal" /\ Writes(i) = i.a /\ Named(i) = i.b
        BY <1>5, <2>1, FromOps DEF Writes, Named
      <3>2. \A x \in Lookup(Mapped, B(Mapped).v) \ {NULL} : Write(Mapped, I(Mapped).a, x) \in Steps(Mapped)
        <4>1. I(Mapped).op = "getlocal"
          BY <1>6, <3>1
        <4> QED
          BY <4>1 DEF Steps
      <3>3. Here.sym \in Syms /\ Here.sym = B(Mapped).v
        BY <1>1, <1>4, <1>5, <1>6, <3>1, SymbolAgrees DEF B
      <3>4. val # NULL /\ st.locals[Here.sym] # <<>>
        BY <1>4, <2>1 DEF Raises
      <3>5. val = locals[Here.sym]
        BY <1>3, <2>1, <3>4 DEF Results
      <3>6. val \in Lookup(Mapped, B(Mapped).v) \ {NULL}
        <4>1. Mapped.locals[Here.sym] = <<val>>
          BY <1>1, <1>4, <1>8, <3>3, <3>4, <3>5 DEF Settled
        <4>2. Mapped.locals[Here.sym][1] = val /\ 1 \in DOMAIN Mapped.locals[Here.sym]
          BY <4>1
        <4> QED
          BY <3>3, <3>4, <4>1, <4>2 DEF Lookup
      <3>7. t = Write(Mapped, i.a, val)
        <4>1. Base = Mapped
          BY <2>1 DEF Base
        <4>2. Here.ret = i.a
          BY <1>5, <3>1
        <4> QED
          BY <4>1, <4>2
      <3> HIDE DEF t
      <3> QED
        BY <1>6, <3>2, <3>6, <3>7
    <2>2. CASE Here.op = "invokeprimitive"
      <3>1. i.op = "invokeprimitive" /\ Writes(i) = i.b
        BY <1>5, <2>2, FromOps DEF Writes
      <3>2. \A x \in Answers : Write(CallPrimitive(Mapped, A(Mapped).v), I(Mapped).b, x) \in Steps(Mapped)
        <4>1. I(Mapped).op = "invokeprimitive"
          BY <1>6, <3>1
        <4> QED
          BY <4>1 DEF Steps
      <3>3. val # NULL /\ val \in Objects
        BY <1>3, <1>4, <2>2 DEF Raises, Results
      <3>4. val \in Answers
        BY <3>3 DEF Objects
      <3>5. t = Write(CallPrimitive(Mapped, A(Mapped).v), i.b, val)
        <4>1. Base = CallPrimitive(Mapped, A(Mapped).v)
          BY <2>2 DEF Base
        <4>2. Here.ret = i.b
          BY <1>5, <3>1
        <4> QED
          BY <4>1, <4>2
      <3> HIDE DEF t
      <3> QED
        BY <1>6, <3>2, <3>4, <3>5
    <2>3. CASE Here.op \notin {"getlocal", "invokeprimitive"}
      <3>1. i.op \in Returning \ {"getlocal", "invokeprimitive"}
        <4>1. MadeFrom(Here, m) /\ i.op \in Returning
          BY <1>5
        <4>2. /\ Here.op = "const" => Constant(i)
              /\ Here.op = "add_direct" => i.op = "add"
              /\ Here.op \notin {"const", "add_direct"} => Here.op = NativeOp(i)
          BY <4>1, FromOps
        <4> QED
          BY <2>3, <4>1, <4>2 DEF Constant, NativeOp
      <3>2. Writes(i) = i.a
        BY <3>1 DEF Writes, Returning
      <3>3. Steps(Mapped) = {Write(Mapped, i.a, Value(Mapped))}
        <4>1. I(Mapped).op \notin {"goto", "jump", "if", "return", "setlocal", "arrayset", "getlocal",
                                   "invokeprimitive"}
          BY <1>6, <3>1 DEF Returning
        <4>2. Steps(Mapped) = {Write(Mapped, I(Mapped).a, Value(Mapped))}
          BY <1>8, <4>1, StepsForm
        <4> QED
          BY <1>6, <4>2
      <3>4. val = Value(Mapped)
        BY <1>1, <1>3, <1>4, <1>5, <2>3, ValueComputed
      <3>5. t = Write(Mapped, i.a, Value(Mapped))
        <4>1. Base = Mapped
          BY <2>3 DEF Base
        <4>2. Here.ret = i.a
          BY <1>5, <3>2
        <4> QED
          BY <3>4, <4>1, <4>2
      <3> HIDE DEF t
      <3> QED
        BY <3>3, <3>5
    <2> QED
      BY <2>1, <2>2, <2>3
  <1> HIDE DEF t
  <1>13. Address' = next
    <2>1. t.ip = next /\ t.result = st.result
      <3> HIDE DEF next, regs, wrote
      <3> QED
        BY <1>11, FieldFacts
    <2>2. Plain(i)
      BY <1>5 DEF Plain, Returning
    <2>3. Here'.ip = Mapped.ip + 1
      BY <1>1, <1>4, <1>5, <1>6, <1>8, <1>12, <2>1, <2>2, GoesOn
    <2> QED
      BY <1>1, <1>6, <2>3 DEF Address
  <1>14. /\ st'.regs = Kept(val) /\ st'.arrays = Called.arrays /\ st'.locals = st.locals /\ st'.out = Called.out
         /\ st'.result = st.result /\ st'.wrote = wrote /\ st'.own = Called.own
    BY <1>2, <1>3, AfterwardsFacts
  <1>15. Mirror' = regs
    BY <1>1, <1>2, <1>3, <1>5, <1>6, <1>10, <1>14, MirrorWrites
  <1> HIDE DEF regs, wrote, next
  <1>16. Mapped' = Made(Address', Mirror', st'.arrays, st'.locals, st'.out, st'.result, st'.wrote, st'.own)
    BY <1>2, MappedNext
  <1>17. Mapped' = t
    BY <1>11, <1>13, <1>14, <1>15, <1>16
  <1> QED
    BY <1>4, <1>7, <1>12, <1>17

LEMMA MirrorStays ==
  ASSUME UNCHANGED <<body, slots>>, owed, owed', st'.wrote = st.wrote, st'.regs = st.regs
  PROVE  Mirror' = Mirror
  <1>1. \A r : r \in Assigned(st)' <=> r \in Assigned(st)
    BY DEF Assigned
  <1>2. Mirror = [r \in Reg |-> IF r \in GenRegs /\ r \in Assigned(st) THEN slots[r] ELSE st.regs[r]]
    BY DEF Mirror
  <1>3. Mirror' = [r \in Reg |-> IF r \in GenRegs /\ r \in Assigned(st)' THEN slots[r] ELSE st.regs[r]]
    BY DEF Mirror
  <1> QED
    BY <1>1, <1>2, <1>3

LEMMA ArraySetStays ==
  ASSUME Traces, Blocked, Prepared, Runs, Runs', RunArraySet, owed'
  PROVE  owed /\ Sound(Mapped) /\ Mapped' \in Steps(Mapped)
  <1>1. /\ phase = "running" /\ phase' = "running" /\ Here.op = "arrayset"
        /\ UNCHANGED <<body, code, slots>> /\ pc' = NextInst /\ owed' = Owes
        /\ st' = [st EXCEPT !.arrays[V(1).v][V(2).v + 1] = V(3)]
    BY DEF RunArraySet, Executes, compiled
  <1>2. Whole(st) /\ Whole(st') /\ Pointed
    BY <1>1 DEF Runs
  <1>3. owed /\ Interpreted!InScope(Mapped)
    BY <1>1 DEF Owes
  <1>4. PICK m \in DOMAIN trace : MadeFrom(Here, m)
    BY <1>1, <1>2, FromItem
  <1>5. trace[m].i.op = "arrayset" /\ I(Mapped) = trace[m].i /\ Plain(trace[m].i) /\ Mapped.ip = Here.ip
    <2>1. trace[m].i.op = "arrayset"
      BY <1>1, <1>4, FromOps
    <2> QED
      BY <1>1, <1>4, <2>1, ItemHere DEF Plain
  <1>6. V(1) = A(Mapped) /\ V(2) = B(Mapped) /\ V(3) = C(Mapped)
    BY <1>1, <1>3, <1>4, ValuesAgree
  <1>7. /\ Shape(Mapped) /\ Mapped.regs = Mirror /\ Mapped.arrays = st.arrays
        /\ Mapped.locals = st.locals /\ Mapped.out = st.out /\ Mapped.result = st.result
        /\ Mapped.wrote = st.wrote /\ Mapped.own = st.own
    BY <1>2, MappedFacts
  <1> DEFINE arrays == [st.arrays EXCEPT ![V(1).v][V(2).v + 1] = V(3)]
             next == Mapped.ip + 1
             t == Made(next, Mirror, arrays, st.locals, st.out, st.result, st.wrote, st.own)
  <1>8. t \in Steps(Mapped)
    <2>1. I(Mapped).op = "arrayset"
      BY <1>5
    <2>2. Steps(Mapped) = {Made(Mapped.ip + 1, Mapped.regs,
                                [Mapped.arrays EXCEPT ![A(Mapped).v][B(Mapped).v + 1] = C(Mapped)], Mapped.locals,
                                Mapped.out, Mapped.result, Mapped.wrote, Mapped.own)}
      BY <1>7, <2>1, StepsForm
    <2>3. arrays = [Mapped.arrays EXCEPT ![A(Mapped).v][B(Mapped).v + 1] = C(Mapped)]
      BY <1>6, <1>7
    <2> HIDE DEF arrays
    <2> QED
      BY <1>7, <2>2, <2>3
  <1>9. st' = Made(st.ip, st.regs, arrays, st.locals, st.out, st.result, st.wrote, st.own)
    <2>1. st' = [st EXCEPT !.arrays = arrays]
      BY <1>1
    <2> HIDE DEF arrays
    <2> QED
      BY <1>2, <2>1 DEF Whole, Shape, Made
  <1> HIDE DEF arrays, next
  <1>10. t.ip = next /\ t.result = st.result
    BY FieldFacts
  <1> HIDE DEF t
  <1>11. Address' = next
    <2>1. Here'.ip = Mapped.ip + 1
      BY <1>1, <1>3, <1>4, <1>5, <1>7, <1>8, <1>10, GoesOn DEF next
    <2> QED
      BY <1>1, <2>1 DEF Address, next
  <1>12. /\ st'.regs = st.regs /\ st'.arrays = arrays /\ st'.locals = st.locals /\ st'.out = st.out
         /\ st'.result = st.result /\ st'.wrote = st.wrote /\ st'.own = st.own
    BY <1>9, FieldFacts
  <1>13. Mirror' = Mirror
    BY <1>1, <1>3, <1>12, MirrorStays
  <1>14. Mapped' = Made(Address', Mirror', st'.arrays, st'.locals, st'.out, st'.result, st'.wrote, st'.own)
    BY <1>2, MappedNext
  <1>15. Mapped' = t
    BY <1>11, <1>12, <1>13, <1>14 DEF t
  <1> QED
    BY <1>3, <1>8, <1>15, ScopeFacts

LEMMA SetLocalStays ==
  ASSUME Traces, Blocked, Prepared, Runs, Runs', RunSetLocal, owed'
  PROVE  owed /\ Sound(Mapped) /\ Mapped' \in Steps(Mapped)
  <1>1. /\ phase = "running" /\ phase' = "running" /\ Here.op = "setlocal"
        /\ UNCHANGED <<body, code, slots>> /\ pc' = NextInst /\ owed' = Owes
        /\ st' = [st EXCEPT !.locals[Here.sym] = WithValue(@, V(1))]
    BY DEF RunSetLocal, Executes, compiled
  <1>2. Whole(st) /\ Whole(st') /\ Pointed
    BY <1>1 DEF Runs
  <1>3. owed /\ Interpreted!InScope(Mapped)
    BY <1>1 DEF Owes
  <1>4. PICK m \in DOMAIN trace : MadeFrom(Here, m)
    BY <1>1, <1>2, FromItem
  <1>5. trace[m].i.op = "setlocal" /\ I(Mapped) = trace[m].i /\ Plain(trace[m].i) /\ Mapped.ip = Here.ip
    <2>1. trace[m].i.op = "setlocal"
      BY <1>1, <1>4, FromOps
    <2> QED
      BY <1>1, <1>4, <2>1, ItemHere DEF Plain
  <1>6. V(1) = B(Mapped) /\ Here.sym = A(Mapped).v
    <2>1. V(1) = B(Mapped)
      BY <1>1, <1>3, <1>4, ValuesAgree
    <2>2. Here.sym = Mapped.regs[Named(trace[m].i)].v
      BY <1>1, <1>3, <1>4, <1>5, SymbolAgrees
    <2> QED
      BY <1>5, <2>1, <2>2 DEF Named, A
  <1>7. /\ Shape(Mapped) /\ Mapped.regs = Mirror /\ Mapped.arrays = st.arrays
        /\ Mapped.locals = st.locals /\ Mapped.out = st.out /\ Mapped.result = st.result
        /\ Mapped.wrote = st.wrote /\ Mapped.own = st.own
    BY <1>2, MappedFacts
  <1> DEFINE locs == [st.locals EXCEPT ![Here.sym] = WithValue(@, V(1))]
             next == Mapped.ip + 1
             t == Made(next, Mirror, st.arrays, locs, st.out, st.result, st.wrote, st.own)
  <1>8. t \in Steps(Mapped)
    <2>1. I(Mapped).op = "setlocal"
      BY <1>5
    <2>2. Steps(Mapped) = {Made(Mapped.ip + 1, Mapped.regs, Mapped.arrays,
                                [Mapped.locals EXCEPT ![A(Mapped).v] = WithValue(@, B(Mapped))],
                                Mapped.out, Mapped.result, Mapped.wrote, Mapped.own)}
      BY <1>7, <2>1, StepsForm
    <2>3. locs = [Mapped.locals EXCEPT ![A(Mapped).v] = WithValue(@, B(Mapped))]
      BY <1>6, <1>7
    <2> HIDE DEF locs
    <2> QED
      BY <1>7, <2>2, <2>3
  <1>9. st' = Made(st.ip, st.regs, st.arrays, locs, st.out, st.result, st.wrote, st.own)
    BY <1>1, <1>2, SetLocalForm DEF Whole
  <1> HIDE DEF locs, next
  <1>10. t.ip = next /\ t.result = st.result
    BY FieldFacts
  <1> HIDE DEF t
  <1>11. Address' = next
    <2>1. Here'.ip = Mapped.ip + 1
      BY <1>1, <1>3, <1>4, <1>5, <1>7, <1>8, <1>10, GoesOn DEF next
    <2> QED
      BY <1>1, <2>1 DEF Address, next
  <1>12. /\ st'.regs = st.regs /\ st'.arrays = st.arrays /\ st'.locals = locs /\ st'.out = st.out
         /\ st'.result = st.result /\ st'.wrote = st.wrote /\ st'.own = st.own
    BY <1>9, FieldFacts
  <1>13. Mirror' = Mirror
    BY <1>1, <1>3, <1>12, MirrorStays
  <1>14. Mapped' = Made(Address', Mirror', st'.arrays, st'.locals, st'.out, st'.result, st'.wrote, st'.own)
    BY <1>2, MappedNext
  <1>15. Mapped' = t
    BY <1>11, <1>12, <1>13, <1>14 DEF t
  <1> QED
    BY <1>3, <1>8, <1>15, ScopeFacts

\* Where a branch leads to.
LEMMA BranchAddress ==
  ASSUME Traces, Blocked, Prepared, phase = "running", Pointed, RunBranch
  PROVE  LET to == IF Here.op = "condbr" /\ Falsey(V(1)) THEN Here.to[2] ELSE Here.to[1]
         IN  Address' = to[2]
  <1> DEFINE to == IF Here.op = "condbr" /\ Falsey(V(1)) THEN Here.to[2] ELSE Here.to[1]
  <1>1. pc' = [block |-> to, at |-> 1] /\ UNCHANGED code /\ phase' = "running"
    BY DEF RunBranch, Executes, compiled
  <1>2. Here.op \in {"br", "goto", "condbr"}
    BY DEF RunBranch, Executes
  <1>3. to \in DOMAIN code
    BY <1>2, TargetFacts
  <1> HIDE DEF to
  <1>4. code[to][1].ip = to[2]
    BY <1>3, TargetFacts
  <1>5. Here' = code[to][1]
    BY <1>1 DEF Here
  <1>6. Address' = to[2]
    BY <1>1, <1>4, <1>5 DEF Address
  <1> QED
    BY <1>6 DEF to

\* A continuation is no step of the interpreter's.
LEMMA ContinuationStays ==
  ASSUME Traces, Blocked, Prepared, Runs, Runs', RunBranch, Here.op = "br", owed
  PROVE  UNCHANGED <<body, entry, Mapped, owed>>
  <1>1. /\ phase = "running" /\ phase' = "running" /\ UNCHANGED <<body, entry, code, slots, st>> /\ owed' = owed
    BY DEF RunBranch, Executes, compiled
  <1>2. Whole(st) /\ Whole(st') /\ Pointed
    BY <1>1 DEF Runs
  <1>3. PICK m \in DOMAIN trace : Crossing(m) /\ Here = Jump(m)
    <2>1. PICK m \in DOMAIN trace : MadeFrom(Here, m) \/ (Crossing(m) /\ Here = Jump(m))
      BY <1>1, <1>2, HereFacts
    <2>2. ~MadeFrom(Here, m)
      BY FromOps
    <2> QED
      BY <2>1, <2>2
  <1>4. Address' = Here.to[1][2]
    BY <1>1, <1>2, BranchAddress
  <1>5. Here.to[1] = Home(m + 1) /\ Here.ip = trace[m + 1].ip
    BY <1>3 DEF Jump, Br
  <1>6. Home(m + 1)[2] = trace[m + 1].ip
    <2>1. Home(m + 1) = <<"block", trace[m + 1].ip>>
      BY <1>1, <1>3, CrossingFacts DEF Full
    <2> QED
      BY <2>1
  <1>7. Address' = Address
    BY <1>1, <1>4, <1>5, <1>6 DEF Address
  <1>8. Mirror' = Mirror
    BY <1>1, MirrorStays
  <1>9. Mapped' = Mapped
    <2>1. Mapped = Made(Address, Mirror, st.arrays, st.locals, st.out, st.result, st.wrote, st.own)
      BY <1>2, MappedFacts
    <2>2. Mapped' = Made(Address', Mirror', st'.arrays, st'.locals, st'.out, st'.result, st'.wrote, st'.own)
      BY <1>2, MappedNext
    <2> QED
      BY <1>1, <1>7, <1>8, <2>1, <2>2
  <1> QED
    BY <1>1, <1>9

LEMMA BranchStays ==
  ASSUME Traces, Blocked, Prepared, Runs, Runs', RunBranch, Here.op # "br", owed'
  PROVE  owed /\ Sound(Mapped) /\ Mapped' \in Steps(Mapped)
  <1>1. /\ phase = "running" /\ phase' = "running" /\ Here.op \in {"goto", "condbr"}
        /\ UNCHANGED <<body, code, slots, st>> /\ owed' = Owes
    BY DEF RunBranch, Executes, compiled
  <1>2. Whole(st) /\ Whole(st') /\ Pointed
    BY <1>1 DEF Runs
  <1>3. owed /\ Interpreted!InScope(Mapped)
    BY <1>1 DEF Owes
  <1>4. PICK m \in DOMAIN trace : MadeFrom(Here, m)
    BY <1>1, <1>2, FromItem
  <1>5. I(Mapped) = trace[m].i /\ Mapped.ip = trace[m].ip /\ Here.to = Targets(trace[m])
    BY <1>1, <1>4, ItemHere DEF MadeFrom
  <1>6. /\ Shape(Mapped) /\ Mapped.regs = Mirror /\ Mapped.arrays = st.arrays
        /\ Mapped.locals = st.locals /\ Mapped.out = st.out /\ Mapped.result = st.result
        /\ Mapped.wrote = st.wrote /\ Mapped.own = st.own
    BY <1>2, MappedFacts
  <1>7. Mirror' = Mirror
    BY <1>1, <1>3, MirrorStays
  <1>8. Mapped' = Made(Address', Mirror, st.arrays, st.locals, st.out, st.result, st.wrote, st.own)
    <2>1. Mapped' = Made(Address', Mirror', st'.arrays, st'.locals, st'.out, st'.result, st'.wrote, st'.own)
      BY <1>2, MappedNext
    <2> QED
      BY <1>1, <1>7, <2>1
  <1>9. CASE Here.op = "goto"
    <2>1. trace[m].i.op = "goto"
      BY <1>4, <1>9, FromOps
    <2>2. Here.to[1] = <<"block", trace[m].i.dest>>
      BY <1>5, <2>1 DEF Targets
    <2>3. Address' = trace[m].i.dest
      <3>1. Address' = Here.to[1][2]
        BY <1>1, <1>2, <1>9, BranchAddress
      <3> QED
        BY <2>2, <3>1
    <2>4. Steps(Mapped) = {Made(trace[m].i.dest, Mirror, st.arrays, st.locals, st.out, st.result, st.wrote, st.own)}
      <3>1. I(Mapped).op \in {"goto", "jump"}
        BY <1>5, <2>1
      <3>2. Steps(Mapped) = {Made(I(Mapped).dest, Mapped.regs, Mapped.arrays, Mapped.locals, Mapped.out,
                                  Mapped.result, Mapped.wrote, Mapped.own)}
        BY <1>6, <3>1, StepsForm
      <3> QED
        BY <1>5, <1>6, <3>2
    <2> QED
      BY <1>3, <1>8, <2>3, <2>4, ScopeFacts
  <1>10. CASE Here.op = "condbr"
    <2>1. trace[m].i.op = "if" /\ V(1) = A(Mapped)
      BY <1>1, <1>3, <1>4, <1>10, FromOps, ValuesAgree
    <2>2. Here.to[1] = <<"block", trace[m].i.dest>> /\ Here.to[2] = <<"block", trace[m].ip + 1>>
      BY <1>5, <2>1 DEF Targets
    <2>3. Address' = IF Falsey(A(Mapped)) THEN Mapped.ip + 1 ELSE I(Mapped).dest
      <3>1. Falsey(A(Mapped)) => Address' = Here.to[2][2]
        BY <1>1, <1>2, <1>10, <2>1, BranchAddress
      <3>2. ~Falsey(A(Mapped)) => Address' = Here.to[1][2]
        BY <1>1, <1>2, <1>10, <2>1, BranchAddress
      <3>3. Here.to[1][2] = trace[m].i.dest /\ Here.to[2][2] = trace[m].ip + 1
        BY <2>2
      <3> QED
        BY <1>5, <3>1, <3>2, <3>3
    <2>4. Steps(Mapped) = {Made(IF Falsey(A(Mapped)) THEN Mapped.ip + 1 ELSE I(Mapped).dest, Mirror, st.arrays,
                                st.locals, st.out, st.result, st.wrote, st.own)}
      <3>1. I(Mapped).op = "if"
        BY <1>5, <2>1
      <3>2. Steps(Mapped) = {Made(IF Falsey(A(Mapped)) THEN Mapped.ip + 1 ELSE I(Mapped).dest, Mapped.regs,
                                  Mapped.arrays, Mapped.locals, Mapped.out, Mapped.result, Mapped.wrote, Mapped.own)}
        BY <1>6, <3>1, StepsForm
      <3> QED
        BY <1>6, <3>2
    <2> QED
      BY <1>3, <1>8, <2>3, <2>4, ScopeFacts
  <1> QED
    BY <1>1, <1>9, <1>10

LEMMA ReturnStays ==
  ASSUME Traces, Blocked, Prepared, Runs, Runs', RunReturn, owed'
  PROVE  owed /\ Sound(Mapped) /\ Mapped' \in Steps(Mapped)
  <1>1. /\ phase = "running" /\ phase' = "compiled" /\ Here.op = "ret"
        /\ UNCHANGED <<body, slots>> /\ owed' = Owes
        /\ st' = [st EXCEPT !.ip = Here.ip, !.result = [status |-> "returned", val |-> V(1)]]
    BY DEF RunReturn, Executes, compiled
  <1>2. Whole(st) /\ Whole(st') /\ Pointed
    BY <1>1 DEF Runs
  <1>3. owed /\ Interpreted!InScope(Mapped)
    BY <1>1 DEF Owes
  <1>4. PICK m \in DOMAIN trace : MadeFrom(Here, m)
    BY <1>1, <1>2, FromItem
  <1>5. I(Mapped).op = "return" /\ Mapped.ip = Here.ip /\ V(1) = A(Mapped)
    <2>1. trace[m].i.op = "return"
      BY <1>1, <1>4, FromOps
    <2> QED
      BY <1>1, <1>3, <1>4, <2>1, ItemHere, ValuesAgree
  <1>6. /\ Shape(Mapped) /\ Mapped.regs = Mirror /\ Mapped.arrays = st.arrays
        /\ Mapped.locals = st.locals /\ Mapped.out = st.out
        /\ Mapped.wrote = st.wrote /\ Mapped.own = st.own
    BY <1>2, MappedFacts
  <1> DEFINE result == [status |-> "returned", val |-> V(1)]
  <1>7. Steps(Mapped) = {Made(Here.ip, Mirror, st.arrays, st.locals, st.out, result, st.wrote, st.own)}
    <2>1. Steps(Mapped) = {Made(Mapped.ip, Mapped.regs, Mapped.arrays, Mapped.locals, Mapped.out,
                                [status |-> "returned", val |-> A(Mapped)], Mapped.wrote, Mapped.own)}
      BY <1>5, <1>6, StepsForm
    <2> QED
      BY <1>5, <1>6, <2>1
  <1> HIDE DEF result
  <1>8. st' = Made(Here.ip, st.regs, st.arrays, st.locals, st.out, result, st.wrote, st.own)
    BY <1>1, <1>2, ReturnForm DEF Whole, result
  <1>9. /\ st'.ip = Here.ip /\ st'.regs = st.regs /\ st'.arrays = st.arrays /\ st'.locals = st.locals
        /\ st'.out = st.out /\ st'.result = result /\ st'.wrote = st.wrote /\ st'.own = st.own
    BY <1>8, FieldFacts
  <1>10. Address' = Here.ip
    BY <1>1, <1>9 DEF Address
  <1>11. Mirror' = Mirror
    BY <1>1, <1>3, <1>9, MirrorStays
  <1>12. Mapped' = Made(Address', Mirror', st'.arrays, st'.locals, st'.out, st'.result, st'.wrote, st'.own)
    BY <1>2, MappedNext
  <1> QED
    BY <1>3, <1>7, <1>9, <1>10, <1>11, <1>12, ScopeFacts

\* Native code does not fault where the interpreter's behaviour is owed.
LEMMA FaultsOutside ==
  ASSUME Traces, Blocked, Prepared, Runs, RunFaults
  PROVE  ~owed'
  <1> SUFFICES ASSUME owed' PROVE FALSE
    OBVIOUS
  <1>1. phase = "running" /\ Faults /\ owed /\ Interpreted!InScope(Mapped)
    BY DEF RunFaults, Owes
  <1>2. Whole(st) /\ Pointed
    BY <1>1 DEF Runs
  <1>3. Here.op # "br"
    BY <1>1 DEF Faults
  <1>4. PICK m \in DOMAIN trace : MadeFrom(Here, m)
    BY <1>1, <1>2, <1>3, FromItem
  <1>5. Sound(Mapped) /\ (I(Mapped).op = "and" => C(Mapped) # NULL)
    BY <1>1, ScopeFacts
  <1>6. I(Mapped) = trace[m].i /\ Mapped.arrays = st.arrays
    BY <1>1, <1>2, <1>4, ItemHere, MappedFacts
  <1>7. \A arr, idx : InArray(Mapped, arr, idx) <=> InArray(st, arr, idx)
    BY <1>6 DEF InArray
  <1>8. CASE Here.op \in {"add", "add_direct", "eq", "gt"}
    <2>1. V(1) = B(Mapped) /\ V(2) = C(Mapped) /\ I(Mapped).op \in IntOps
      BY <1>1, <1>4, <1>6, <1>8, ValuesAgree, FromOps DEF IntOps
    <2> QED
      BY <1>1, <1>5, <1>8, <2>1 DEF Faults, Sound, IsA
  <1>9. CASE Here.op = "and"
    <2>1. V(1) = B(Mapped) /\ V(2) = C(Mapped) /\ I(Mapped).op = "and"
      BY <1>1, <1>4, <1>6, <1>9, ValuesAgree, FromOps
    <2> QED
      BY <1>1, <1>5, <1>9, <2>1 DEF Faults, Sound
  <1>10. CASE Here.op = "arraylen"
    <2>1. V(1) = B(Mapped) /\ I(Mapped).op = "arraylen"
      BY <1>1, <1>4, <1>6, <1>10, ValuesAgree, FromOps
    <2> QED
      BY <1>1, <1>5, <1>10, <2>1 DEF Faults, Sound
  <1>11. CASE Here.op = "arrayget"
    <2>1. V(1) = B(Mapped) /\ V(2) = C(Mapped) /\ I(Mapped).op = "arrayget"
      BY <1>1, <1>4, <1>6, <1>11, ValuesAgree, FromOps
    <2> QED
      BY <1>1, <1>5, <1>7, <1>11, <2>1 DEF Faults, Sound
  <1>12. CASE Here.op = "arrayset"
    <2>1. V(1) = A(Mapped) /\ V(2) = B(Mapped) /\ I(Mapped).op = "arrayset"
      BY <1>1, <1>4, <1>6, <1>12, ValuesAgree, FromOps
    <2> QED
      BY <1>1, <1>5, <1>7, <1>12, <2>1 DEF Faults, Sound
  <1>13. CASE Here.op = "invokeprimitive"
    <2>1. V(1) = A(Mapped) /\ I(Mapped).op = "invokeprimitive"
      BY <1>1, <1>4, <1>6, <1>13, ValuesAgree, FromOps
    <2> QED
      BY <1>1, <1>5, <1>13, <2>1 DEF Faults, Sound
  <1>14. CASE Here.op = "condbr"
    <2>1. V(1) = A(Mapped) /\ I(Mapped).op = "if"
      BY <1>1, <1>4, <1>6, <1>14, ValuesAgree, FromOps
    <2> QED
      BY <1>1, <1>5, <1>14, <2>1 DEF Faults, Sound
  <1>15. Here.op \in {"add", "add_direct", "eq", "gt", "and", "arraylen", "arrayget", "arrayset",
                      "invokeprimitive", "condbr"}
    BY <1>1 DEF Faults
  <1> QED
    BY <1>8, <1>9, <1>10, <1>11, <1>12, <1>13, <1>14, <1>15

\* The code that is called begins at the address the interpreter would.
LEMMA RunCalls ==
  ASSUME Traces, Blocked, Prepared, Runs, Runs', Run, owed'
  PROVE  /\ ~owed \/ Mapped.result.status = "returned"
         /\ Mapped' = Enter(Mapped'.regs, Mapped'.arrays)
  <1>1. /\ phase = "compiled" /\ phase' = "running" /\ UNCHANGED <<entry, code>> /\ blocks[1] = entry
        /\ pc' = [block |-> <<"block", blocks[1]>>, at |-> 1]
    BY DEF Run, compiled
  <1>2. PICK param \in Params : st' = Enter(CallRegs(st.regs, param), st.arrays)
    BY DEF Run
  <1>3. Whole(st) /\ Whole(st')
    BY <1>1 DEF Runs
  <1>4. ~owed \/ Mapped.result.status = "returned"
    <2>1. Mapped.result = st.result
      BY <1>3, MappedFacts
    <2> QED
      BY <1>1, <2>1 DEF Runs
  <1>5. Address' = entry
    <2>1. Laid /\ WellFormed
      BY <1>1, Verified
    <2>2. <<"block", blocks[1]>> \in DOMAIN code
      BY <1>1, <2>1, BlockFacts DEF Laid, Full
    <2>3. code[<<"block", blocks[1]>>] # << >>
      BY <2>1, <2>2 DEF WellFormed
    <2>4. code[<<"block", blocks[1]>>][1].ip = blocks[1]
      BY <2>1, <2>2, <2>3 DEF Laid
    <2>5. Here' = code[<<"block", blocks[1]>>][1]
      BY <1>1 DEF Here
    <2> QED
      BY <1>1, <2>4, <2>5 DEF Address
  <1> DEFINE regs == CallRegs(st.regs, param)
             result == [status |-> "running", val |-> NULL]
             locs == [x \in Syms |-> <<>>]
             none == {}
  <1>6. \A mine, arrays : Enter(mine, arrays) = Made(entry, mine, arrays, locs, << >>, result, none, TRUE)
    BY DEF Enter, Made
  <1>7. st' = Made(entry, regs, st.arrays, locs, << >>, result, none, TRUE)
    BY <1>2, <1>6
  <1> HIDE DEF regs, result, locs, none
  <1>8. /\ st'.arrays = st.arrays /\ st'.locals = locs /\ st'.out = << >>
        /\ st'.result = result /\ st'.wrote = none /\ st'.own = TRUE
    <2>1. \A yes : LET s == Made(entry, regs, st.arrays, locs, << >>, result, none, yes)
                   IN  /\ s.arrays = st.arrays /\ s.locals = locs /\ s.out = << >>
                       /\ s.result = result /\ s.wrote = none /\ s.own = yes
      BY DEF Made
    <2> QED
      BY <1>7, <2>1
  <1>9. Mapped' = Made(Address', Mirror', st'.arrays, st'.locals, st'.out, st'.result, st'.wrote, st'.own)
    BY <1>3, MappedNext
  <1>10. Mapped'.regs = Mirror' /\ Mapped'.arrays = st.arrays
    BY <1>8, <1>9, FieldFacts
  <1>11. Mapped' = Enter(Mirror', st.arrays)
    BY <1>5, <1>6, <1>8, <1>9
  <1> QED
    BY <1>4, <1>10, <1>11

\* From then on nothing is owed: an instruction out of scope, or an exception.
LEMMA RunLeaves ==
  ASSUME Traces, Blocked, Prepared, Runs, Settled, owed, ~owed',
         \/ Run \/ RunPlain \/ RunArraySet \/ RunSetLocal \/ RunBranch \/ RunReturn \/ RunFaults
  PROVE  ~Interpreted!InScope(Mapped) \/ MayRaise(Mapped)
  <1> SUFFICES ASSUME Interpreted!InScope(Mapped) PROVE MayRaise(Mapped)
    OBVIOUS
  <1>1. Owes
    BY DEF Owes
  <1>2. CASE RunPlain
    <2>1. phase = "running" /\ Here.op \in Computing
      BY <1>2 DEF RunPlain, Executes, Computing
    <2>2. Whole(st) /\ Pointed
      BY <2>1 DEF Runs
    <2>3. PICK val \in Results : owed' = (Owes /\ ~Raises(val))
      BY <1>2, <2>2, PlainRun
    <2>4. Here.op \in {"invokeprimitive", "getlocal"}
      BY <1>1, <2>3 DEF Raises
    <2>5. PICK m \in DOMAIN trace : MadeFrom(Here, m)
      BY <2>1, <2>2, ComputingFacts
    <2>6. I(Mapped) = trace[m].i /\ trace[m].i.op = Here.op
      BY <2>1, <2>4, <2>5, ItemHere, FromOps
    <2>7. CASE Here.op = "getlocal"
      <3>1. val = NULL \/ st.locals[Here.sym] = <<>>
        BY <1>1, <2>3, <2>7 DEF Raises
      <3>2. Here.sym \in Syms /\ Here.sym = B(Mapped).v
        BY <1>1, <2>1, <2>5, <2>6, <2>7, SymbolAgrees DEF B, Named
      <3>3. Mapped.locals = st.locals
        BY <2>2, MappedFacts
      <3>4. st.locals[Here.sym] # <<>> => st.locals[Here.sym] = <<val>>
        BY <2>1, <2>3, <2>7, <3>2 DEF Settled, Results
      <3>5. NULL \in Lookup(Mapped, B(Mapped).v)
        <4>1. CASE st.locals[Here.sym] = <<>>
          BY <3>2, <3>3, <4>1 DEF Lookup
        <4>2. CASE st.locals[Here.sym] = <<NULL>>
          <5>1. st.locals[Here.sym][1] = NULL
            BY <4>2
          <5> QED
            BY <3>2, <3>3, <5>1 DEF Lookup
        <4> QED
          BY <3>1, <3>4, <4>1, <4>2
      <3> QED
        BY <2>6, <2>7, <3>5 DEF MayRaise
    <2> QED
      BY <2>4, <2>6, <2>7 DEF MayRaise
  <1>3. CASE Run
    <2>1. phase = "compiled"
      BY <1>3 DEF Run
    <2>2. st.result.status = "returned" /\ Whole(st)
      BY <2>1 DEF Runs
    <2>3. Mapped.result.status = "returned"
      BY <2>2, MappedFacts
    <2> QED
      BY <2>3, ScopeFacts DEF Sound
  <1>4. CASE RunArraySet \/ RunSetLocal \/ RunBranch \/ RunReturn \/ RunFaults
    BY <1>1, <1>4 DEF RunArraySet, RunSetLocal, RunBranch, RunReturn, RunFaults
  <1> QED
    BY <1>2, <1>3, <1>4

\* Compiled code does what the interpreter does, from the call of
\* hvm_jit_run_compiled_trace to its return: each native instruction but a continuation
\* is a step of the interpreter's while the activation stays in scope.
THEOREM Refinement == Spec => Implements
  <1>1. Init => Interpreted!Init
    BY DEF Init, Interpreted!Init
  <1>a. Init => Settled
    BY DEF Init, Settled
  <1>b. ASSUME Traces, Blocked, Prepared, Runs, Settled, [Next]_vars
        PROVE  Settled'
    BY <1>b, SettledStep
  <1>2. ASSUME Traces, Blocked, Prepared, Runs, Runs', Settled, [Next]_vars
        PROVE  [Interpreted!Next]_(Interpreted!vars)
    <2>1. owed \in BOOLEAN /\ owed' \in BOOLEAN
      BY <1>2 DEF Runs
    <2>2. CASE \/ Record \/ Abandon \/ Sort \/ IdentifyBlocks \/ IdentifyRegisters \/ IdentifyLocals
               \/ EmitMove \/ EmitCompare \/ EmitArraySet \/ EmitConstant \/ EmitAdd \/ EmitSetLocal
               \/ EmitGoto \/ EmitIf \/ EmitReturn \/ EmitUnknown \/ Verify
      <3>1. phase \in Phases
        BY <1>2 DEF Runs
      <3>2. owed' = owed /\ ~owed
        BY <1>2, <2>2, <3>1, PreparingSteps DEF Runs, Preparing
      <3>3. UNCHANGED <<body, entry>>
        BY <2>2 DEF Record, Abandon, Sort, IdentifyBlocks, IdentifyRegisters, IdentifyLocals, EmitMove, EmitCompare,
                    EmitArraySet, EmitConstant, EmitAdd, EmitSetLocal, EmitGoto, EmitIf, EmitReturn, EmitUnknown,
                    Verify, EmitPlain, Advance, Abort
      <3> QED
        BY <3>2, <3>3 DEF Interpreted!Next, Interpreted!Left
    <2>3. CASE \/ Run \/ RunPlain \/ RunArraySet \/ RunSetLocal \/ RunBranch \/ RunReturn \/ RunFaults
      <3>1. UNCHANGED <<body, entry>>
        BY <2>3 DEF Run, RunPlain, RunArraySet, RunSetLocal, RunBranch, RunReturn, RunFaults, Executes
      <3>2. CASE ~owed /\ ~owed'
        BY <3>1, <3>2 DEF Interpreted!Next, Interpreted!Left
      <3>3. CASE owed /\ ~owed'
        <4>1. ~Interpreted!InScope(Mapped) \/ Interpreted!MayRaise(Mapped)
          BY <1>2, <2>3, <3>3, RunLeaves, SameSteps
        <4> QED
          BY <3>1, <3>3, <4>1 DEF Interpreted!Next, Interpreted!Leave
      <3>4. CASE owed' /\ Run
        <4>1. /\ ~owed \/ Mapped.result.status = "returned"
              /\ Mapped' = Enter(Mapped'.regs, Mapped'.arrays)
          BY <1>2, <3>4, RunCalls
        <4>2. Enter(Mapped'.regs, Mapped'.arrays) = Interpreted!Enter(Mapped'.regs, Mapped'.arrays)
          BY SameOperators
        <4> QED
          BY <3>1, <3>4, <4>1, <4>2 DEF Interpreted!Next, Interpreted!Call
      <3>5. CASE owed' /\ RunBranch /\ Here.op = "br"
        <4>1. owed
          BY <3>5 DEF RunBranch
        <4>2. UNCHANGED <<body, entry, Mapped, owed>>
          BY <1>2, <3>5, <4>1, ContinuationStays
        <4> QED
          BY <4>2 DEF Interpreted!vars
      <3>6. CASE owed' /\ ~Run /\ ~(RunBranch /\ Here.op = "br")
        <4>1. owed /\ Sound(Mapped) /\ Mapped' \in Steps(Mapped)
          BY <1>2, <2>3, <3>6, PlainStays, ArraySetStays, SetLocalStays, BranchStays, ReturnStays, FaultsOutside
        <4>2. Interpreted!Sound(Mapped) /\ Interpreted!Steps(Mapped) = Steps(Mapped)
          BY <4>1, SameSteps
        <4> QED
          BY <3>1, <3>6, <4>1, <4>2 DEF Interpreted!Next, Interpreted!Execute
      <3> QED
        BY <2>1, <2>3, <3>2, <3>3, <3>4, <3>5, <3>6
    <2>4. CASE vars' = vars
      <3>1. UNCHANGED <<body, entry, phase, st, code, pc, slots, owed>>
        BY <2>4 DEF vars, compiled, native
      <3>2. Mapped' = Mapped
        <4>2. Here' = Here /\ Assigned(st)' = Assigned(st)
          BY <3>1 DEF Here, Assigned
        <4> QED
          BY <3>1, <4>2 DEF Mapped
      <3> QED
        BY <3>1, <3>2 DEF Interpreted!vars
    <2> QED
      BY <1>2, <2>2, <2>3, <2>4 DEF Next
  <1> QED
    BY <1>1, <1>a, <1>b, <1>2, TracesInvariant, BlockedInvariant, PreparedInvariant, RunsInvariant, PTL
       DEF Spec, Implements, Interpreted!Spec
================================================================================
