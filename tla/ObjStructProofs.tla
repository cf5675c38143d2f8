----------------------------- MODULE ObjStructProofs -----------------------------
(***************************************************************************)
(* Theorems about ObjStruct, for every set of ids and objects, initial     *)
(* size, growth rate and number of stored pairs; the last one is that it   *)
(* implements StructStore.                                                 *)
(***************************************************************************)
EXTENDS ObjStruct, TLAPS

LEMMA HalfFacts ==
  ASSUME NEW i \in Nat
  PROVE  /\ i \div 2 \in Nat /\ i \div 2 <= i
         /\ i > 0 => i \div 2 < i
  OBVIOUS

LEMMA GrowthFacts ==
  ASSUME NEW m \in Nat \ {0}, NEW g \in Nat \ {0, 1}
  PROVE  m * g \in Nat \ {0} /\ m < m * g
  <1>1. m * g \in Nat
    OBVIOUS
  <1>2. m * (g - 1) \in Nat /\ m * (g - 1) > 0
    OBVIOUS
  <1>3. m * g = m * (g - 1) + m
    OBVIOUS
  <1> QED
    BY <1>1, <1>2, <1>3

LEMMA MidFacts ==
  ASSUME NEW a \in Nat, NEW b \in Nat, a < b
  PROVE  /\ a + ((b - a) \div 2) \in Nat
         /\ a <= a + ((b - a) \div 2) /\ a + ((b - a) \div 2) < b
  OBVIOUS

LEMMA NoPairNotPair == NoPair \notin Pair
  BY ObjStructAssumption DEF ObjStructAssumption, NoPair, Pair

--------------------------------------------------------------------------------
\* Slots that hold a pair while one is being inserted: all but the hole.
Held == (0 .. heap_length) \ {idx}
Inserting == pc \in {"grow", "sift"}

\* While a pair sifts up, what its hole held before stays there as a copy, so the
\* heap order holds of the array as it is and the new id is below the copy's.
SiftOrdered ==
  /\ \A i \in 1 .. heap_length - 1 : heap[i \div 2].id <= heap[i].id
  /\ (Inserting /\ idx < heap_length) =>
       /\ heap[heap_length \div 2].id <= heap[heap_length].id
       /\ pair.id < heap[idx].id

\* Every pair but the one being inserted is in exactly one of the slots.
Slots == IF Inserting THEN Held ELSE Stored
AllHeld ==
  /\ \A i \in Slots : heap[i].n \in 1 .. heap_length
  /\ \A m \in 1 .. heap_length : \E i \in Slots : heap[i].n = m
  /\ \A i, j \in Slots : heap[i].n = heap[j].n => i = j
  /\ Inserting => pair.n = heap_length + 1

HoleTyped == (pc = "sift" /\ idx < heap_length) => heap[heap_length] \in Pair

Inv == TypeOK /\ HoleTyped /\ SiftOrdered /\ AllHeld /\ SearchInBounds

LEMMA InitInv == Init => Inv
  <1> SUFFICES ASSUME Init PROVE Inv
    OBVIOUS
  <1>1. TypeOK
    BY ObjStructAssumption DEF ObjStructAssumption, Init, TypeOK, Stored, NoPair
  <1>2. HoleTyped /\ SiftOrdered /\ AllHeld /\ SearchInBounds
    BY DEF Init, HoleTyped, SiftOrdered, AllHeld, SearchInBounds, Inserting, Slots, Held, Stored
  <1> QED
    BY <1>1, <1>2 DEF Inv

\* Entering hvm_obj_struct_internal_set.
LEMMA EnterSetStep ==
  ASSUME Inv, NEW id \in Ids, NEW obj \in Objs, ~Inserting, EnterSet(id, obj),
         UNCHANGED <<heap, heap_size, heap_length>>, op' \in {"set", "delete"},
         ret' \in Objs \cup {NULL},
         key' \in Nat, min' \in Nat, max' \in Nat
  PROVE  Inv'
  <1>1. heap_length \in Nat
    BY DEF Inv, TypeOK
  <1>2. pair' \in Pair
    BY <1>1 DEF EnterSet, Pair
  <1>3. TypeOK'
    <2>1. last' \in [Ids -> Objs \cup {NULL}]
      BY DEF Inv, TypeOK, EnterSet
    <2>2. ascending' \in BOOLEAN
      BY DEF EnterSet
    <2>3. /\ heap \in [0 .. heap_size - 1 -> Pair \cup {NoPair}]
          /\ heap_size \in Nat \ {0} /\ heap_length \in 0 .. heap_size
          /\ \A i \in Stored : heap[i] \in Pair
      BY DEF Inv, TypeOK
    <2>4. Stored' = Stored
      BY DEF Stored
    <2>5. pc' = "grow" /\ idx' = heap_length
      BY DEF EnterSet
    <2> QED
      BY <1>1, <1>2, <2>1, <2>2, <2>3, <2>4, <2>5 DEF TypeOK
  <1>4. HoleTyped' /\ SearchInBounds'
    BY DEF EnterSet, HoleTyped, SearchInBounds
  <1>5. SiftOrdered'
    BY <1>1 DEF Inv, SiftOrdered, EnterSet, Inserting
  <1>6. AllHeld'
    <2>1. Slots' = Stored /\ Slots = Stored
      BY <1>1 DEF EnterSet, Inserting, Slots, Held, Stored
    <2>2. pair'.n = heap_length + 1
      BY DEF EnterSet
    <2> QED
      BY <2>1, <2>2 DEF Inv, AllHeld
  <1> QED
    BY <1>3, <1>4, <1>5, <1>6 DEF Inv

\* The facts about the array every step needs.
LEMMA Shape ==
  ASSUME Inv
  PROVE  /\ heap_size \in Nat \ {0} /\ heap_length \in Nat /\ heap_length <= heap_size
         /\ heap \in [0 .. heap_size - 1 -> Pair \cup {NoPair}]
         /\ \A i \in 0 .. heap_length - 1 : i \in DOMAIN heap /\ heap[i] \in Pair
         /\ idx \in Nat /\ idx <= heap_length
         /\ Ids \subseteq Nat
         /\ \A p \in Pair : p.id \in Nat
  <1>1. Ids \subseteq Nat
    BY ObjStructAssumption DEF ObjStructAssumption
  <1>2. \A p \in Pair : p.id \in Nat
    BY <1>1 DEF Pair
  <1>3. /\ heap_size \in Nat \ {0} /\ heap_length \in Nat /\ heap_length <= heap_size
        /\ heap \in [0 .. heap_size - 1 -> Pair \cup {NoPair}]
        /\ idx \in Nat /\ idx <= heap_length
    BY DEF Inv, TypeOK
  <1>4. \A i \in 0 .. heap_length - 1 : i \in DOMAIN heap /\ heap[i] \in Pair
    BY <1>3 DEF Inv, TypeOK, Stored
  <1> QED
    BY <1>1, <1>2, <1>3, <1>4

LEMMA SetStep ==
  ASSUME Inv, NEW id \in Ids, NEW obj \in Objs, Set(id, obj)
  PROVE  Inv'
  <1>1. ret' \in Objs \cup {NULL}
    BY DEF Inv, TypeOK, Set
  <1>2. key' \in Nat /\ min' \in Nat /\ max' \in Nat /\ ~Inserting
    BY DEF Inv, TypeOK, Set, Inserting
  <1> QED
    BY <1>1, <1>2, EnterSetStep DEF Set

\* What the search returns is an object of the structure or nothing.
LEMMA ResultFacts ==
  ASSUME Inv, pc = "search"
  PROVE  /\ Result \in Objs \cup {NULL}
         /\ Found => min \in Stored
  <1>1. heap_length \in Nat /\ \A i \in 0 .. heap_length - 1 : heap[i] \in Pair
    BY Shape
  <1>2. Found => min \in Stored
    BY <1>1 DEF Inv, TypeOK, SearchInBounds, Found, Stored
  <1> QED
    BY <1>1, <1>2 DEF Result, Stored, Pair

LEMMA DeleteReturnStep ==
  ASSUME Inv, DeleteReturn
  PROVE  Inv'
  <1>1. pc = "search" /\ ~Inserting /\ key \in Ids
    BY DEF DeleteReturn, Inserting, Inv, TypeOK
  <1>2. ret' \in Objs \cup {NULL}
    BY <1>1, ResultFacts DEF Inv, TypeOK, DeleteReturn
  <1>3. key' \in Nat /\ min' \in Nat /\ max' \in Nat /\ op' \in {"set", "delete"}
    BY DEF Inv, TypeOK, DeleteReturn
  <1>4. ConstNull \in Objs
    BY ObjStructAssumption DEF ObjStructAssumption
  <1> QED
    BY <1>1, <1>2, <1>3, <1>4, EnterSetStep DEF DeleteReturn

LEMMA SearchStep ==
  ASSUME Inv, NEW o \in {"get", "delete"}, NEW id \in Ids, StartSearch(o, id)
  PROVE  Inv'
  <1>1. heap_length \in Nat /\ id \in Nat
    BY Shape
  <1>2. TypeOK'
    BY <1>1 DEF Inv, TypeOK, StartSearch, Stored, history
  <1>3. SearchInBounds'
    BY <1>1, MidFacts DEF StartSearch, SearchInBounds, Mid
  <1>4. HoleTyped' /\ SiftOrdered'
    BY DEF Inv, SiftOrdered, HoleTyped, StartSearch, Inserting
  <1>5. AllHeld'
    BY DEF Inv, AllHeld, Slots, Held, Stored, StartSearch, Inserting
  <1> QED
    BY <1>2, <1>3, <1>4, <1>5 DEF Inv

LEMMA NarrowStep ==
  ASSUME Inv, Narrow
  PROVE  Inv'
  <1>1. min \in Nat /\ max \in Nat /\ heap_length \in Nat /\ min < max
    BY Shape DEF Inv, TypeOK, Narrow
  <1>2. Mid \in Nat /\ min <= Mid /\ Mid < max
    BY <1>1, MidFacts DEF Mid
  <1>3. /\ min' \in Nat /\ max' \in Nat /\ min' <= max' /\ max' <= max
    BY <1>1, <1>2 DEF Narrow
  <1>4. /\ pc = "search" /\ pc' = "search"
        /\ UNCHANGED <<heap, heap_size, heap_length, op, pair, key, idx, ret, last, ascending>>
    BY DEF Narrow, history
  <1>5. TypeOK'
    BY <1>3, <1>4 DEF Inv, TypeOK, Stored
  <1>6. SearchInBounds'
    <2>1. heap_length > 0 => max' < heap_length
      BY <1>1, <1>3, <1>4 DEF Inv, SearchInBounds
    <2>2. min' < max' => Mid' < max'
      BY <1>3, MidFacts DEF Mid
    <2> QED
      BY <1>3, <1>4, <2>1, <2>2 DEF SearchInBounds
  <1>7. HoleTyped' /\ SiftOrdered'
    BY <1>4 DEF Inv, SiftOrdered, HoleTyped, Inserting
  <1>8. AllHeld'
    BY <1>4 DEF Inv, AllHeld, Slots, Held, Stored, Inserting
  <1> QED
    BY <1>5, <1>6, <1>7, <1>8 DEF Inv

LEMMA GetReturnStep ==
  ASSUME Inv, GetReturn
  PROVE  Inv'
  <1>1. ret' \in Objs \cup {NULL} /\ pc = "search"
    BY ResultFacts DEF GetReturn
  <1>2. heap_length \in Nat
    BY Shape
  <1>3. TypeOK'
    BY <1>1, <1>2 DEF Inv, TypeOK, GetReturn, Return, Stored, history
  <1>4. HoleTyped' /\ SiftOrdered' /\ SearchInBounds'
    BY DEF Inv, SiftOrdered, HoleTyped, SearchInBounds, GetReturn, Return, Inserting
  <1>5. AllHeld'
    BY <1>1 DEF Inv, AllHeld, Slots, Held, Stored, GetReturn, Return, Inserting
  <1> QED
    BY <1>3, <1>4, <1>5 DEF Inv

LEMMA GrowStep ==
  ASSUME Inv, GrowHeap
  PROVE  Inv'
  <1>1. heap_size * GrowthRate \in Nat \ {0} /\ heap_size < heap_size * GrowthRate
    BY ObjStructAssumption, GrowthFacts, Shape DEF ObjStructAssumption
  <1> DEFINE m == heap_size * GrowthRate
  <1>2. /\ heap_size' = m /\ heap_size \in Nat /\ m \in Nat \ {0} /\ heap_size < m
        /\ heap' = [i \in 0 .. m - 1 |-> IF i < heap_size THEN heap[i] ELSE NoPair]
    BY <1>1, Shape DEF GrowHeap
  <1> HIDE DEF m
  <1>3. /\ pc = "grow" /\ heap_length \in Nat /\ heap_length <= heap_size
        /\ UNCHANGED <<heap_length, pc, op, pair, key, idx, min, max, ret, last, ascending>>
    BY Shape DEF GrowHeap, history
  <1>4. idx = heap_length
    BY <1>3 DEF Inv, TypeOK
  <1>5. \A i \in 0 .. heap_size - 1 : heap'[i] = heap[i]
    BY <1>2
  <1>6. heap' \in [0 .. m - 1 -> Pair \cup {NoPair}]
    BY <1>2, Shape
  <1>7. \A i \in 0 .. heap_length - 1 : i \in 0 .. heap_size - 1 /\ i \div 2 \in 0 .. heap_size - 1
    BY <1>2, <1>3, HalfFacts
  <1>8. TypeOK'
    <2>1. \A i \in Stored : heap'[i] \in Pair
      BY <1>5, <1>7, Shape DEF Stored
    <2> QED
      BY <1>2, <1>3, <1>6, <2>1 DEF Inv, TypeOK, Stored
  <1>9. HoleTyped' /\ SearchInBounds'
    BY <1>3 DEF HoleTyped, SearchInBounds
  <1>10. SiftOrdered'
    BY <1>3, <1>4, <1>5, <1>7 DEF Inv, SiftOrdered, Inserting
  <1>11. AllHeld'
    <2>1. Slots = Stored /\ Slots' = Stored
      BY <1>3, <1>4 DEF Slots, Held, Stored, Inserting
    <2>2. \A i \in Stored : heap'[i] = heap[i]
      BY <1>5, <1>7 DEF Stored
    <2>3. AllHeld /\ heap_length' = heap_length /\ pair' = pair /\ Inserting
      BY <1>3 DEF Inv, Inserting
    <2> QED
      BY <2>1, <2>2, <2>3 DEF AllHeld
  <1> QED
    BY <1>8, <1>9, <1>10, <1>11 DEF Inv

LEMMA GrownStep ==
  ASSUME Inv, Grown
  PROVE  Inv'
  <1>1. /\ pc = "grow" /\ pc' = "sift" /\ heap_length \in Nat /\ heap_length < heap_size
        /\ UNCHANGED <<heap, heap_size, heap_length, op, pair, key, idx, min, max, ret, last, ascending>>
    BY Shape DEF Grown, history
  <1>2. idx = heap_length
    BY <1>1 DEF Inv, TypeOK
  <1>3. TypeOK'
    BY <1>1 DEF Inv, TypeOK, Stored
  <1>4. HoleTyped' /\ SiftOrdered' /\ SearchInBounds'
    BY <1>1, <1>2 DEF Inv, SiftOrdered, HoleTyped, SearchInBounds, Inserting
  <1>5. AllHeld'
    BY <1>1, <1>2 DEF Inv, AllHeld, Slots, Held, Stored, Inserting
  <1> QED
    BY <1>3, <1>4, <1>5 DEF Inv

LEMMA SiftStep ==
  ASSUME Inv, SiftUp
  PROVE  Inv'
  <1> DEFINE L == heap_length
             p == idx \div 2
  <1>1. /\ L \in Nat /\ idx \in Nat /\ idx > 0 /\ idx <= L
        /\ p \in Nat /\ p < idx
    BY Shape, HalfFacts DEF SiftUp, MustSift
  <1>2. /\ pc = "sift" /\ Inserting /\ Inserting' /\ pair.id < heap[p].id
        /\ heap' = [heap EXCEPT ![idx] = heap[p]] /\ idx' = p
        /\ UNCHANGED <<heap_size, heap_length, pc, op, pair, key, min, max, ret, last, ascending>>
    BY DEF SiftUp, MustSift, Inserting, history
  <1>3. /\ heap_size \in Nat /\ L < heap_size
        /\ heap \in [0 .. heap_size - 1 -> Pair \cup {NoPair}]
        /\ \A i \in 0 .. L - 1 : heap[i] \in Pair
    BY <1>2, Shape DEF Inv, TypeOK
  <1>4. heap[p] \in Pair
    BY <1>1, <1>3
  <1>5. /\ heap' \in [0 .. heap_size - 1 -> Pair \cup {NoPair}]
        /\ heap'[idx] = heap[p]
        /\ \A i \in 0 .. L : i # idx => heap'[i] = heap[i]
    BY <1>1, <1>2, <1>3, <1>4
  <1>6. idx < L => heap[L] \in Pair
    BY <1>2 DEF Inv, HoleTyped
  <1>7. \A i \in 0 .. L : (i < L \/ idx < L) => heap[i] \in Pair /\ heap[i].id \in Nat
    BY <1>1, <1>3, <1>6, Shape
  <1>8. pair.id \in Nat
    BY <1>2, Shape DEF Inv, TypeOK
  <1> HIDE DEF p
  <1>9. TypeOK'
    <2>1. \A i \in Stored : heap'[i] \in Pair
      BY <1>1, <1>3, <1>4, <1>5 DEF Stored
    <2> QED
      BY <1>1, <1>2, <1>5, <2>1 DEF Inv, TypeOK, Stored
  <1>10. HoleTyped'
    <2>1. heap'[L] \in Pair
      BY <1>1, <1>4, <1>5, <1>6
    <2> QED
      BY <1>2, <2>1 DEF HoleTyped
  <1>11. SearchInBounds'
    BY <1>2 DEF SearchInBounds
  <1>12. \A i \in 1 .. L : heap'[i \div 2].id <= heap'[i].id
    <2> TAKE i \in 1 .. L
    <2>1. i \div 2 \in 0 .. L /\ i \div 2 < i
      BY <1>1, HalfFacts
    <2>2. CASE i = idx
      <3>1. i \div 2 = p /\ p # idx /\ p \in 0 .. L /\ heap[p].id \in Nat
        BY <1>1, <1>7, <2>2 DEF p
      <3> QED
        BY <1>5, <2>2, <3>1
    <2>3. CASE i # idx /\ i \div 2 = idx
      <3>1. idx < L /\ idx \in 1 .. L - 1
        BY <1>1, <2>1, <2>3
      <3>2. heap[idx].id <= heap[i].id
        BY <1>1, <1>2, <2>3, <3>1 DEF Inv, SiftOrdered
      <3>3. heap[p].id <= heap[idx].id
        BY <3>1 DEF Inv, SiftOrdered, p
      <3>4. heap[p].id \in Nat /\ heap[idx].id \in Nat /\ heap[i].id \in Nat
        BY <1>1, <1>7, <3>1
      <3>5. heap[p].id <= heap[i].id
        BY <3>2, <3>3, <3>4
      <3> QED
        BY <1>5, <2>3, <3>5
    <2>4. CASE i # idx /\ i \div 2 # idx
      <3>1. i < L \/ idx < L
        BY <1>1, <2>4
      <3>2. heap[i \div 2].id <= heap[i].id
        BY <1>1, <1>2, <3>1 DEF Inv, SiftOrdered
      <3> QED
        BY <1>1, <1>5, <2>1, <2>4, <3>2
    <2> QED
      BY <2>2, <2>3, <2>4
  <1>13. SiftOrdered'
    <2>1. \A i \in 1 .. L - 1 : heap'[i \div 2].id <= heap'[i].id
      BY <1>1, <1>12
    <2>2. heap'[L \div 2].id <= heap'[L].id
      BY <1>1, <1>12
    <2>3. pair.id < heap'[p].id
      BY <1>1, <1>2, <1>5
    <2> QED
      BY <1>2, <2>1, <2>2, <2>3 DEF SiftOrdered
  <1>14. AllHeld'
    <2>1. Slots = (0 .. L) \ {idx} /\ Slots' = (0 .. L) \ {p}
      BY <1>2 DEF Slots, Held
    <2>2. p \in Slots /\ idx \in Slots' /\ p \notin Slots' /\ idx \notin Slots
      BY <1>1, <2>1
    <2>3. \A i \in Slots' \ {idx} : i \in Slots \ {p} /\ heap'[i] = heap[i]
      BY <1>5, <2>1
    <2>4. \A i \in Slots \ {p} : i \in Slots' \ {idx}
      BY <2>1
    <2>5. \A i \in Slots' : heap'[i].n \in 1 .. L
      BY <1>5, <2>2, <2>3 DEF Inv, AllHeld
    <2>6. ASSUME NEW m \in 1 .. L PROVE \E i \in Slots' : heap'[i].n = m
      <3>1. PICK i \in Slots : heap[i].n = m
        BY DEF Inv, AllHeld
      <3> QED
        BY <1>5, <2>2, <2>3, <2>4, <3>1
    <2>7. ASSUME NEW i \in Slots', NEW j \in Slots', heap'[i].n = heap'[j].n PROVE i = j
      <3>1. \A a, b \in Slots : heap[a].n = heap[b].n => a = b
        BY DEF Inv, AllHeld
      <3>2. CASE i = idx /\ j # idx
        BY <1>5, <2>2, <2>3, <2>7, <3>1, <3>2
      <3>3. CASE i # idx /\ j = idx
        BY <1>5, <2>2, <2>3, <2>7, <3>1, <3>3
      <3>4. CASE i # idx /\ j # idx
        BY <1>5, <2>2, <2>3, <2>7, <3>1, <3>4
      <3> QED
        BY <3>2, <3>3, <3>4
    <2> QED
      BY <1>2, <2>5, <2>6, <2>7 DEF Inv, AllHeld
  <1> QED
    BY <1>9, <1>10, <1>11, <1>13, <1>14 DEF Inv

LEMMA PlaceStep ==
  ASSUME Inv, Place
  PROVE  Inv'
  <1> DEFINE L == heap_length
  <1>1. /\ L \in Nat /\ idx \in Nat /\ idx <= L
        /\ pc = "sift" /\ Inserting /\ ~Inserting' /\ pair \in Pair /\ pair.id \in Nat
    BY Shape DEF Place, Return, Inserting, Inv, TypeOK
  <1>2. /\ heap' = [heap EXCEPT ![idx] = pair] /\ heap_length' = L + 1
        /\ idx > 0 => heap[idx \div 2].id <= pair.id
        /\ UNCHANGED <<heap_size, ret, last, ascending>>
    <2>1. idx > 0 => ~(pair.id < heap[idx \div 2].id)
      BY DEF Place, MustSift
    <2>2. idx > 0 => heap[idx \div 2].id \in Nat
      BY <1>1, HalfFacts, Shape
    <2> QED
      BY <1>1, <2>1, <2>2 DEF Place, history
  <1>3. /\ heap_size \in Nat /\ L < heap_size
        /\ heap \in [0 .. heap_size - 1 -> Pair \cup {NoPair}]
        /\ \A i \in 0 .. L - 1 : heap[i] \in Pair
    BY <1>1, Shape DEF Inv, TypeOK
  <1>4. idx < L => heap[L] \in Pair
    BY <1>1 DEF Inv, HoleTyped
  <1>5. /\ heap' \in [0 .. heap_size - 1 -> Pair \cup {NoPair}]
        /\ heap'[idx] = pair
        /\ \A i \in 0 .. L : i # idx => heap'[i] = heap[i]
    BY <1>1, <1>2, <1>3
  <1>6. \A i \in 0 .. L : heap'[i] \in Pair
    BY <1>1, <1>3, <1>4, <1>5
  <1>7. TypeOK'
    <2>1. Stored' = 0 .. L
      BY <1>1, <1>2 DEF Stored
    <2> QED
      BY <1>1, <1>2, <1>3, <1>5, <1>6, <2>1 DEF Inv, TypeOK, Place, Return
  <1>8. HoleTyped' /\ SearchInBounds'
    BY DEF Place, Return, HoleTyped, SearchInBounds
  <1>9. SiftOrdered'
    <2> SUFFICES ASSUME NEW i \in 1 .. L PROVE heap'[i \div 2].id <= heap'[i].id
      BY <1>1, <1>2 DEF SiftOrdered
    <2>1. i \div 2 \in 0 .. L /\ i \div 2 < i
      BY <1>1, HalfFacts
    <2>2. CASE i = idx
      BY <1>1, <1>2, <1>5, <2>1, <2>2
    <2>3. CASE i # idx /\ i \div 2 = idx
      <3>1. idx < L
        BY <1>1, <2>1, <2>3
      <3>2. heap[idx].id <= heap[i].id /\ pair.id < heap[idx].id
        BY <1>1, <2>3, <3>1 DEF Inv, SiftOrdered
      <3>3. heap[idx].id \in Nat /\ heap[i].id \in Nat
        BY <1>1, <1>3, <1>4, <3>1, Shape
      <3>4. pair.id <= heap[i].id
        BY <1>1, <3>2, <3>3
      <3> QED
        BY <1>5, <2>3, <3>4
    <2>4. CASE i # idx /\ i \div 2 # idx
      <3>1. heap[i \div 2].id <= heap[i].id
        BY <1>1, <2>4 DEF Inv, SiftOrdered
      <3> QED
        BY <1>5, <2>1, <2>4, <3>1
    <2> QED
      BY <2>2, <2>3, <2>4
  <1>10. AllHeld'
    <2>1. Slots = (0 .. L) \ {idx} /\ Slots' = 0 .. L
      BY <1>1, <1>2 DEF Slots, Held, Stored
    <2>2. pair.n = L + 1 /\ \A i \in Slots : heap[i].n \in 1 .. L
      BY <1>1 DEF Inv, AllHeld
    <2>3. \A i \in Slots : i \in Slots' /\ heap'[i] = heap[i]
      BY <1>5, <2>1
    <2>4. \A i \in Slots' : i # idx => i \in Slots
      BY <2>1
    <2>5. \A i \in Slots' : heap'[i].n \in 1 .. L + 1
      BY <1>1, <1>5, <2>2, <2>3, <2>4
    <2>6. ASSUME NEW m \in 1 .. L + 1 PROVE \E i \in Slots' : heap'[i].n = m
      <3>1. CASE m = L + 1
        BY <1>1, <1>5, <2>1, <2>2, <3>1
      <3>2. CASE m # L + 1
        <4>1. PICK i \in Slots : heap[i].n = m
          BY <1>1, <3>2 DEF Inv, AllHeld
        <4> QED
          BY <2>3, <4>1
      <3> QED
        BY <3>1, <3>2
    <2>7. ASSUME NEW i \in Slots', NEW j \in Slots', heap'[i].n = heap'[j].n PROVE i = j
      <3>1. \A a, b \in Slots : heap[a].n = heap[b].n => a = b
        BY DEF Inv, AllHeld
      <3>2. \A a \in Slots : heap[a].n # pair.n
        BY <1>1, <2>2
      <3>3. CASE i = idx /\ j # idx
        BY <1>5, <2>3, <2>4, <2>7, <3>2, <3>3
      <3>4. CASE i # idx /\ j = idx
        BY <1>5, <2>3, <2>4, <2>7, <3>2, <3>4
      <3>5. CASE i # idx /\ j # idx
        BY <2>3, <2>4, <2>7, <3>1, <3>5
      <3> QED
        BY <3>3, <3>4, <3>5
    <2> QED
      BY <1>1, <1>2, <2>5, <2>6, <2>7 DEF AllHeld
  <1> QED
    BY <1>7, <1>8, <1>9, <1>10 DEF Inv

LEMMA NextInv == Inv /\ [Next]_vars => Inv'
  <1>1. ASSUME Inv, Next PROVE Inv'
    <2>1. CASE \E id \in Ids, obj \in Objs : Set(id, obj)
      BY <1>1, <2>1, SetStep
    <2>2. CASE \E id \in Ids : Get(id) \/ Delete(id)
      BY <1>1, <2>2, SearchStep DEF Get, Delete
    <2>3. CASE Step
      BY <1>1, <2>3, GrowStep, GrownStep, SiftStep, PlaceStep, NarrowStep, GetReturnStep,
         DeleteReturnStep DEF Step
    <2> QED
      BY <1>1, <2>1, <2>2, <2>3 DEF Next
  <1>2. ASSUME Inv, UNCHANGED vars PROVE Inv'
    <2>1. TypeOK'
      BY <1>2 DEF Inv, TypeOK, Stored, vars
    <2>2. HoleTyped' /\ SiftOrdered' /\ SearchInBounds'
      BY <1>2 DEF Inv, HoleTyped, SiftOrdered, SearchInBounds, Inserting, Mid, vars
    <2>3. AllHeld'
      BY <1>2 DEF Inv, AllHeld, Slots, Held, Stored, Inserting, vars
    <2> QED
      BY <2>1, <2>2, <2>3 DEF Inv
  <1> QED
    BY <1>1, <1>2

\* For all sizes and growth rates: every index the two loops use is in the array.
THEOREM TypeCorrect == Spec => []TypeOK
  <1>1. Inv => TypeOK
    BY DEF Inv
  <1> QED
    BY <1>1, InitInv, NextInv, PTL DEF Spec

\* For any sequence of ids: the insertion leaves a binary heap.
THEOREM SetKeepsHeap == Spec => []HeapOrdered
  <1>1. Inv => HeapOrdered
    <2> SUFFICES ASSUME Inv, NEW i \in Stored, i > 0 PROVE heap[i \div 2].id <= heap[i].id
      BY DEF HeapOrdered
    <2>1. i \in 1 .. heap_length - 1
      BY Shape DEF Stored
    <2> QED
      BY <2>1 DEF Inv, SiftOrdered
  <1> QED
    BY <1>1, InitInv, NextInv, PTL DEF Spec

\* For any sequence of ids: no stored pair is ever overwritten or duplicated.
THEOREM SetKeepsPairs == Spec => []NoPairLost
  <1>1. Inv => NoPairLost
    <2> SUFFICES ASSUME Inv, Idle, NEW m \in 1 .. heap_length
                 PROVE  \E i \in Stored : heap[i].n = m /\ \A j \in Stored : heap[j].n = m => j = i
      BY DEF NoPairLost
    <2>1. Slots = Stored
      BY DEF Idle, Slots, Inserting
    <2> QED
      BY <2>1 DEF Inv, AllHeld
  <1> QED
    BY <1>1, InitInv, NextInv, PTL DEF Spec

\* For any contents: the search reads stored pairs only and its assertion holds.
THEOREM SearchStaysInBounds == Spec => []SearchInBounds
  <1>1. Inv => SearchInBounds
    BY DEF Inv
  <1> QED
    BY <1>1, InitInv, NextInv, PTL DEF Spec

\* For any contents: a lookup answers with an object stored under its key, or not
\* at all.
THEOREM LookupsAreStored == Spec => ResultStored
  <1>1. ASSUME Inv, Next, pc = "search", pc' # "search", ret' # NULL
        PROVE  \E i \in Stored : heap[i].id = key /\ heap[i].obj = ret'
    <2>1. GetReturn \/ DeleteReturn
      BY <1>1 DEF Next, Set, Get, Delete, StartSearch, Step, GrowHeap, Grown, SiftUp, Place, Narrow
    <2>2. ret' = Result
      BY <2>1 DEF GetReturn, DeleteReturn
    <2>3. Found /\ ret' = heap[min].obj
      BY <1>1, <2>2 DEF Result
    <2> QED
      BY <1>1, <2>3, ResultFacts DEF Found
  <1>2. Inv /\ [Next]_vars =>
          [(pc = "search" /\ pc' # "search" /\ ret' # NULL)
             => \E i \in Stored : heap[i].id = key /\ heap[i].obj = ret']_vars
    BY <1>1
  <1> QED
    BY <1>2, InitInv, NextInv, PTL DEF Spec, ResultStored

--------------------------------------------------------------------------------
(* Ids stored in ascending order, each one once: the heap is a strictly sorted array. *)

Sorted == \A i, j \in Stored : i < j => heap[i].id < heap[j].id

\* The new pair belongs at the end and does not sift.
AtEnd == Inserting => idx = heap_length /\ \A i \in Stored : heap[i].id < pair.id

\* What was stored under an id is in its pair, or in the one being inserted.
LastHeld(k) == \E i \in Stored : heap[i].id = k /\ heap[i].obj = last[k]
LastKnown ==
  \A k \in Ids :
    IF Inserting /\ pair.id = k THEN last[k] = pair.obj
    ELSE LastHeld(k) \/ ((\A i \in Stored : heap[i].id # k) /\ last[k] = NULL)

\* What the search has ruled out: smaller ids below min, and above max nothing
\* that could have the key.
Narrowed ==
  (pc = "search" /\ heap_length > 0) =>
     /\ \A i \in Stored : i < min => heap[i].id < key
     /\ max = heap_length - 1 \/ key <= heap[max].id

Ascending == ascending => Sorted /\ AtEnd /\ LastKnown /\ Narrowed

\* A new id that is above every stored one.
LEMMA EnterAscending ==
  ASSUME Inv, Ascending, NEW id \in Ids, NEW obj \in Objs, ~Inserting, EnterSet(id, obj),
         UNCHANGED <<heap, heap_length>>
  PROVE  Ascending'
  <1> SUFFICES ASSUME ascending' PROVE Sorted' /\ AtEnd' /\ LastKnown' /\ Narrowed'
    BY DEF Ascending
  <1>1. /\ ascending /\ \A i \in Stored : heap[i].id < id
        /\ pc' = "grow" /\ idx' = heap_length /\ pair'.id = id /\ pair'.obj = obj
        /\ last' = [last EXCEPT ![id] = obj]
    BY DEF EnterSet, Stored
  <1>2. Sorted /\ LastKnown /\ Stored' = Stored /\ Inserting'
    BY <1>1 DEF Ascending, Stored, Inserting
  <1>3. Sorted' /\ AtEnd' /\ Narrowed'
    BY <1>1, <1>2 DEF Sorted, AtEnd, Narrowed
  <1>4. LastKnown'
    <2> SUFFICES ASSUME NEW k \in Ids
                 PROVE  IF id = k THEN last'[k] = obj
                        ELSE LastHeld(k)' \/ ((\A i \in Stored : heap[i].id # k) /\ last'[k] = NULL)
      BY <1>1, <1>2 DEF LastKnown
    <2>1. last \in [Ids -> Objs \cup {NULL}]
      BY DEF Inv, TypeOK
    <2>2. last'[k] = IF k = id THEN obj ELSE last[k]
      BY <1>1, <2>1
    <2>3. LastHeld(k) \/ ((\A i \in Stored : heap[i].id # k) /\ last[k] = NULL)
      BY <1>2 DEF LastKnown
    <2> QED
      BY <1>2, <2>2, <2>3 DEF LastHeld
  <1> QED
    BY <1>3, <1>4

\* Steps that change neither the pairs stored nor what is being inserted.
LEMMA PairsKept ==
  ASSUME Sorted, LastKnown, Stored' = Stored, \A i \in Stored : heap'[i] = heap[i],
         Inserting' <=> Inserting, last' = last, Inserting => pair' = pair
  PROVE  Sorted' /\ LastKnown'
  <1>1. Sorted'
    BY DEF Sorted
  <1>2. \A k \in Ids : LastHeld(k) => LastHeld(k)'
    BY DEF LastHeld
  <1>3. LastKnown'
    BY <1>2 DEF LastKnown
  <1> QED
    BY <1>1, <1>3

LEMMA AscendingStep ==
  ASSUME Inv, Ascending, Next
  PROVE  Ascending'
  <1>0. /\ heap_length \in Nat /\ heap_size \in Nat \ {0} /\ heap_length <= heap_size
        /\ \A i \in Stored : i \in DOMAIN heap /\ heap[i] \in Pair /\ heap[i].id \in Nat
    BY Shape DEF Stored
  <1>1. ASSUME NEW id \in Ids, NEW obj \in Objs, Set(id, obj) PROVE Ascending'
    BY <1>1, EnterAscending DEF Set, Inserting
  <1>2. CASE DeleteReturn
    <2>1. key \in Ids /\ ConstNull \in Objs /\ ~Inserting
      BY <1>2, ObjStructAssumption DEF ObjStructAssumption, DeleteReturn, Inv, TypeOK, Inserting
    <2> QED
      BY <1>2, <2>1, EnterAscending DEF DeleteReturn
  <1> SUFFICES ASSUME ascending, ascending',
                      (\E id \in Ids : Get(id) \/ Delete(id))
                        \/ GrowHeap \/ Grown \/ SiftUp \/ Place \/ Narrow \/ GetReturn
               PROVE  Sorted' /\ AtEnd' /\ LastKnown' /\ Narrowed'
    <2>1. CASE \E id \in Ids : Get(id) \/ Delete(id)
      BY <2>1 DEF Ascending, Get, Delete, StartSearch, history
    <2>2. CASE GrowHeap \/ Grown \/ SiftUp \/ Place \/ Narrow \/ GetReturn
      BY <2>2 DEF Ascending, GrowHeap, Grown, SiftUp, Place, Narrow, GetReturn, history
    <2> QED
      BY <1>1, <1>2, <2>1, <2>2 DEF Next, Step
  <1>3. Sorted /\ AtEnd /\ LastKnown /\ Narrowed
    BY DEF Ascending
  <1>4. CASE \E id \in Ids : Get(id) \/ Delete(id)
    <2>1. /\ pc = "idle" /\ pc' = "search" /\ min' = 0
          /\ max' = IF heap_length = 0 THEN 0 ELSE heap_length - 1
          /\ UNCHANGED <<heap, heap_length, last>>
      BY <1>4 DEF Get, Delete, StartSearch, history
    <2>2. ~Inserting /\ ~Inserting' /\ Stored' = Stored
      BY <2>1 DEF Inserting, Stored
    <2>3. Sorted' /\ LastKnown'
      BY <1>3, <2>1, <2>2, PairsKept
    <2>4. Narrowed'
      BY <1>0, <2>1, <2>2 DEF Narrowed, Stored
    <2> QED
      BY <2>2, <2>3, <2>4 DEF AtEnd
  <1>5. CASE GetReturn
    <2>1. pc = "search" /\ pc' = "idle" /\ UNCHANGED <<heap, heap_length, last>>
      BY <1>5 DEF GetReturn, Return, history
    <2>2. ~Inserting /\ ~Inserting' /\ Stored' = Stored
      BY <2>1 DEF Inserting, Stored
    <2> QED
      BY <1>3, <2>1, <2>2, PairsKept DEF AtEnd, Narrowed
  <1>6. CASE Narrow
    <2>1. /\ pc = "search" /\ pc' = pc /\ min < max /\ UNCHANGED <<heap, heap_length, last, key>>
          /\ IF heap[Mid].id < key THEN min' = Mid + 1 /\ max' = max ELSE min' = min /\ max' = Mid
      BY <1>6 DEF Narrow, history
    <2>2. ~Inserting /\ ~Inserting' /\ Stored' = Stored
      BY <2>1 DEF Inserting, Stored
    <2>3. Sorted' /\ LastKnown'
      BY <1>3, <2>1, <2>2, PairsKept
    <2>4. Narrowed'
      <3> SUFFICES ASSUME heap_length > 0
                   PROVE  /\ \A i \in Stored : i < min' => heap[i].id < key
                          /\ max' = heap_length - 1 \/ key <= heap[max'].id
        BY <2>1, <2>2 DEF Narrowed
      <3>1. min \in Nat /\ max \in Nat /\ max < heap_length /\ key \in Nat
        BY <2>1 DEF Inv, TypeOK, SearchInBounds
      <3>2. Mid \in Nat /\ Mid < max
        BY <2>1, <3>1, MidFacts DEF Mid
      <3>3. Mid \in Stored
        BY <1>0, <3>1, <3>2 DEF Stored
      <3> HIDE DEF Mid
      <3>4. CASE heap[Mid].id < key
        <4>1. \A i \in Stored : i < Mid + 1 => heap[i].id < key
          <5> SUFFICES ASSUME NEW i \in Stored, i < Mid + 1 PROVE heap[i].id < key
            OBVIOUS
          <5>1. i <= Mid
            BY <3>2 DEF Stored
          <5>2. i = Mid \/ heap[i].id < heap[Mid].id
            BY <1>3, <3>2, <3>3, <5>1 DEF Sorted, Stored
          <5> QED
            BY <1>0, <3>1, <3>3, <3>4, <5>2
        <4> QED
          BY <1>3, <2>1, <3>4, <4>1 DEF Narrowed
      <3>5. CASE ~(heap[Mid].id < key)
        <4>1. key <= heap[Mid].id
          BY <1>0, <3>1, <3>3, <3>5
        <4> QED
          BY <1>3, <2>1, <3>5, <4>1 DEF Narrowed
      <3> QED
        BY <3>4, <3>5
    <2> QED
      BY <2>2, <2>3, <2>4 DEF AtEnd
  <1>7. CASE GrowHeap
    <2>1. /\ pc = "grow" /\ UNCHANGED <<heap_length, pc, pair, idx, last>>
          /\ heap' = [i \in 0 .. heap_size * GrowthRate - 1 |->
                        IF i < heap_size THEN heap[i] ELSE NoPair]
      BY <1>7 DEF GrowHeap, history
    <2>2. heap_size * GrowthRate \in Nat /\ heap_size < heap_size * GrowthRate
      BY <1>0, ObjStructAssumption, GrowthFacts DEF ObjStructAssumption
    <2>3. \A i \in Stored : i \in 0 .. heap_size * GrowthRate - 1 /\ i < heap_size
      BY <1>0, <2>2 DEF Stored
    <2>4. \A i \in Stored : heap'[i] = heap[i]
      BY <2>1, <2>3
    <2>5. Stored' = Stored /\ Inserting' = Inserting
      BY <2>1 DEF Stored, Inserting
    <2>6. Sorted' /\ LastKnown'
      BY <1>3, <2>1, <2>4, <2>5, PairsKept
    <2> QED
      BY <1>3, <2>1, <2>4, <2>5, <2>6 DEF AtEnd, Narrowed
  <1>8. CASE Grown
    <2>1. pc = "grow" /\ pc' = "sift" /\ UNCHANGED <<heap, heap_length, pair, idx, last>>
      BY <1>8 DEF Grown, history
    <2>2. Inserting /\ Inserting' /\ Stored' = Stored
      BY <2>1 DEF Inserting, Stored
    <2>3. Sorted' /\ LastKnown'
      BY <1>3, <2>1, <2>2, PairsKept
    <2> QED
      BY <1>3, <2>1, <2>2, <2>3 DEF AtEnd, Narrowed
  <1>9. CASE SiftUp
    <2>1. Inserting /\ idx > 0 /\ pair.id < heap[idx \div 2].id
      BY <1>9 DEF SiftUp, MustSift, Inserting
    <2>2. idx = heap_length /\ idx \div 2 \in Stored
      BY <1>0, <1>3, <2>1, HalfFacts DEF AtEnd, Stored
    <2>3. heap[idx \div 2].id < pair.id /\ pair.id \in Nat
      BY <1>3, <2>1, <2>2, Shape DEF AtEnd, Inv, TypeOK, Inserting
    <2> QED
      BY <1>0, <2>1, <2>2, <2>3
  <1>10. CASE Place
    <2>1. /\ pc = "sift" /\ pc' = "idle" /\ heap' = [heap EXCEPT ![idx] = pair]
          /\ heap_length' = heap_length + 1 /\ last' = last
      BY <1>10 DEF Place, Return, history
    <2>2. Inserting /\ ~Inserting'
      BY <2>1 DEF Inserting
    <2>3. idx = heap_length /\ \A i \in Stored : heap[i].id < pair.id
      BY <1>3, <2>2 DEF AtEnd
    <2>4. pair \in Pair /\ pair.id \in Nat /\ idx \in DOMAIN heap
      BY <1>0, <2>1, <2>3, Shape DEF Inv, TypeOK
    <2>5. Stored' = Stored \cup {idx} /\ idx \notin Stored /\ \A i \in Stored : i < idx
      BY <1>0, <2>1, <2>3 DEF Stored
    <2>6. heap'[idx] = pair /\ \A i \in Stored : heap'[i] = heap[i]
      BY <1>0, <2>1, <2>4, <2>5
    <2>7. Sorted'
      <3> SUFFICES ASSUME NEW i \in Stored', NEW j \in Stored', i < j
                   PROVE  heap'[i].id < heap'[j].id
        BY DEF Sorted
      <3>1. CASE j = idx
        BY <1>0, <2>3, <2>4, <2>5, <2>6, <3>1
      <3>2. CASE j \in Stored /\ i \in Stored
        BY <1>3, <2>6, <3>2 DEF Sorted
      <3>3. CASE j \in Stored /\ i = idx
        BY <1>0, <2>3, <3>3 DEF Stored
      <3> QED
        BY <2>5, <3>1, <3>2, <3>3
    <2>8. LastKnown'
      <3> SUFFICES ASSUME NEW k \in Ids
                   PROVE  LastHeld(k)' \/ ((\A i \in Stored' : heap'[i].id # k) /\ last[k] = NULL)
        BY <2>1, <2>2 DEF LastKnown
      <3>1. CASE pair.id = k
        <4>1. last[k] = pair.obj
          BY <1>3, <2>2, <3>1 DEF LastKnown
        <4> QED
          BY <2>1, <2>5, <2>6, <3>1, <4>1 DEF LastHeld
      <3>2. CASE pair.id # k
        <4>1. LastHeld(k) \/ ((\A i \in Stored : heap[i].id # k) /\ last[k] = NULL)
          BY <1>3, <3>2 DEF LastKnown
        <4> QED
          BY <2>1, <2>5, <2>6, <3>2, <4>1 DEF LastHeld
      <3> QED
        BY <3>1, <3>2
    <2> QED
      BY <2>1, <2>2, <2>7, <2>8 DEF AtEnd, Narrowed
  <1> QED
    BY <1>4, <1>5, <1>6, <1>7, <1>8, <1>9, <1>10

\* A finished search of a sorted array.
LEMMA SearchFindsLast ==
  ASSUME Inv, Sorted, LastKnown, Narrowed, pc = "search", ~(min < max)
  PROVE  Result = last[key]
  <1>1. /\ heap_length \in Nat /\ key \in Ids /\ key \in Nat /\ ~Inserting
        /\ \A i \in Stored : heap[i].id \in Nat
    BY Shape DEF Inv, TypeOK, Inserting, Stored
  <1>2. CASE heap_length = 0
    <2>1. Stored = {}
      BY <1>2 DEF Stored
    <2> QED
      BY <1>1, <1>2, <2>1 DEF LastKnown, LastHeld, Result, Found
  <1>3. CASE heap_length # 0
    <2>1. min = max /\ min \in Stored
      BY <1>1, <1>3 DEF Inv, TypeOK, SearchInBounds, Stored
    <2>2. /\ \A i \in Stored : i < min => heap[i].id < key
          /\ min = heap_length - 1 \/ key <= heap[min].id
      BY <1>1, <1>3, <2>1 DEF Narrowed
    <2>3. CASE heap[min].id = key
      <3>1. Result = heap[min].obj
        BY <1>1, <1>3, <2>1, <2>3 DEF Result, Found
      <3>2. LastHeld(key)
        BY <1>1, <2>1, <2>3 DEF LastKnown
      <3>3. PICK i \in Stored : heap[i].id = key /\ heap[i].obj = last[key]
        BY <3>2 DEF LastHeld
      <3>4. ~(i < min) /\ ~(min < i)
        BY <1>1, <2>1, <2>3, <3>3 DEF Sorted
      <3>5. i = min
        BY <2>1, <3>4 DEF Stored
      <3> QED
        BY <3>1, <3>3, <3>5
    <2>4. CASE heap[min].id # key
      <3>1. Result = NULL
        BY <2>4 DEF Result, Found
      <3>2. ASSUME NEW i \in Stored, heap[i].id = key PROVE FALSE
        <4>1. ~(i < min) /\ i # min
          BY <1>1, <2>2, <2>4, <3>2
        <4>2. min <= i /\ min # heap_length - 1
          BY <1>1, <2>1, <4>1 DEF Stored
        <4>3. key <= heap[min].id /\ heap[min].id < heap[i].id
          BY <1>1, <2>1, <2>2, <4>1, <4>2 DEF Sorted, Stored
        <4> QED
          BY <1>1, <2>1, <2>4, <3>2, <4>3
      <3> QED
        BY <1>1, <3>1, <3>2 DEF LastKnown, LastHeld
    <2> QED
      BY <2>3, <2>4
  <1> QED
    BY <1>2, <1>3

\* For any number of pairs: when ids were stored in ascending order and each one once,
\* a lookup answers what was stored under the id, and NULL only when nothing was.
THEOREM AscendingLookups == Spec => AscendingFindsKey
  <1>1. Init => Ascending
    <2> SUFFICES ASSUME Init PROVE Ascending
      OBVIOUS
    <2>1. pc = "idle" /\ heap_length = 0 /\ last = [i \in Ids |-> NULL]
      BY DEF Init
    <2>2. Stored = {} /\ ~Inserting
      BY <2>1 DEF Stored, Inserting
    <2> QED
      BY <2>1, <2>2 DEF Ascending, Sorted, AtEnd, LastKnown, Narrowed
  <1>2. ASSUME Inv, Ascending, [Next]_vars PROVE Ascending'
    <2>1. CASE UNCHANGED vars
      <3>1. Stored' = Stored /\ Inserting' = Inserting /\ UNCHANGED <<heap, pair, last>>
        BY <2>1 DEF vars, Stored, Inserting
      <3>2. Sorted /\ LastKnown => Sorted' /\ LastKnown'
        BY <3>1, PairsKept
      <3>3. AtEnd /\ Narrowed => AtEnd' /\ Narrowed'
        BY <2>1, <3>1 DEF vars, AtEnd, Narrowed
      <3> QED
        BY <1>2, <2>1, <3>2, <3>3 DEF Ascending, vars
    <2> QED
      BY <1>2, <2>1, AscendingStep
  <1>3. ASSUME Inv, Ascending, Next, pc = "search", pc' # "search", ascending
        PROVE  ret' = last[key]
    <2>1. GetReturn \/ DeleteReturn
      BY <1>3 DEF Next, Set, Get, Delete, StartSearch, Step, GrowHeap, Grown, SiftUp, Place, Narrow
    <2>2. ret' = Result /\ ~(min < max)
      BY <2>1 DEF GetReturn, DeleteReturn
    <2> QED
      BY <1>3, <2>2, SearchFindsLast DEF Ascending
  <1>4. Inv /\ Ascending /\ [Next]_vars =>
          [(pc = "search" /\ pc' # "search" /\ ascending) => ret' = last[key]]_vars
    BY <1>3
  <1> QED
    BY <1>1, <1>2, <1>4, InitInv, NextInv, PTL DEF Spec, AscendingFindsKey

--------------------------------------------------------------------------------
(* The heap implements StructStore: each iteration of a loop is a step of the store or *)
(* invisible to it.                                                                    *)

\* Between operations there is no request, and a search serves a get or a delete.
Serving ==
  /\ pc = "idle" => op = "none" /\ key = 0
  /\ pc = "search" => op \in {"get", "delete"}

LEMMA ServingStep ==
  ASSUME Serving, [Next]_vars
  PROVE  Serving'
  <1>1. CASE UNCHANGED vars
    BY <1>1 DEF Serving, vars
  <1>2. CASE \E id \in Ids, obj \in Objs : Set(id, obj)
    BY <1>2 DEF Serving, Set, EnterSet
  <1>3. CASE \E id \in Ids : Get(id) \/ Delete(id)
    BY <1>3 DEF Serving, Get, Delete, StartSearch
  <1>4. CASE Step
    BY <1>4 DEF Serving, Step, GrowHeap, Grown, SiftUp, Place, Narrow, GetReturn, DeleteReturn,
                Return, EnterSet
  <1> QED
    BY <1>1, <1>2, <1>3, <1>4 DEF Next

--------------------------------------------------------------------------------
\* The same pairs in place are the same objects under every id.
LEMMA SameObjects ==
  ASSUME \A i \in InPlace : \E j \in InPlace' : heap'[j] = heap[i],
         \A j \in InPlace' : \E i \in InPlace : heap[i] = heap'[j]
  PROVE  Objects' = Objects
  <1> DEFINE Under(id) == {heap[i].obj : i \in {j \in InPlace : heap[j].id = id}}
             UnderNext(id) == {heap'[i].obj : i \in {j \in InPlace' : heap'[j].id = id}}
  <1>1. ASSUME NEW id \in Ids PROVE UnderNext(id) = Under(id)
    <2>1. ASSUME NEW o \in UnderNext(id) PROVE o \in Under(id)
      <3>1. PICK j \in InPlace' : heap'[j].id = id /\ o = heap'[j].obj
        BY <2>1
      <3>2. PICK i \in InPlace : heap[i] = heap'[j]
        BY <3>1
      <3> QED
        BY <3>1, <3>2
    <2>2. ASSUME NEW o \in Under(id) PROVE o \in UnderNext(id)
      <3>1. PICK i \in InPlace : heap[i].id = id /\ o = heap[i].obj
        BY <2>2
      <3>2. PICK j \in InPlace' : heap'[j] = heap[i]
        BY <3>1
      <3> QED
        BY <3>1, <3>2
    <2> QED
      BY <2>1, <2>2
  <1>2. Objects' = [id \in Ids |-> UnderNext(id)] /\ Objects = [id \in Ids |-> Under(id)]
    BY DEF Objects
  <1> HIDE DEF Under, UnderNext
  <1> QED
    BY <1>1, <1>2

LEMMA SamePlaces ==
  ASSUME InPlace' = InPlace, \A i \in InPlace : heap'[i] = heap[i]
  PROVE  Objects' = Objects
  BY SameObjects

\* An object is in the store when a pair in place has it.
LEMMA ObjectsFacts ==
  ASSUME NEW id \in Ids
  PROVE  Objects[id] = {heap[i].obj : i \in {j \in InPlace : heap[j].id = id}}
  BY DEF Objects

--------------------------------------------------------------------------------
\* Entering an operation is the store's Request.
LEMMA RequestStep ==
  ASSUME Inv, Serving, NEW id \in Ids,
         (\E obj \in Objs : Set(id, obj)) \/ Get(id) \/ Delete(id)
  PROVE  Store!Request
  <1>1. pc = "idle" /\ Request = Store!NoReq
    BY DEF Set, Get, Delete, StartSearch, Serving, Request, Store!NoReq
  <1>2. ret' = NULL /\ UNCHANGED <<heap, heap_length>> /\ pc' \in {"grow", "search"}
    BY DEF Set, EnterSet, Get, Delete, StartSearch
  <1>3. InPlace' = InPlace
    BY <1>1, <1>2 DEF InPlace, Stored
  <1>4. Objects' = Objects
    BY <1>2, <1>3, SamePlaces
  <1>5. CASE \E obj \in Objs : Set(id, obj)
    <2>1. PICK obj \in Objs : Set(id, obj)
      BY <1>5
    <2>2. pc' = "grow" /\ pair' = [id |-> id, obj |-> obj, n |-> heap_length + 1]
      BY <2>1 DEF Set, EnterSet
    <2>3. Request' = Store!SetReq(id, obj)
      BY <2>2 DEF Request, Store!SetReq
    <2> QED
      BY <1>1, <1>2, <1>4, <2>3 DEF Store!Request
  <1>6. CASE Get(id) \/ Delete(id)
    <2>1. PICK o \in {"get", "delete"} : StartSearch(o, id)
      BY <1>6 DEF Get, Delete
    <2>2. Request' = [op |-> o, id |-> id, obj |-> NULL]
      BY <2>1 DEF StartSearch, Request
    <2> QED
      BY <1>1, <1>2, <1>4, <2>2 DEF Store!Request
  <1> QED
    BY <1>5, <1>6

\* The end of a search is the store's Answer.
LEMMA AnswerStep ==
  ASSUME Inv, Serving, GetReturn \/ DeleteReturn
  PROVE  Store!Answer
  <1>1. pc = "search" /\ ret' = Result /\ UNCHANGED <<heap, heap_length>> /\ key \in Ids
    BY DEF GetReturn, DeleteReturn, Inv, TypeOK
  <1>2. pc' \in {"idle", "grow"}
    BY DEF GetReturn, DeleteReturn, Return, EnterSet
  <1>3. Request = [op |-> op, id |-> key, obj |-> NULL]
    BY <1>1 DEF Request
  <1>4. InPlace = Stored /\ InPlace' = Stored
    BY <1>1, <1>2 DEF InPlace, Stored
  <1>5. Objects' = Objects
    BY <1>1, <1>4, SamePlaces
  <1>6. ret' \in Objects[key] \cup {NULL}
    <2>1. Found => min \in {j \in InPlace : heap[j].id = key}
      BY <1>1, <1>4, ResultFacts DEF Found
    <2> QED
      BY <1>1, <2>1, ObjectsFacts DEF Result
  <1>7. CASE GetReturn
    <2>1. op = "get" /\ Request' = Store!NoReq
      BY <1>7 DEF GetReturn, Return, Request, Store!NoReq
    <2> QED
      BY <1>3, <1>5, <1>6, <2>1 DEF Store!Answer
  <1>8. CASE DeleteReturn
    <2>1. op = "delete" /\ pc' = "grow"
          /\ pair' = [id |-> key, obj |-> ConstNull, n |-> heap_length + 1]
      BY <1>8 DEF DeleteReturn, EnterSet
    <2>2. Request' = Store!SetReq(key, ConstNull)
      BY <2>1 DEF Request, Store!SetReq
    <2> QED
      BY <1>3, <1>5, <1>6, <2>1, <2>2 DEF Store!Answer
  <1> QED
    BY <1>7, <1>8

\* Writing the pair into the hole is the store's Put.
LEMMA PutStep ==
  ASSUME Inv, Place
  PROVE  Store!Put
  <1>1. /\ pc = "sift" /\ pair \in Pair /\ heap_length \in Nat /\ idx \in 0 .. heap_length
        /\ idx \in DOMAIN heap
    BY Shape DEF Place, Inv, TypeOK
  <1>2. /\ heap' = [heap EXCEPT ![idx] = pair] /\ heap_length' = heap_length + 1
        /\ pc' = "idle" /\ op' = "none" /\ key' = 0 /\ ret' = ret
    BY DEF Place, Return
  <1>3. Request = [op |-> "set", id |-> pair.id, obj |-> pair.obj] /\ Request' = Store!NoReq
    BY <1>1, <1>2 DEF Request, Store!NoReq
  <1>4. InPlace = (0 .. heap_length) \ {idx} /\ InPlace' = 0 .. heap_length
    BY <1>1, <1>2 DEF InPlace, Stored
  <1>5. heap'[idx] = pair /\ \A i \in InPlace : heap'[i] = heap[i]
    <2>1. InPlace \subseteq DOMAIN heap \ {idx}
      BY <1>1, <1>4 DEF Inv, TypeOK
    <2> QED
      BY <1>1, <1>2, <2>1
  <1>6. pair.id \in Ids
    BY <1>1 DEF Pair
  <1> DEFINE Under(id) == {heap[i].obj : i \in {j \in InPlace : heap[j].id = id}}
             UnderNext(id) == {heap'[i].obj : i \in {j \in InPlace' : heap'[j].id = id}}
  <1>7. ASSUME NEW id \in Ids
        PROVE  UnderNext(id) = IF id = pair.id THEN Under(id) \cup {pair.obj} ELSE Under(id)
    <2>1. InPlace' = InPlace \cup {idx} /\ idx \notin InPlace
      BY <1>1, <1>4
    <2>2. CASE id = pair.id
      <3>1. {j \in InPlace' : heap'[j].id = id} = {j \in InPlace : heap[j].id = id} \cup {idx}
        BY <1>5, <2>1, <2>2
      <3> QED
        BY <1>5, <2>1, <2>2, <3>1
    <2>3. CASE id # pair.id
      <3>1. {j \in InPlace' : heap'[j].id = id} = {j \in InPlace : heap[j].id = id}
        BY <1>5, <2>1, <2>3
      <3> QED
        BY <1>5, <2>1, <2>3, <3>1
    <2> QED
      BY <2>2, <2>3
  <1>8. Objects' = [id \in Ids |-> UnderNext(id)] /\ Objects = [id \in Ids |-> Under(id)]
    BY DEF Objects
  <1> HIDE DEF Under, UnderNext
  <1>9. Objects' = [Objects EXCEPT ![pair.id] = @ \cup {pair.obj}]
    BY <1>6, <1>7, <1>8
  <1> QED
    BY <1>2, <1>3, <1>9 DEF Store!Put

\* The other iterations are invisible to the store.
LEMMA InvisibleStep ==
  ASSUME Inv, GrowHeap \/ Grown \/ SiftUp \/ Narrow
  PROVE  UNCHANGED Store!vars
  <1>0. heap_length \in Nat /\ heap_size \in Nat \ {0} /\ heap_length <= heap_size
    BY Shape
  <1>1. CASE GrowHeap
    <2> DEFINE m == heap_size * GrowthRate
    <2>1. m \in Nat \ {0} /\ heap_size < m
      BY <1>0, ObjStructAssumption, GrowthFacts DEF ObjStructAssumption
    <2>2. /\ heap' = [i \in 0 .. m - 1 |-> IF i < heap_size THEN heap[i] ELSE NoPair]
          /\ pc = "grow" /\ UNCHANGED <<heap_length, pc, op, pair, key, idx, ret>>
      BY <1>1 DEF GrowHeap
    <2>3. InPlace = 0 .. heap_length - 1 /\ InPlace' = InPlace
      BY <2>2 DEF InPlace, Stored
    <2> HIDE DEF m
    <2>4. \A i \in InPlace : heap'[i] = heap[i]
      <3>1. \A i \in 0 .. heap_length - 1 : i \in 0 .. m - 1 /\ i < heap_size
        BY <1>0, <2>1
      <3> QED
        BY <2>2, <2>3, <3>1
    <2>5. Objects' = Objects
      BY <2>3, <2>4, SamePlaces
    <2> QED
      BY <2>2, <2>5 DEF Store!vars, Request
  <1>2. CASE Grown
    <2>1. pc = "grow" /\ pc' = "sift" /\ UNCHANGED <<heap, heap_length, op, pair, key, idx, ret>>
      BY <1>2 DEF Grown
    <2>2. InPlace' = InPlace
      BY <1>0, <2>1 DEF InPlace, Stored, Inv, TypeOK
    <2>3. Objects' = Objects
      BY <2>1, <2>2, SamePlaces
    <2> QED
      BY <2>1, <2>3 DEF Store!vars, Request
  <1>3. CASE SiftUp
    <2> DEFINE p == idx \div 2
    <2>1. /\ pc = "sift" /\ heap' = [heap EXCEPT ![idx] = heap[p]] /\ idx' = p
          /\ UNCHANGED <<heap_length, pc, op, pair, key, ret>>
      BY <1>3 DEF SiftUp
    <2>2. /\ idx \in 1 .. heap_length /\ p \in 0 .. heap_length /\ p # idx
          /\ heap_length < heap_size
      BY <1>0, <1>3, HalfFacts, Shape DEF SiftUp, MustSift, Inv, TypeOK
    <2> HIDE DEF p
    <2>3. InPlace = (0 .. heap_length) \ {idx} /\ InPlace' = (0 .. heap_length) \ {p}
      BY <2>1 DEF InPlace
    <2>4. heap'[idx] = heap[p] /\ \A i \in (0 .. heap_length) \ {idx} : heap'[i] = heap[i]
      <3>1. \A i \in 0 .. heap_length : i \in 0 .. heap_size - 1
        BY <1>0, <2>2
      <3>2. heap \in [0 .. heap_size - 1 -> Pair \cup {NoPair}]
        BY Shape
      <3> QED
        BY <2>1, <2>2, <3>1, <3>2
    <2>5. \A i \in InPlace : \E j \in InPlace' : heap'[j] = heap[i]
      <3> SUFFICES ASSUME NEW i \in InPlace PROVE \E j \in InPlace' : heap'[j] = heap[i]
        OBVIOUS
      <3>1. CASE i = p
        BY <2>2, <2>3, <2>4, <3>1
      <3>2. CASE i # p
        BY <2>3, <2>4, <3>2
      <3> QED
        BY <3>1, <3>2
    <2>6. \A j \in InPlace' : \E i \in InPlace : heap[i] = heap'[j]
      <3> SUFFICES ASSUME NEW j \in InPlace' PROVE \E i \in InPlace : heap[i] = heap'[j]
        OBVIOUS
      <3>1. CASE j = idx
        BY <2>2, <2>3, <2>4, <3>1
      <3>2. CASE j # idx
        BY <2>3, <2>4, <3>2
      <3> QED
        BY <3>1, <3>2
    <2>7. Objects' = Objects
      BY <2>5, <2>6, SameObjects
    <2> QED
      BY <2>1, <2>7 DEF Store!vars, Request
  <1>4. CASE Narrow
    <2>1. UNCHANGED <<heap, heap_length, pc, op, pair, key, idx, ret>>
      BY <1>4 DEF Narrow
    <2>2. Objects' = Objects
      BY <2>1 DEF Objects, InPlace, Stored
    <2> QED
      BY <2>1, <2>2 DEF Store!vars, Request
  <1> QED
    BY <1>1, <1>2, <1>3, <1>4

--------------------------------------------------------------------------------
\* The detailed heap is an implementation of the store: hvm_obj_struct_set takes effect
\* when it writes the pair, with nothing lost while pairs sift and the array grows, and
\* hvm_obj_struct_get and hvm_obj_struct_delete answer what the store allows.
THEOREM HeapImplementsStore == Spec => ImplementsStore
  <1>1. Init => Serving /\ Store!Init
    <2> SUFFICES ASSUME Init PROVE Serving /\ Store!Init
      OBVIOUS
    <2>1. pc = "idle" /\ op = "none" /\ key = 0 /\ heap_length = 0 /\ ret = NULL
      BY DEF Init
    <2>2. InPlace = {}
      BY <2>1 DEF InPlace, Stored
    <2>3. Objects = [id \in Ids |-> {}]
      BY <2>2 DEF Objects
    <2> QED
      BY <2>1, <2>3 DEF Serving, Store!Init, Request, Store!NoReq
  <1>2. ASSUME Inv, Serving, [Next]_vars
        PROVE  [Store!Next]_(Store!vars)
    <2>1. CASE UNCHANGED vars
      BY <2>1 DEF vars, Store!vars, Objects, Request, InPlace, Stored
    <2>2. CASE \/ \E id \in Ids, obj \in Objs : Set(id, obj)
               \/ \E id \in Ids : Get(id) \/ Delete(id)
      BY <1>2, <2>2, RequestStep DEF Store!Next
    <2>3. CASE GetReturn \/ DeleteReturn
      BY <1>2, <2>3, AnswerStep DEF Store!Next
    <2>4. CASE Place
      BY <1>2, <2>4, PutStep DEF Store!Next
    <2>5. CASE GrowHeap \/ Grown \/ SiftUp \/ Narrow
      BY <1>2, <2>5, InvisibleStep
    <2> QED
      BY <1>2, <2>1, <2>2, <2>3, <2>4, <2>5 DEF Next, Step
  <1>3. Serving /\ [Next]_vars => Serving'
    BY ServingStep
  <1> QED
    BY <1>1, <1>2, <1>3, InitInv, NextInv, PTL DEF Spec, ImplementsStore, Store!Spec
================================================================================
