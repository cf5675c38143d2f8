-------------------------------- MODULE GC1Proofs --------------------------------
(***************************************************************************)
(* Theorems about GC1, for every set of addresses and registers, every     *)
(* stack size, every way the object space grows, whatever the addresses    *)
(* begin with (LowZero) and wherever realloc puts the array (Moves).  What *)
(* holds only as long as no object was cut off from its entry says so.     *)
(***************************************************************************)
EXTENDS GC1, TLAPS

\* The cursor of the sweep and of the compaction stays within the array.
IdInside == id <= length

Typed == TypeOK /\ IdInside

\* The steps of Next by who takes them.
ProgramStep ==
  \/ \E r \in Regs, o \in Objs :
       \/ \E k \in Kinds : New(r, o, k)
       \/ NewUntracked(r, o)
       \/ \E a \in Regs : ArrayClone(r, a, o)
  \/ \E r, q \in Regs : Move(r, q) \/ Store(r, q) \/ Load(r, q) \/ Throw(q, r)
  \/ \E r \in Regs :
       \/ \E x \in {NULL, Const} : SetConst(r, x)
       \/ SetLocal(r) \/ GetLocal(r) \/ SetGlobal(r) \/ GetGlobal(r) \/ SetException(r)
  \/ Call \/ Return \/ ClearException

\* The cases of mark_obj_ref and of the sweep that go on.
PassOver(x) ==
  /\ Sound(x) /\ Skip(x)
  /\ gray' = gray \ {x}
  /\ UNCHANGED <<status, heapVars, spaceVars, rootVars, pc, id, ops>>
MarkOne(x) ==
  /\ Sound(x) /\ ~Skip(x)
  /\ entries' = [entries EXCEPT ![entry[x].id].marked = TRUE]
  /\ gray' = (gray \ {x}) \cup Contents(x)
  /\ UNCHANGED <<status, heapVars, entry, length, size, base, rootVars, pc, id, ops>>
KeepMarked ==
  /\ entries[id].marked /\ id' = id + 1
  /\ UNCHANGED <<status, heapVars, spaceVars, rootVars, pc, gray, ops>>
FreeObj(o) ==
  /\ ~entries[id].marked /\ o \in allocated
  /\ allocated' = allocated \ {o} /\ tracked' = tracked \ {o}
  /\ refs' = [refs EXCEPT ![o] = {}] /\ kind' = [kind EXCEPT ![o] = "int"]
  /\ entry' = [entry EXCEPT ![o] = NoPointer]
  /\ entries' = [entries EXCEPT ![id].obj = NULL]
  /\ id' = id + 1
  /\ UNCHANGED <<status, length, size, base, rootVars, pc, gray, ops>>
Stop == Fail("crashed") \/ Fail("undefined")

LEMMA MarkCases == MarkObjRef =>
  pc = "mark" /\ (Stop \/ \E x \in gray : PassOver(x) \/ MarkOne(x))
  BY DEF MarkObjRef, PassOver, MarkOne, Stop

LEMMA SweepCases == Sweep =>
  pc = "sweep" /\ id < length /\ (Stop \/ KeepMarked \/ FreeObj(entries[id].obj))
  BY DEF Sweep, KeepMarked, FreeObj, Stop

LEMMA NextSplit == Next => ProgramStep \/ Start \/ Collect
  BY DEF Next, ProgramStep

--------------------------------------------------------------------------------
\* The indices of an array.
LEMMA IndexBelow == \A n, i \in Nat : i < n => i \in 0 .. n - 1
  OBVIOUS
LEMMA BelowLength == \A n \in Nat : \A i \in 0 .. n - 1 : i < n
  OBVIOUS

\* Growing makes room for one more entry.
LEMMA GrowthFacts ==
  ASSUME NEW n \in Nat \ {0}
  PROVE  n * GrowthRate \in Nat \ {0} /\ n < n * GrowthRate
  <1>1. GrowthRate \in Nat /\ GrowthRate >= 2
    BY GC1Assumption DEF GC1Assumption
  <1> DEFINE g == GrowthRate - 2
  <1>2. g \in Nat /\ GrowthRate = 2 + g
    BY <1>1
  <1>3. ASSUME NEW h \in Nat PROVE n * (2 + h) = n + n + n * h /\ n * h \in Nat
    BY Z3
  <1> HIDE DEF g
  <1> QED
    BY <1>2, <1>3

\* Adding an object to the space.
LEMMA AddFacts ==
  ASSUME Typed, NEW o \in Objs, AddObjRef(o), pc = "run"
  PROVE  /\ size' \in Nat \ {0} /\ length' \in 0 .. size' /\ base' \in Nat
         /\ length < size' /\ size <= size'
         /\ entry' \in [Objs -> [base : Nat, id : Nat]]
         /\ entries' \in [0 .. size' - 1 -> Entry]
         /\ entry'[o].id = length /\ entry'[o].base = base'
         /\ \A p \in Objs \ {o} : entry'[p] = entry[p]
         /\ entries'[length] = [obj |-> o, marked |-> FALSE]
         /\ \A i \in Used : entries'[i] = entries[i]
  <1>1. size \in Nat \ {0} /\ length \in 0 .. size /\ base \in Nat
    BY DEF Typed, TypeOK
  <1>2. size' \in Nat \ {0} /\ length < size' /\ size <= size'
    BY <1>1, GrowthFacts DEF AddObjRef, MustGrow
  <1>3. base' \in Nat
    BY <1>1 DEF AddObjRef
  <1>4. length' \in 0 .. size'
    BY <1>1, <1>2 DEF AddObjRef
  <1>5. /\ entry' \in [Objs -> [base : Nat, id : Nat]]
        /\ entry'[o].id = length /\ entry'[o].base = base'
        /\ \A p \in Objs \ {o} : entry'[p] = entry[p]
    BY <1>1, <1>3 DEF AddObjRef, Typed, TypeOK
  <1>6. /\ entries' \in [0 .. size' - 1 -> Entry]
        /\ entries'[length] = [obj |-> o, marked |-> FALSE]
        /\ \A i \in Used : entries'[i] = entries[i]
    <2>1. NoEntry \in Entry /\ [obj |-> o, marked |-> FALSE] \in Entry
      BY DEF NoEntry, Entry
    <2>2. \A i \in 0 .. size - 1 : entries[i] \in Entry
      BY DEF Typed, TypeOK
    <2>6. length \in 0 .. size' - 1 /\ \A i \in Used : i \in 0 .. size' - 1
      <3>1. length \in Nat /\ size' \in Nat /\ length < size'
        BY <1>1, <1>2
      <3>2. length \in 0 .. size' - 1
        BY <3>1, IndexBelow
      <3>3. ASSUME NEW i \in Used PROVE i \in 0 .. size' - 1
        <4>1. i \in Nat /\ i < size'
          BY <3>1 DEF Used
        <4> QED
          BY <4>1, <3>1, IndexBelow
      <3> QED
        BY <3>2, <3>3
    <2> DEFINE E(i) == IF i = length THEN [obj |-> o, marked |-> FALSE]
                       ELSE IF i < size THEN entries[i] ELSE NoEntry
    <2>3. entries' = [i \in 0 .. size' - 1 |-> E(i)]
      BY DEF AddObjRef
    <2>4. ASSUME NEW i \in 0 .. size' - 1 PROVE E(i) \in Entry
      <3>1. CASE i = length
        BY <3>1, <2>1
      <3>2. CASE i # length /\ i < size
        <4>1. i \in 0 .. size - 1
          BY <3>2, <1>1, <1>2
        <4> QED
          BY <3>2, <4>1, <2>2
      <3>3. CASE i # length /\ ~(i < size)
        BY <3>3, <2>1
      <3> QED
        BY <3>1, <3>2, <3>3
    <2>5. E(length) = [obj |-> o, marked |-> FALSE]
      OBVIOUS
    <2>7. ASSUME NEW i \in Used PROVE E(i) = entries[i]
      <3>1. i # length /\ i < size
        BY <1>1 DEF Used
      <3> QED
        BY <3>1
    <2> HIDE DEF E
    <2> QED
      BY <2>3, <2>4, <2>5, <2>6, <2>7
  <1> QED
    BY <1>2, <1>3, <1>4, <1>5, <1>6

\* Types and bounds hold initially ...
LEMMA TypedInit == Init => Typed
  BY GC1Assumption
  DEF GC1Assumption, Init, Typed, TypeOK, IdInside, Entry, NoEntry, NoPointer, Kinds, Ref

\* ... are kept by the program's steps ...
LEMMA TypedProgram ==
  ASSUME Typed, ProgramStep
  PROVE  Typed'
  <1> USE DEF Typed, heapVars, spaceVars, rootVars, gcVars
  <1>0. Program => ops' \in Nat /\ pc = "run"
    BY DEF Program, TypeOK
  <1>1. ASSUME NEW r \in Regs, NEW o \in Objs, NEW k \in Kinds, New(r, o, k) PROVE Typed'
    <2>0. Program /\ AddObjRef(o)
      BY <1>1 DEF New
    <2>1. ops' \in Nat /\ pc = "run"
      BY <1>0, <2>0
    <2>2. /\ size' \in Nat \ {0} /\ length' \in 0 .. size' /\ base' \in Nat
          /\ entry' \in [Objs -> [base : Nat, id : Nat]]
          /\ entries' \in [0 .. size' - 1 -> Entry]
      BY <2>0, <2>1, AddFacts
    <2>3. /\ allocated' \in SUBSET Objs /\ tracked' \in SUBSET allocated'
          /\ kind' \in [Objs -> Kinds] /\ refs' \in [Objs -> SUBSET Ref]
          /\ regs' \in [Regs -> Ref]
      BY <1>1 DEF New, Alloc, AddObjRef, TypeOK, Ref
    <2>4. IdInside'
      BY <1>1, <2>0 DEF New, AddObjRef, TypeOK, IdInside
    <2> QED
      BY <1>1, <2>1, <2>2, <2>3, <2>4 DEF New, TypeOK
  <1>2. ASSUME NEW r \in Regs, NEW o \in Objs, NewUntracked(r, o) PROVE Typed'
    BY <1>0, <1>2 DEF NewUntracked, Alloc, TypeOK, IdInside, Ref, Kinds
  <1>3. ASSUME NEW r \in Regs, NEW o \in Objs, NEW a \in Regs, ArrayClone(r, a, o) PROVE Typed'
    BY <1>0, <1>3 DEF ArrayClone, Alloc, TypeOK, IdInside, Ref, Kinds
  <1>4. ASSUME NEW r \in Regs, NEW q \in Regs, Move(r, q) \/ Throw(q, r) PROVE Typed'
    BY <1>0, <1>4 DEF Move, Throw, Receive, TypeOK, IdInside
  <1>5. ASSUME NEW r \in Regs, NEW q \in Regs, Store(r, q) PROVE Typed'
    BY <1>0, <1>5 DEF Store, TypeOK, IdInside
  <1>6. ASSUME NEW r \in Regs, NEW q \in Regs, Load(r, q) PROVE Typed'
    <2>1. PICK x \in refs[regs[q]] :
            /\ Receive(r, x)
            /\ refs' = refs \/ refs' = [refs EXCEPT ![regs[q]] = @ \ {x}]
      BY <1>6 DEF Load
    <2>2. regs[q] \in Objs /\ x \in Ref
      BY <1>6, <2>1 DEF Load, TypeOK
    <2>3. regs' \in [Regs -> Ref] /\ refs' \in [Objs -> SUBSET Ref]
      BY <2>1, <2>2 DEF Receive, TypeOK
    <2>4. status' \in {"ok", "crashed", "undefined"}
      BY <2>1 DEF Receive
    <2> QED
      BY <1>0, <1>6, <2>3, <2>4 DEF Load, TypeOK, IdInside
  <1>7. ASSUME NEW r \in Regs, NEW x \in {NULL, Const}, SetConst(r, x) PROVE Typed'
    BY <1>0, <1>7 DEF SetConst, Receive, TypeOK, IdInside, Ref
  <1>8. ASSUME NEW r \in Regs, SetLocal(r) PROVE Typed'
    BY <1>0, <1>8 DEF SetLocal, TypeOK, IdInside
  <1>13. ASSUME NEW r \in Regs, GetLocal(r) PROVE Typed'
    BY <1>0, <1>13 DEF GetLocal, Receive, TypeOK, IdInside
  <1>9. ASSUME NEW r \in Regs, SetGlobal(r) \/ GetGlobal(r) \/ SetException(r) PROVE Typed'
    BY <1>0, <1>9 DEF SetGlobal, GetGlobal, SetException, Receive, TypeOK, IdInside, Ref
  <1>10. CASE Call
    <2>1. depth' \in 0 .. StackSize - 1
      BY <1>10, GC1Assumption DEF GC1Assumption, Call, TypeOK
    <2> QED
      BY <1>0, <1>10, <2>1 DEF Call, TypeOK, IdInside
  <1>11. CASE Return
    <2>1. depth' \in 0 .. StackSize - 1
      BY <1>11, GC1Assumption DEF GC1Assumption, Return, TypeOK
    <2> QED
      BY <1>0, <1>11, <2>1 DEF Return, TypeOK, IdInside
  <1>12. CASE ClearException
    BY <1>0, <1>12 DEF ClearException, TypeOK, IdInside
  <1> QED
    BY <1>1, <1>2, <1>3, <1>4, <1>5, <1>6, <1>7, <1>8, <1>9, <1>10, <1>11, <1>12,
       <1>13
    DEF ProgramStep

\* ... and by the collector's.
LEMMA TypedCollector ==
  ASSUME Typed, Start \/ Collect
  PROVE  Typed'
  <1> USE DEF Typed, heapVars, spaceVars, rootVars, gcVars
  <1>t. /\ size \in Nat \ {0} /\ length \in 0 .. size /\ id \in Nat /\ id <= length
        /\ entries \in [0 .. size - 1 -> Entry]
        /\ \A i \in 0 .. size - 1 : entries[i].marked \in BOOLEAN /\ entries[i].obj \in Objs \cup {NULL}
    BY DEF TypeOK, IdInside, Entry
  <1>f. ASSUME NEW how \in {"crashed", "undefined"}, Fail(how) PROVE Typed'
    BY <1>f DEF Fail, TypeOK, IdInside
  <1>1. CASE Start
    <2>1. Unmarked \in [0 .. size - 1 -> Entry]
      BY <1>t DEF Unmarked, Entry
    <2>2. Roots \in SUBSET Ref
      <3>1. \A d \in 0 .. depth : locals[d] \in SUBSET Ref
        BY GC1Assumption DEF GC1Assumption, TypeOK
      <3>2. \A r \in Regs : regs[r] \in Ref
        BY DEF TypeOK
      <3> QED
        BY <3>1, <3>2 DEF Roots, LiveLocals
    <2> QED
      BY <1>1, <2>1, <2>2 DEF Start, TypeOK, IdInside
  <1>2. CASE MarkObjRef
    <2>1. CASE Stop
      BY <2>1, <1>f DEF Stop
    <2>2. ASSUME NEW x \in gray, PassOver(x) PROVE Typed'
      BY <2>2 DEF PassOver, TypeOK, IdInside
    <2>3. ASSUME NEW x \in gray, MarkOne(x) PROVE Typed'
      <3>0. \A i \in 0 .. size - 1 : [entries[i] EXCEPT !.marked = TRUE] \in Entry
        BY <1>t DEF Entry
      <3>1. entries' \in [0 .. size - 1 -> Entry]
        BY <1>t, <2>3, <3>0 DEF MarkOne
      <3>2. x \in Objs
        BY <2>3 DEF MarkOne, Skip, TypeOK
      <3>3. gray' \in SUBSET Ref
        BY <2>3, <3>2 DEF MarkOne, Contents, TypeOK
      <3> QED
        BY <2>3, <3>1, <3>3 DEF MarkOne, TypeOK, IdInside
    <2> QED
      BY <1>2, <2>1, <2>2, <2>3, MarkCases
  <1>3. CASE MarkDone
    BY <1>3, <1>t DEF MarkDone, TypeOK, IdInside
  <1>4. CASE Sweep
    <2>0. id < length /\ id \in 0 .. size - 1
      BY <1>4, <1>t DEF Sweep
    <2>1. CASE Stop
      BY <2>1, <1>f DEF Stop
    <2>2. CASE KeepMarked
      BY <2>0, <2>2, <1>t DEF KeepMarked, TypeOK, IdInside
    <2>3. ASSUME NEW o, o = entries[id].obj, FreeObj(o) PROVE Typed'
      <3>1. entries' \in [0 .. size - 1 -> Entry]
        BY <1>t, <2>0, <2>3 DEF FreeObj, Entry
      <3>2. NoPointer \in [base : Nat, id : Nat]
        BY DEF NoPointer
      <3>3. /\ allocated' \in SUBSET Objs /\ tracked' \in SUBSET allocated'
            /\ refs' \in [Objs -> SUBSET Ref] /\ kind' \in [Objs -> Kinds]
        BY <2>3 DEF FreeObj, TypeOK, Kinds
      <3>4. entry' \in [Objs -> [base : Nat, id : Nat]]
        BY <2>3, <3>2 DEF FreeObj, TypeOK
      <3>5. id' \in Nat /\ id' <= length
        BY <2>0, <2>3, <1>t DEF FreeObj
      <3> QED
        BY <2>3, <3>1, <3>3, <3>4, <3>5 DEF FreeObj, TypeOK, IdInside
    <2> QED
      BY <1>4, <2>1, <2>2, <2>3, SweepCases
  <1>5. CASE SweepDone
    BY <1>5, <1>t DEF SweepDone, TypeOK, IdInside
  <1>6. CASE FindFree
    BY <1>6, <1>t DEF FindFree, TypeOK, IdInside
  <1>7. CASE Relocate
    <2>0. id < length
      BY <1>7 DEF Relocate
    <2>1. PICK used \in UsedAfter : entries' = Moved(used, id) /\ entry' = Repointed(used, id)
      BY <1>7 DEF Relocate
    <2>2. used \in 0 .. size - 1 /\ id \in 0 .. size - 1 /\ entries[used].obj \in Objs
      BY <2>0, <1>t DEF UsedAfter, EntryIsNull, Used
    <2>3. entries' \in [0 .. size - 1 -> Entry]
      BY <1>t, <2>1, <2>2 DEF Moved, Entry
    <2>4. entry' \in [Objs -> [base : Nat, id : Nat]]
      BY <1>t, <2>1, <2>2 DEF Repointed, TypeOK
    <2> QED
      BY <1>7, <1>t, <2>3, <2>4 DEF Relocate, TypeOK, IdInside
  <1>8. CASE Finish
    <2> QED
      BY <1>8, <1>t DEF Finish, TypeOK, IdInside
  <1> QED
    BY <1>1, <1>2, <1>3, <1>4, <1>5, <1>6, <1>7, <1>8 DEF Collect

\* Every reachable state is typed: a collection never takes the length of the space
\* beyond the array, and the growth in hvm_obj_space_add_obj_ref keeps up with it.
THEOREM TypeCorrect == Spec => []TypeOK
  <1>1. Typed /\ [Next]_vars => Typed'
    <2>1. CASE UNCHANGED vars
      BY <2>1 DEF vars, heapVars, spaceVars, rootVars, gcVars, Typed, TypeOK, IdInside
    <2> QED
      BY <2>1, NextSplit, TypedProgram, TypedCollector
  <1>2. Typed => TypeOK
    BY DEF Typed
  <1> QED
    BY <1>1, <1>2, TypedInit, PTL DEF Spec

--------------------------------------------------------------------------------
(* The object space, whatever addresses begin with and wherever realloc puts the array. *)

\* Only structures and arrays have contents.
IntsEmpty == \A o \in Objs : kind[o] = "int" => refs[o] = {}

\* The entry of a tracked object is inside the array ...
EntryInside == \A o \in tracked : entry[o].id < size

\* ... every entry in use that holds an object is that object's ...
Backed == \A i \in Used : entries[i].obj # NULL =>
            entries[i].obj \in tracked /\ entry[entries[i].obj].id = i

\* ... holes are behind the sweep, and ahead of the compaction ...
Filled == \A i \in Used :
            \/ entries[i].obj # NULL
            \/ pc = "sweep" /\ i < id
            \/ pc = "compact" /\ i >= id

\* ... and only an object whose address begins with a zero byte is cut off.
Kept == \A o \in tracked \ LowZero : Listed(o)

Space == IntsEmpty /\ EntryInside /\ Backed /\ Filled /\ Kept

\* As long as no object is cut off every tracked object has an entry of its own ...
Tied == \A o \in tracked : entry[o].id < length /\ entries[entry[o].id].obj = o

\* ... and behind the sweep every object left is marked.
Swept == \A o \in tracked :
           (pc = "compact" \/ (pc = "sweep" /\ entry[o].id < id)) => MarkedObj(o)

Structure == IntsEmpty /\ Tied /\ Backed /\ Filled /\ Swept

\* What the types say of entries and objects, as the steps below use it.
LEMMA SpaceFacts ==
  ASSUME Typed
  PROVE  /\ size \in Nat /\ length \in Nat /\ length <= size /\ id \in Nat /\ id <= length
         /\ Used \subseteq 0 .. size - 1
         /\ \A i \in Nat : i < length => i \in Used
         /\ \A i \in Used : i \in Nat /\ i < length
         /\ \A i \in Used : entries[i].obj \in Objs \cup {NULL} /\ entries[i].marked \in BOOLEAN
         /\ \A o \in tracked : o \in Objs /\ o # NULL /\ o # Const /\ o \in allocated
         /\ \A o \in Objs : entry[o].id \in Nat /\ kind[o] \in Kinds /\ refs[o] \subseteq Ref
         /\ \A o \in Objs : o # NULL /\ o # Const
  <1>1. size \in Nat /\ length \in Nat /\ length <= size /\ id \in Nat /\ id <= length
    BY DEF Typed, TypeOK, IdInside
  <1>2. Used \subseteq 0 .. size - 1
    BY <1>1 DEF Used
  <1>3. (\A i \in Nat : i < length => i \in Used) /\ \A i \in Used : i \in Nat /\ i < length
    BY <1>1 DEF Used
  <1>4. \A i \in Used : entries[i].obj \in Objs \cup {NULL} /\ entries[i].marked \in BOOLEAN
    BY <1>2 DEF Typed, TypeOK, Entry
  <1>5. \A o \in Objs : o # NULL /\ o # Const
    BY GC1Assumption DEF GC1Assumption
  <1>6. \A o \in tracked : o \in Objs /\ o \in allocated
    BY DEF Typed, TypeOK
  <1>7. \A o \in Objs : entry[o].id \in Nat /\ kind[o] \in Kinds /\ refs[o] \subseteq Ref
    BY DEF Typed, TypeOK
  <1> QED
    BY <1>1, <1>2, <1>3, <1>4, <1>5, <1>6, <1>7

LEMMA SpaceInit == Init => Space /\ CutOff = {}
  BY DEF Init, Space, IntsEmpty, EntryInside, Backed, Filled, Kept, CutOff, Used

LEMMA StructureInit == Init => Structure
  BY DEF Init, Structure, IntsEmpty, Tied, Backed, Filled, Swept, Used

\* What is not cut off is tied, by Backed: before and after a step.
LEMMA ListedTied ==
  ASSUME Typed, Backed, NEW o \in tracked, Listed(o)
  PROVE  entry[o].id < length /\ entries[entry[o].id].obj = o
  BY SpaceFacts DEF Listed, Backed

LEMMA TiedThen ==
  ASSUME Typed', Space', CutOff' = {}
  PROVE  Tied'
  <1> SUFFICES ASSUME NEW o \in tracked'
               PROVE  entry'[o].id < length' /\ entries'[entry'[o].id].obj = o
    BY DEF Tied
  <1>1. PICK i : i \in Used' /\ entries'[i].obj = o
    BY DEF CutOff, Listed
  <1>2. o # NULL
    BY GC1Assumption DEF GC1Assumption, Typed, TypeOK
  <1>3. entry'[o].id = i
    BY <1>1, <1>2 DEF Space, Backed
  <1>4. i < length'
    <2>1. length' \in Nat
      BY DEF Typed, TypeOK
    <2>2. i \in 0 .. length' - 1
      BY <1>1 DEF Used
    <2> QED
      BY <2>1, <2>2, BelowLength
  <1> QED
    BY <1>1, <1>3, <1>4

LEMMA StructureThen ==
  ASSUME Typed', Space', CutOff' = {}, Swept'
  PROVE  Structure'
  BY TiedThen DEF Space, Structure

\* Where objects are listed after a step that keeps the entries in use.
LEMMA ListedKept ==
  ASSUME \A i \in Used : i \in Used' /\ entries'[i].obj = entries[i].obj
  PROVE  \A o : Listed(o) => Listed(o)'
  BY DEF Listed

\* Steps that leave the space and the set of tracked objects alone.
LEMMA SpaceKept ==
  ASSUME Space, UNCHANGED <<tracked, spaceVars, gcVars>>, IntsEmpty'
  PROVE  Space'
  BY DEF Space, spaceVars, gcVars, EntryInside, Backed, Filled, Kept, Listed, Used

\* A new object is tied to the entry behind the last one.
LEMMA SpaceNew ==
  ASSUME Typed, Space, NEW r \in Regs, NEW o \in Objs, NEW k \in Kinds, New(r, o, k)
  PROVE  Space'
  <1>0. pc = "run" /\ pc' = "run" /\ AddObjRef(o) /\ o \notin tracked
    BY DEF New, Program, gcVars, Alloc, Typed, TypeOK
  <1>a. tracked' = tracked \cup {o} /\ length' = length + 1
    BY <1>0 DEF AddObjRef
  <1>b. /\ entry'[o].id = length /\ \A p \in Objs \ {o} : entry'[p] = entry[p]
        /\ entries'[length] = [obj |-> o, marked |-> FALSE]
        /\ \A i \in Used : entries'[i] = entries[i]
        /\ size' \in Nat /\ length < size' /\ size <= size'
    BY <1>0, AddFacts
  <1>1. /\ tracked' = tracked \cup {o} /\ length' = length + 1
        /\ entry'[o].id = length /\ \A p \in Objs \ {o} : entry'[p] = entry[p]
        /\ entries'[length].obj = o /\ \A i \in Used : entries'[i] = entries[i]
        /\ size' \in Nat /\ length < size' /\ size <= size'
    BY <1>a, <1>b
  <1>2. /\ length \in Nat /\ size \in Nat /\ \A i \in Nat : i < length => i \in Used
        /\ \A i \in Used : i \in Nat /\ i < length
        /\ \A p \in tracked : p \in Objs /\ entry[p].id \in Nat
        /\ o # NULL
    BY SpaceFacts
  <1>3. ASSUME NEW i \in Used' PROVE i \in Used \/ i = length
    BY <1>1, <1>2 DEF Used
  <1>4. IntsEmpty'
    BY DEF New, Alloc, Typed, TypeOK, Space, IntsEmpty
  <1>5. EntryInside'
    <2>1. ASSUME NEW p \in tracked PROVE entry'[p].id < size'
      BY <1>0, <1>1, <1>2 DEF Space, EntryInside
    <2> QED
      BY <1>1, <2>1 DEF EntryInside
  <1>6. Backed'
    <2> SUFFICES ASSUME NEW i \in Used', entries'[i].obj # NULL
                 PROVE  entries'[i].obj \in tracked' /\ entry'[entries'[i].obj].id = i
      BY DEF Backed
    <2>1. CASE i = length
      BY <2>1, <1>1
    <2>2. CASE i \in Used
      <3>1. entries[i].obj \in tracked /\ entry[entries[i].obj].id = i
        BY <2>2, <1>1 DEF Space, Backed
      <3> QED
        BY <2>2, <3>1, <1>0, <1>1, <1>2
    <2> QED
      BY <2>1, <2>2, <1>3
  <1>7. Filled'
    BY <1>0, <1>1, <1>2, <1>3 DEF Space, Filled
  <1>8. Kept'
    <2>1. length \in Used' /\ \A i \in Used : i \in Used'
      BY <1>1, <1>2 DEF Used
    <2>2. Listed(o)' /\ \A p : Listed(p) => Listed(p)'
      BY <1>1, <2>1 DEF Listed
    <2> QED
      BY <1>1, <2>2 DEF Space, Kept
  <1> QED
    BY <1>4, <1>5, <1>6, <1>7, <1>8 DEF Space

LEMMA SpaceProgram ==
  ASSUME Typed, Space, ProgramStep
  PROVE  Space'
  <1> USE DEF heapVars, spaceVars, rootVars, gcVars
  <1>0. IntsEmpty /\ kind \in [Objs -> Kinds] /\ refs \in [Objs -> SUBSET Ref]
    BY DEF Space, Typed, TypeOK
  <1>1. ASSUME UNCHANGED <<heapVars, spaceVars, gcVars>> PROVE Space'
    BY <1>0, <1>1, SpaceKept DEF IntsEmpty
  <1>2. ASSUME NEW r \in Regs, NEW o \in Objs, NewUntracked(r, o) PROVE Space'
    <2>1. IntsEmpty'
      BY <1>0, <1>2 DEF NewUntracked, Alloc, IntsEmpty
    <2>2. tracked' = tracked
      BY <1>2 DEF NewUntracked, Alloc, Typed, TypeOK
    <2> QED
      BY <1>2, <2>1, <2>2, SpaceKept DEF NewUntracked
  <1>3. ASSUME NEW r \in Regs, NEW o \in Objs, NEW a \in Regs, ArrayClone(r, a, o)
        PROVE  Space'
    <2>1. IntsEmpty'
      BY <1>0, <1>3 DEF ArrayClone, Alloc, IntsEmpty
    <2>2. tracked' = tracked
      BY <1>3 DEF ArrayClone, Alloc, Typed, TypeOK
    <2> QED
      BY <1>3, <2>1, <2>2, SpaceKept DEF ArrayClone
  <1>4. ASSUME NEW r \in Regs, NEW q \in Regs, Store(r, q) PROVE Space'
    <2>1. IntsEmpty'
      BY <1>0, <1>4 DEF Store, IntsEmpty
    <2> QED
      BY <1>4, <2>1, SpaceKept DEF Store
  <1>5. ASSUME NEW r \in Regs, NEW q \in Regs, Load(r, q) PROVE Space'
    <2>1. IntsEmpty'
      BY <1>0, <1>5 DEF Load, IntsEmpty
    <2> QED
      BY <1>5, <2>1, SpaceKept DEF Load
  <1>6. ASSUME NEW r \in Regs, NEW q \in Regs, Move(r, q) \/ Throw(q, r) PROVE Space'
    BY <1>1, <1>6 DEF Move, Throw
  <1>7. ASSUME NEW r \in Regs, NEW x \in {NULL, Const}, SetConst(r, x) PROVE Space'
    BY <1>1, <1>7 DEF SetConst
  <1>8. ASSUME NEW r \in Regs, SetLocal(r) \/ GetLocal(r) \/ SetGlobal(r) \/ GetGlobal(r)
        PROVE  Space'
    BY <1>1, <1>8 DEF SetLocal, GetLocal, SetGlobal, GetGlobal
  <1>9. ASSUME NEW r \in Regs, SetException(r) PROVE Space'
    BY <1>1, <1>9 DEF SetException
  <1>10. CASE Call \/ Return \/ ClearException
    BY <1>1, <1>10 DEF Call, Return, ClearException
  <1> QED
    BY <1>2, <1>3, <1>4, <1>5, <1>6, <1>7, <1>8, <1>9, <1>10, SpaceNew DEF ProgramStep

\* What the collector's steps do to the entries.
LEMMA UnmarkedFacts ==
  ASSUME Typed
  PROVE  \A i \in Used : Unmarked[i].obj = entries[i].obj /\ Unmarked[i].marked = FALSE
  <1> SUFFICES ASSUME NEW i \in Used
               PROVE  Unmarked[i].obj = entries[i].obj /\ Unmarked[i].marked = FALSE
    OBVIOUS
  <1>1. i \in 0 .. size - 1 /\ i < length
    BY SpaceFacts
  <1>2. entries[i] \in Entry
    BY <1>1 DEF Typed, TypeOK
  <1> QED
    BY <1>1, <1>2 DEF Unmarked, Entry

LEMMA MarkOneFacts ==
  ASSUME Typed, EntryInside, NEW x, MarkOne(x)
  PROVE  /\ x \in tracked /\ entry[x].id \in 0 .. size - 1 /\ ~entries[entry[x].id].marked
         /\ DOMAIN entries = 0 .. size - 1 /\ DOMAIN entries' = 0 .. size - 1
         /\ \A i \in 0 .. size - 1 :
              /\ entries'[i].obj = entries[i].obj
              /\ entries'[i].marked = (i = entry[x].id \/ entries[i].marked)
  <1>1. x \in tracked /\ ~entries[entry[x].id].marked
    BY DEF MarkOne, Skip, MarkedObj
  <1>2. entry[x].id \in 0 .. size - 1
    BY <1>1, SpaceFacts DEF EntryInside
  <1>3. entries \in [0 .. size - 1 -> Entry]
    BY DEF Typed, TypeOK
  <1>4. ASSUME NEW i \in 0 .. size - 1
        PROVE  /\ entries'[i].obj = entries[i].obj
               /\ entries'[i].marked = (i = entry[x].id \/ entries[i].marked)
    <2>1. entries[i] \in Entry
      BY <1>3
    <2> QED
      BY <1>3, <2>1 DEF MarkOne, Entry
  <1>5. DOMAIN entries = 0 .. size - 1 /\ DOMAIN entries' = 0 .. size - 1
    BY <1>3 DEF MarkOne
  <1> QED
    BY <1>1, <1>2, <1>4, <1>5

LEMMA FreeFacts ==
  ASSUME Typed, Backed, Filled, pc = "sweep", id < length, NEW o, o = entries[id].obj, FreeObj(o)
  PROVE  /\ id \in Used /\ o \in tracked /\ o \in Objs /\ entry[o].id = id /\ ~MarkedObj(o)
         /\ \A i \in Used : /\ entries'[i].marked = entries[i].marked
                           /\ entries'[i].obj = IF i = id THEN NULL ELSE entries[i].obj
         /\ \A p \in Objs \ {o} :
              entry'[p] = entry[p] /\ refs'[p] = refs[p] /\ kind'[p] = kind[p]
         /\ refs'[o] = {}
         /\ \A p \in tracked \ {o} : Listed(p) => entry[p].id # id
  <1>1. id \in Used
    BY SpaceFacts
  <1>2. o # NULL
    BY <1>1, SpaceFacts DEF Filled
  <1>3. o \in tracked /\ entry[o].id = id
    BY <1>1, <1>2 DEF Backed
  <1>4. o \in Objs /\ ~MarkedObj(o)
    BY <1>3, SpaceFacts DEF FreeObj, MarkedObj
  <1>5. ASSUME NEW i \in Used
        PROVE  /\ entries'[i].marked = entries[i].marked
               /\ entries'[i].obj = IF i = id THEN NULL ELSE entries[i].obj
    <2>1. i \in 0 .. size - 1
      BY SpaceFacts
    <2>2. entries[i] \in Entry /\ entries \in [0 .. size - 1 -> Entry]
      BY <2>1 DEF Typed, TypeOK
    <2> QED
      BY <2>1, <2>2 DEF FreeObj, Entry
  <1>6. /\ \A p \in Objs \ {o} :
             entry'[p] = entry[p] /\ refs'[p] = refs[p] /\ kind'[p] = kind[p]
        /\ refs'[o] = {}
    BY <1>4 DEF FreeObj, Typed, TypeOK
  <1>7. \A p \in tracked \ {o} : Listed(p) => entry[p].id # id
    BY ListedTied
  <1> QED
    BY <1>1, <1>3, <1>4, <1>5, <1>6, <1>7

LEMMA RelocateFacts ==
  ASSUME Typed, Backed, Relocate
  PROVE  \E used \in Used :
           /\ used > id /\ id \in Used /\ entries[id].obj \in LowZero \cup {NULL}
           /\ entries[used].obj \in tracked /\ entry[entries[used].obj].id = used
           /\ entries'[id] = entries[used] /\ entries'[used].obj = NULL
           /\ \A i \in Used \ {id, used} : entries'[i] = entries[i]
           /\ entry'[entries[used].obj].id = id
           /\ \A p \in Objs \ {entries[used].obj} : entry'[p] = entry[p]
  <1>1. PICK used \in UsedAfter : entries' = Moved(used, id) /\ entry' = Repointed(used, id)
    BY DEF Relocate
  <1>2. used \in Used /\ used > id /\ entries[used].obj # NULL
    BY DEF UsedAfter, EntryIsNull
  <1>3. id \in Used /\ entries[id].obj \in LowZero \cup {NULL}
    BY SpaceFacts DEF Relocate, EntryIsNull
  <1>4. entries[used].obj \in tracked /\ entry[entries[used].obj].id = used
    BY <1>2 DEF Backed
  <1>5. /\ entries'[id] = entries[used] /\ entries'[used].obj = NULL
        /\ \A i \in Used \ {id, used} : entries'[i] = entries[i]
    <2>1. id \in 0 .. size - 1 /\ used \in 0 .. size - 1 /\ used # id /\ Used \subseteq 0 .. size - 1
      BY <1>2, <1>3, SpaceFacts
    <2>2. entries \in [0 .. size - 1 -> Entry] /\ entries[used] \in Entry
      BY <2>1 DEF Typed, TypeOK
    <2> QED
      BY <1>1, <2>1, <2>2 DEF Moved, Entry
  <1>6. /\ entry'[entries[used].obj].id = id
        /\ \A p \in Objs \ {entries[used].obj} : entry'[p] = entry[p]
    <2>1. entries[used].obj \in Objs /\ entry \in [Objs -> [base : Nat, id : Nat]]
      BY <1>4, SpaceFacts DEF Typed, TypeOK
    <2> QED
      BY <1>1, <2>1 DEF Repointed
  <1> QED
    BY <1>2, <1>3, <1>4, <1>5, <1>6

LEMMA FinishFacts ==
  ASSUME Typed, Finish
  PROVE  /\ length' = id /\ Used' \subseteq Used
         /\ \A i \in Used' : i < id /\ i \in Used
         /\ \A i \in Used : ~EntryIsNull(i) => i \in Used'
  <1>1. length' = id
    BY DEF Finish
  <1>2. \A i \in Used' : i < id /\ i \in Used
    BY <1>1, SpaceFacts DEF Used
  <1>3. ASSUME NEW i \in Used, ~EntryIsNull(i) PROVE i \in Used'
    <2>1. ~(i > id)
      BY <1>3 DEF Finish, UsedAfter
    <2>2. i # id
      BY <1>3, SpaceFacts DEF Finish
    <2>3. i \in Nat /\ i < id
      BY <2>1, <2>2, SpaceFacts
    <2> QED
      BY <1>1, <2>3, SpaceFacts DEF Used
  <1> QED
    BY <1>1, <1>2, <1>3

\* Steps of the collector that keep what the entries hold.
LEMMA SpaceHeld ==
  ASSUME Typed, Space, UNCHANGED <<heapVars, entry, length, size>>, Filled',
         \A i \in Used : entries'[i].obj = entries[i].obj
  PROVE  Space'
  <1>1. IntsEmpty'
    BY DEF Space, IntsEmpty, heapVars
  <1>2. Used' = Used
    BY DEF Used
  <1>3. EntryInside'
    BY DEF Space, EntryInside, heapVars
  <1>4. Backed'
    BY <1>2 DEF Space, Backed, heapVars
  <1>5. Kept'
    BY <1>2, ListedKept DEF Space, Kept, heapVars
  <1> QED
    BY <1>1, <1>3, <1>4, <1>5 DEF Space

LEMMA SpaceMark ==
  ASSUME Typed, Space, Start \/ MarkObjRef \/ MarkDone
  PROVE  Space'
  <1>0. Used' = Used
    <2>1. length' = length
      BY MarkCases
      DEF Start, MarkDone, Stop, Fail, PassOver, MarkOne, spaceVars
    <2> QED
      BY <2>1 DEF Used
  <1>1. CASE Start
    <2>1. \A i \in Used : entries'[i].obj = entries[i].obj
      BY <1>1, UnmarkedFacts DEF Start
    <2>2. Filled'
      BY <1>0, <1>1, <2>1 DEF Start, Space, Filled
    <2> QED
      BY <1>1, <2>1, <2>2, SpaceHeld DEF Start
  <1>2. CASE MarkObjRef
    <2>1. CASE Stop
      BY <2>1, SpaceKept DEF Stop, Fail, heapVars, spaceVars, gcVars, Space, IntsEmpty
    <2>2. ASSUME NEW x \in gray, PassOver(x) PROVE Space'
      <3>1. Filled'
        BY <1>0, <2>2 DEF PassOver, spaceVars, Space, Filled
      <3> QED
        BY <2>2, <3>1, SpaceHeld DEF PassOver, spaceVars
    <2>3. ASSUME NEW x \in gray, MarkOne(x) PROVE Space'
      <3>1. \A i \in Used : entries'[i].obj = entries[i].obj
        BY <2>3, MarkOneFacts, SpaceFacts DEF Space
      <3>2. Filled'
        BY <1>0, <2>3, <3>1 DEF MarkOne, Space, Filled
      <3> QED
        BY <2>3, <3>1, <3>2, SpaceHeld DEF MarkOne
    <2> QED
      BY <1>2, <2>1, <2>2, <2>3, MarkCases
  <1>3. CASE MarkDone
    <2>1. Filled'
      BY <1>0, <1>3 DEF MarkDone, spaceVars, Space, Filled
    <2> QED
      BY <1>3, <2>1, SpaceHeld DEF MarkDone, spaceVars
  <1> QED
    BY <1>1, <1>2, <1>3

LEMMA SpaceSweep ==
  ASSUME Typed, Space, Sweep
  PROVE  Space'
  <1>0. pc = "sweep" /\ id < length /\ id \in Nat /\ length \in Nat
    BY SweepCases, SpaceFacts
  <1>1. CASE Stop
    BY <1>1, SpaceKept DEF Stop, Fail, heapVars, spaceVars, gcVars, Space, IntsEmpty
  <1>2. CASE KeepMarked
    <2>1. UNCHANGED <<heapVars, spaceVars, pc>> /\ id' = id + 1
      BY <1>2 DEF KeepMarked
    <2>2. Filled'
      BY <1>0, <2>1, SpaceFacts DEF spaceVars, Space, Filled, Used
    <2> QED
      BY <2>1, <2>2, SpaceHeld DEF spaceVars
  <1>3. ASSUME NEW o, o = entries[id].obj, FreeObj(o) PROVE Space'
    <2>0. /\ id' = id + 1 /\ length' = length /\ size' = size /\ pc' = pc
          /\ tracked' = tracked \ {o} /\ kind' = [kind EXCEPT ![o] = "int"]
      BY <1>3 DEF FreeObj
    <2>1. Used' = Used
      BY <2>0 DEF Used
    <2>f. /\ id \in Used /\ o \in tracked /\ o \in Objs /\ entry[o].id = id /\ ~MarkedObj(o)
          /\ \A i \in Used : /\ entries'[i].marked = entries[i].marked
                            /\ entries'[i].obj = IF i = id THEN NULL ELSE entries[i].obj
          /\ \A p \in Objs \ {o} :
               entry'[p] = entry[p] /\ refs'[p] = refs[p] /\ kind'[p] = kind[p]
          /\ refs'[o] = {}
      BY <1>0, <1>3, FreeFacts DEF Space
    <2>2. \A p \in tracked \ {o} : p \in Objs /\ entry'[p] = entry[p]
      BY <2>f, SpaceFacts
    <2>3. IntsEmpty'
      BY <2>f DEF Space, IntsEmpty
    <2>4. EntryInside'
      BY <2>0, <2>2 DEF Space, EntryInside
    <2>5. Backed'
      <3> SUFFICES ASSUME NEW i \in Used, entries'[i].obj # NULL
                   PROVE  entries'[i].obj \in tracked' /\ entry'[entries'[i].obj].id = i
        BY <2>1 DEF Backed
      <3>1. i # id /\ entries'[i].obj = entries[i].obj
        BY <2>f
      <3>2. entries[i].obj \in tracked /\ entry[entries[i].obj].id = i
        BY <3>1 DEF Space, Backed
      <3>3. entries[i].obj # o
        BY <2>f, <3>1, <3>2
      <3> QED
        BY <2>0, <2>2, <3>1, <3>2, <3>3
    <2>6. Filled'
      BY <1>0, <2>0, <2>1, <2>f, SpaceFacts DEF Space, Filled
    <2>7. Kept'
      <3> SUFFICES ASSUME NEW p \in tracked \ {o}, p \notin LowZero
                   PROVE  \E i \in Used : entries'[i].obj = p
        BY <2>0, <2>1 DEF Kept, Listed
      <3>1. PICK i \in Used : entries[i].obj = p
        BY DEF Space, Kept, Listed
      <3>2. i # id
        BY <1>3, <3>1
      <3> QED
        BY <2>f, <3>1, <3>2
    <2> QED
      BY <2>3, <2>4, <2>5, <2>6, <2>7 DEF Space
  <1> QED
    BY <1>1, <1>2, <1>3, SweepCases

LEMMA SpaceCompact ==
  ASSUME Typed, Space, SweepDone \/ FindFree \/ Relocate \/ Finish
  PROVE  Space'
  <1>0. /\ id \in Nat /\ length \in Nat /\ \A i \in Used : i \in Nat /\ i < length
        /\ \A o \in tracked : o \in Objs /\ o # NULL /\ entry[o].id \in Nat
    BY SpaceFacts
  <1>1. CASE SweepDone
    <2>1. UNCHANGED <<heapVars, spaceVars>> /\ pc = "sweep" /\ pc' = "compact" /\ id' = 0
      BY <1>1 DEF SweepDone
    <2>2. Filled'
      BY <1>0, <2>1 DEF Filled, Used, spaceVars
    <2> QED
      BY <2>1, <2>2, SpaceHeld DEF spaceVars
  <1>2. CASE FindFree
    <2>1. /\ UNCHANGED <<heapVars, spaceVars>> /\ pc = "compact" /\ pc' = "compact" /\ id' = id + 1
          /\ entries[id].obj # NULL
      BY <1>2 DEF FindFree, EntryIsNull
    <2>2. Filled'
      BY <1>0, <2>1 DEF Space, Filled, Used, spaceVars
    <2> QED
      BY <2>1, <2>2, SpaceHeld DEF spaceVars
  <1>3. CASE Relocate
    <2>1. UNCHANGED <<heapVars, length, size>> /\ pc = "compact" /\ pc' = "compact" /\ id' = id + 1
      BY <1>3 DEF Relocate
    <2>2. PICK used \in Used :
           /\ used > id /\ id \in Used /\ entries[id].obj \in LowZero \cup {NULL}
           /\ entries[used].obj \in tracked /\ entry[entries[used].obj].id = used
           /\ entries'[id] = entries[used] /\ entries'[used].obj = NULL
           /\ \A i \in Used \ {id, used} : entries'[i] = entries[i]
           /\ entry'[entries[used].obj].id = id
           /\ \A p \in Objs \ {entries[used].obj} : entry'[p] = entry[p]
      BY <1>3, RelocateFacts DEF Space
    <2>4. Used' = Used
      BY <2>1 DEF Used
    <2>5. IntsEmpty'
      BY <2>1 DEF Space, IntsEmpty, heapVars
    <2>6. EntryInside'
      <3> SUFFICES ASSUME NEW p \in tracked PROVE entry'[p].id < size
        BY <2>1 DEF EntryInside, heapVars
      <3>1. CASE p = entries[used].obj
        <4>1. id < size
          BY <2>2, SpaceFacts
        <4> QED
          BY <2>2, <3>1, <4>1
      <3>2. CASE p # entries[used].obj
        BY <1>0, <2>2, <3>2 DEF Space, EntryInside
      <3> QED
        BY <3>1, <3>2
    <2>7. Backed'
      <3> SUFFICES ASSUME NEW i \in Used, entries'[i].obj # NULL
                   PROVE  entries'[i].obj \in tracked /\ entry'[entries'[i].obj].id = i
        BY <2>1, <2>4 DEF Backed, heapVars
      <3>1. CASE i = id
        BY <3>1, <2>2
      <3>2. CASE i # id
        <4>1. i # used /\ entries'[i] = entries[i]
          BY <3>2, <2>2
        <4>2. entries[i].obj \in tracked /\ entry[entries[i].obj].id = i
          BY <4>1 DEF Space, Backed
        <4>3. entries[i].obj # entries[used].obj
          BY <4>1, <4>2, <2>2
        <4> QED
          BY <1>0, <2>2, <4>1, <4>2, <4>3
      <3> QED
        BY <3>1, <3>2
    <2>8. Filled'
      <3> SUFFICES ASSUME NEW i \in Used, i < id + 1
                   PROVE  entries'[i].obj # NULL
        BY <1>0, <2>1, <2>4 DEF Filled
      <3>1. CASE i = id
        BY <3>1, <1>0, <2>2
      <3>2. CASE i # id
        <4>1. i < id /\ entries'[i] = entries[i]
          BY <3>2, <1>0, <2>2
        <4> QED
          BY <4>1, <1>0, <2>1 DEF Space, Filled
      <3> QED
        BY <3>1, <3>2
    <2>9. Kept'
      <3> SUFFICES ASSUME NEW p \in tracked, p \notin LowZero
                   PROVE  \E i \in Used : entries'[i].obj = p
        BY <2>1, <2>4 DEF Kept, Listed, heapVars
      <3>1. PICK i \in Used : entries[i].obj = p
        BY DEF Space, Kept, Listed
      <3>2. i # id
        BY <1>0, <2>2, <3>1
      <3>3. CASE i = used
        BY <2>2, <3>1, <3>3
      <3>4. CASE i # used
        BY <2>2, <3>1, <3>2, <3>4
      <3> QED
        BY <3>3, <3>4
    <2> QED
      BY <2>5, <2>6, <2>7, <2>8, <2>9 DEF Space
  <1>4. CASE Finish
    <2>1. UNCHANGED <<heapVars, entry, entries, size>> /\ pc = "compact" /\ pc' = "run"
      BY <1>4 DEF Finish
    <2>2. /\ Used' \subseteq Used
          /\ \A i \in Used' : i < id
          /\ \A i \in Used : ~EntryIsNull(i) => i \in Used'
      BY <1>4, FinishFacts
    <2>3. IntsEmpty' /\ EntryInside'
      BY <2>1 DEF Space, IntsEmpty, EntryInside, heapVars
    <2>4. Backed'
      BY <2>1, <2>2 DEF Space, Backed, heapVars
    <2>5. Filled'
      BY <1>0, <2>1, <2>2 DEF Space, Filled
    <2>6. Kept'
      <3> SUFFICES ASSUME NEW p \in tracked, p \notin LowZero
                   PROVE  \E i \in Used' : entries[i].obj = p
        BY <2>1 DEF Kept, Listed, heapVars
      <3>1. PICK i \in Used : entries[i].obj = p
        BY DEF Space, Kept, Listed
      <3>2. ~EntryIsNull(i)
        BY <1>0, <3>1 DEF EntryIsNull
      <3> QED
        BY <2>2, <3>1, <3>2
    <2> QED
      BY <2>3, <2>4, <2>5, <2>6 DEF Space
  <1> QED
    BY <1>1, <1>2, <1>3, <1>4

LEMMA SpaceStep ==
  ASSUME Typed, Space, [Next]_vars
  PROVE  Typed' /\ Space'
  <1>1. CASE UNCHANGED vars
    <2>1. Typed'
      BY <1>1 DEF vars, heapVars, spaceVars, rootVars, gcVars, Typed, TypeOK, IdInside
    <2>2. Space'
      BY <1>1, SpaceKept DEF vars, heapVars, spaceVars, gcVars, Space, IntsEmpty
    <2> QED
      BY <2>1, <2>2
  <1>2. CASE Next
    BY <1>2, NextSplit, TypedProgram, TypedCollector, SpaceProgram, SpaceMark, SpaceSweep,
       SpaceCompact
    DEF Collect
  <1> QED
    BY <1>1, <1>2

\* sweep_space frees only what is still allocated: an entry it comes to holds an
\* object, and no two entries hold the same one, however they were moved, overwritten
\* or passed over.
THEOREM FreesAtMostOnce == Spec => []NoDoubleFree
  <1>1. Init => Typed /\ Space
    BY TypedInit, SpaceInit
  <1>2. Typed /\ Space /\ [Next]_vars => Typed' /\ Space'
    BY SpaceStep
  <1>3. Typed /\ Space => NoDoubleFree
    <2> SUFFICES ASSUME Typed, Space, pc = "sweep", id < length, ~entries[id].marked
                 PROVE  entries[id].obj \in allocated
      BY DEF NoDoubleFree
    <2>1. id \in Used /\ ~(id < id)
      BY SpaceFacts
    <2>2. entries[id].obj # NULL
      BY <2>1 DEF Space, Filled
    <2> QED
      BY <2>1, <2>2, SpaceFacts DEF Space, Backed
  <1> QED
    BY <1>1, <1>2, <1>3, PTL DEF Spec

\* While the program runs every tracked object that was not cut off has an entry of
\* its own, which its pointer leads to unless realloc has left the array it is into;
\* and nothing is cut off but objects whose address begins with a zero byte.
THEOREM EntriesStayTied == Spec => []EntriesTied
  <1>1. Init => Typed /\ Space
    BY TypedInit, SpaceInit
  <1>2. Typed /\ Space /\ [Next]_vars => Typed' /\ Space'
    BY SpaceStep
  <1>3. Typed /\ Space => EntriesTied
    <2> SUFFICES ASSUME Typed, Space PROVE EntriesTied
      OBVIOUS
    <2>1. CutOff \subseteq LowZero
      BY DEF Space, Kept, CutOff
    <2>2. ASSUME NEW o \in tracked \ CutOff
          PROVE  entry[o].id < length /\ entries[entry[o].id].obj = o
      BY ListedTied DEF Space, CutOff
    <2> QED
      BY <2>1, <2>2 DEF EntriesTied
  <1> QED
    BY <1>1, <1>2, <1>3, PTL DEF Spec

\* A collection always gets on: every step of mark_obj_ref marks an entry or leaves
\* fewer references to visit, every step of the sweep and of the compaction moves
\* the cursor forward within an array that keeps its length.
THEOREM CollectionGetsOn == Spec => CollectionProgress
  <1>1. Init => Typed /\ Space
    BY TypedInit, SpaceInit
  <1>2. Typed /\ Space /\ [Next]_vars => Typed' /\ Space'
    BY SpaceStep
  <1>3. Typed /\ Space /\ [Next]_vars =>
          [(pc # "run" /\ pc' = pc /\ status' = "ok") =>
             IF pc = "mark"
             THEN Fewer(Pending', Pending) \/ (Pending' = Pending /\ Fewer(gray', gray))
             ELSE id' > id /\ id' <= length' /\ length' = length]_vars
    <2> SUFFICES ASSUME Typed, Space, Next, pc # "run", pc' = pc, status' = "ok"
                 PROVE  IF pc = "mark"
                        THEN Fewer(Pending', Pending) \/ (Pending' = Pending /\ Fewer(gray', gray))
                        ELSE id' > id /\ id' <= length' /\ length' = length
      OBVIOUS
    <2>0. id \in Nat /\ length \in Nat /\ ~Stop
      BY SpaceFacts DEF Stop, Fail
    <2>1. ~ProgramStep /\ ~Start
      BY DEF ProgramStep, Program, New, NewUntracked, ArrayClone, Move, Store, Load, Throw,
             SetConst, SetLocal, GetLocal, SetGlobal, GetGlobal, SetException, Call, Return,
             ClearException, Start
    <2>2. ASSUME NEW x \in gray, PassOver(x), pc = "mark"
          PROVE  Pending' = Pending /\ Fewer(gray', gray)
      BY <2>2 DEF PassOver, Pending, Fewer, spaceVars
    <2>3. ASSUME NEW x \in gray, MarkOne(x), pc = "mark"
          PROVE  Fewer(Pending', Pending)
      <3>1. /\ entry[x].id \in 0 .. size - 1 /\ ~entries[entry[x].id].marked
            /\ DOMAIN entries = 0 .. size - 1 /\ DOMAIN entries' = 0 .. size - 1
            /\ \A i \in 0 .. size - 1 :
                 entries'[i].marked = (i = entry[x].id \/ entries[i].marked)
        BY <2>3, MarkOneFacts DEF Space
      <3>2. Pending' \subseteq Pending /\ entry[x].id \in Pending /\ entry[x].id \notin Pending'
        BY <3>1 DEF Pending
      <3> QED
        BY <3>2 DEF Fewer
    <2>4. CASE MarkObjRef
      BY <2>0, <2>2, <2>3, <2>4, MarkCases
    <2>5. CASE Sweep
      <3>1. pc = "sweep" /\ id < length /\ id' = id + 1 /\ length' = length
        BY <2>0, <2>5, SweepCases DEF KeepMarked, FreeObj, spaceVars
      <3> QED
        BY <2>0, <3>1
    <2>6. CASE FindFree \/ Relocate
      <3>1. pc = "compact" /\ id < length /\ id' = id + 1 /\ length' = length
        BY <2>6 DEF FindFree, Relocate, spaceVars
      <3> QED
        BY <2>0, <3>1
    <2>7. ~MarkDone /\ ~SweepDone /\ ~Finish
      BY DEF MarkDone, SweepDone, Finish
    <2> QED
      BY <2>1, <2>4, <2>5, <2>6, <2>7, NextSplit DEF Collect
  <1> QED
    BY <1>1, <1>2, <1>3, PTL DEF Spec, CollectionProgress

--------------------------------------------------------------------------------
(* As long as nothing is cut off. *)

\* Every object that is cut off stays so: none of the others can have been before.
LEMMA CutOffStays ==
  ASSUME Typed, Space, [Next]_vars, CutOff' = {}
  PROVE  CutOff = {}
  <1> USE DEF heapVars, spaceVars, rootVars, gcVars
  <1> SUFFICES ASSUME NEW o \in tracked, ~Listed(o)
               PROVE  o \in tracked' /\ ~Listed(o)'
    BY DEF CutOff
  <1>t. o \in Objs /\ o \in allocated /\ o # NULL
    BY SpaceFacts
  <1>k. ASSUME tracked' = tracked, \A i \in Used' : i \in Used /\ entries'[i].obj = entries[i].obj
        PROVE  o \in tracked' /\ ~Listed(o)'
    BY <1>k DEF Listed
  <1>s. ASSUME tracked' = tracked, UNCHANGED <<length, entries>>
        PROVE  o \in tracked' /\ ~Listed(o)'
    BY <1>s DEF Listed, Used
  <1>1. CASE UNCHANGED vars
    BY <1>1, <1>s DEF vars
  <1>2. ASSUME NEW r \in Regs, NEW p \in Objs, NEW k \in Kinds, New(r, p, k)
        PROVE  o \in tracked' /\ ~Listed(o)'
    <2>a. AddObjRef(p) /\ Program /\ Alloc(p, k, {})
      BY <1>2 DEF New
    <2>1. AddObjRef(p) /\ pc = "run" /\ p # o
      BY <1>t, <2>a DEF Program, Alloc
    <2>b. /\ entries'[length] = [obj |-> p, marked |-> FALSE]
          /\ \A i \in Used : entries'[i] = entries[i]
      BY <2>1, AddFacts
    <2>2. entries'[length].obj = p /\ \A i \in Used : entries'[i] = entries[i]
      BY <2>b
    <2>3. \A i \in Used' : i \in Used \/ i = length
      BY <2>1, SpaceFacts DEF AddObjRef, Used
    <2> QED
      BY <2>1, <2>2, <2>3 DEF AddObjRef, Listed
  <1>3. ASSUME ProgramStep, \A r \in Regs, p \in Objs, k \in Kinds : ~New(r, p, k)
        PROVE  tracked' = tracked /\ UNCHANGED <<length, entries>>
    <2>1. tracked \subseteq allocated
      BY DEF Typed, TypeOK
    <2> QED
      BY <1>3, <2>1
      DEF ProgramStep, NewUntracked, ArrayClone, Alloc, Move, Store, Load, Throw, SetConst,
          SetLocal, GetLocal, SetGlobal, GetGlobal, SetException, Call, Return, ClearException
  <1>4. CASE Start
    BY <1>4, <1>k, UnmarkedFacts DEF Start, Used
  <1>5. CASE MarkObjRef
    <2>1. CASE Stop
      BY <1>s, <2>1 DEF Stop, Fail
    <2>2. ASSUME NEW x, PassOver(x) PROVE o \in tracked' /\ ~Listed(o)'
      BY <1>s, <2>2 DEF PassOver
    <2>3. ASSUME NEW x, MarkOne(x) PROVE o \in tracked' /\ ~Listed(o)'
      <3>1. \A i \in Used : entries'[i].obj = entries[i].obj
        BY <2>3, MarkOneFacts, SpaceFacts DEF Space
      <3> QED
        BY <1>k, <2>3, <3>1 DEF MarkOne, Used
    <2> QED
      BY <1>5, <2>1, <2>2, <2>3, MarkCases
  <1>6. CASE MarkDone \/ SweepDone \/ FindFree
    BY <1>s, <1>6 DEF MarkDone, SweepDone, FindFree
  <1>7. CASE Sweep
    <2>0. pc = "sweep" /\ id < length
      BY <1>7, SweepCases
    <2>1. CASE Stop \/ KeepMarked
      BY <1>s, <2>1 DEF Stop, Fail, KeepMarked
    <2>2. ASSUME NEW p, p = entries[id].obj, FreeObj(p) PROVE o \in tracked' /\ ~Listed(o)'
      <3>1. /\ id \in Used
            /\ \A i \in Used : entries'[i].obj = IF i = id THEN NULL ELSE entries[i].obj
        BY <2>0, <2>2, FreeFacts DEF Space
      <3>2. o # p
        BY <2>2, <3>1 DEF Listed
      <3>3. Used' = Used /\ tracked' = tracked \ {p}
        BY <2>2 DEF FreeObj, Used
      <3> QED
        BY <1>t, <3>1, <3>2, <3>3 DEF Listed
    <2> QED
      BY <1>7, <2>1, <2>2, SweepCases
  <1>8. CASE Relocate
    <2>1. Used' = Used /\ tracked' = tracked
      BY <1>8 DEF Relocate, Used
    <2>2. PICK used \in Used :
           /\ id \in Used
           /\ entries'[id] = entries[used] /\ entries'[used].obj = NULL
           /\ \A i \in Used \ {id, used} : entries'[i] = entries[i]
      BY <1>8, RelocateFacts DEF Space
    <2> QED
      BY <1>t, <2>1, <2>2 DEF Listed
  <1>9. CASE Finish
    <2>1. tracked' = tracked /\ entries' = entries /\ Used' \subseteq Used
      BY <1>9, FinishFacts DEF Finish
    <2> QED
      BY <1>k, <2>1
  <1> QED
    BY <1>1, <1>2, <1>3, <1>s, <1>4, <1>5, <1>6, <1>7, <1>8, <1>9, NextSplit DEF Collect

\* A compaction that cuts nothing off moves entries into holes only.
LEMMA RelocateClean ==
  ASSUME Typed, Structure, Relocate, CutOff' = {}
  PROVE  \E used \in Used :
           /\ used > id /\ id \in Used /\ entries[id].obj = NULL
           /\ entries[used].obj \in tracked /\ entry[entries[used].obj].id = used
           /\ entries'[id] = entries[used] /\ entries'[used].obj = NULL
           /\ \A i \in Used \ {id, used} : entries'[i] = entries[i]
           /\ entry'[entries[used].obj].id = id
           /\ \A p \in Objs \ {entries[used].obj} : entry'[p] = entry[p]
           /\ \A p \in tracked \ {entries[used].obj} : entry[p].id # used
  <1>1. PICK used \in Used :
           /\ used > id /\ id \in Used /\ entries[id].obj \in LowZero \cup {NULL}
           /\ entries[used].obj \in tracked /\ entry[entries[used].obj].id = used
           /\ entries'[id] = entries[used] /\ entries'[used].obj = NULL
           /\ \A i \in Used \ {id, used} : entries'[i] = entries[i]
           /\ entry'[entries[used].obj].id = id
           /\ \A p \in Objs \ {entries[used].obj} : entry'[p] = entry[p]
    BY RelocateFacts DEF Structure
  <1>2. ASSUME entries[id].obj # NULL PROVE FALSE
    <2> DEFINE q == entries[id].obj
    <2>1. q \in tracked /\ entry[q].id = id
      BY <1>1, <1>2 DEF Structure, Backed
    <2>2. tracked' = tracked /\ Used' = Used
      BY DEF Relocate, heapVars, Used
    <2>3. PICK i \in Used : entries'[i].obj = q
      BY <2>1, <2>2 DEF CutOff, Listed
    <2>4. i # used
      BY <1>1, <1>2, <2>3
    <2>5. i # id
      BY <1>1, <2>1, <2>3, SpaceFacts
    <2>6. entries[i].obj = q
      BY <1>1, <2>3, <2>4, <2>5
    <2> QED
      BY <1>2, <2>1, <2>5, <2>6 DEF Structure, Backed
  <1>3. \A p \in tracked \ {entries[used].obj} : entry[p].id # used
    BY DEF Structure, Tied
  <1> QED
    BY <1>1, <1>2, <1>3

\* Behind the sweep, and through a compaction that cuts nothing off, every object left
\* is marked.
LEMMA SweptStep ==
  ASSUME Typed, Structure, Start \/ Collect, CutOff' = {}
  PROVE  Swept'
  <1> USE DEF heapVars, spaceVars
  <1>0. /\ id \in Nat /\ length \in Nat
        /\ \A o \in tracked : /\ o \in Objs /\ entry[o].id \in Nat /\ entry[o].id \in Used
                              /\ entry[o].id < length
    BY SpaceFacts DEF Structure, Tied
  <1>1. ASSUME pc' \in {"run", "mark"} PROVE Swept'
    BY <1>1 DEF Swept
  <1>2. CASE Start \/ Finish
    BY <1>1, <1>2 DEF Start, Finish
  <1>3. CASE MarkObjRef
    <2>1. pc' = "mark"
      BY <1>3, MarkCases DEF Stop, Fail, gcVars, PassOver, MarkOne
    <2> QED
      BY <1>1, <2>1
  <1>4. CASE MarkDone
    BY <1>0, <1>4 DEF MarkDone, Swept
  <1>5. CASE Sweep
    <2>0. pc = "sweep" /\ id < length
      BY <1>5, SweepCases
    <2>1. CASE Stop
      BY <2>1 DEF Stop, Fail, gcVars, Structure, Swept, MarkedObj
    <2>2. CASE KeepMarked
      BY <1>0, <2>0, <2>2 DEF KeepMarked, Structure, Swept, MarkedObj
    <2>3. ASSUME NEW o, o = entries[id].obj, FreeObj(o) PROVE Swept'
      <3>1. /\ o \in Objs /\ entry[o].id = id
            /\ \A i \in Used : entries'[i].marked = entries[i].marked
            /\ \A p \in Objs \ {o} : entry'[p] = entry[p]
        BY <2>0, <2>3, FreeFacts DEF Structure
      <3>2. tracked' = tracked \ {o} /\ pc' = pc /\ id' = id + 1
        BY <2>3 DEF FreeObj
      <3>3. \A p \in tracked \ {o} : entry[p].id # id
        BY <2>3 DEF Structure, Tied
      <3> SUFFICES ASSUME NEW p \in tracked \ {o}, entry[p].id < id + 1
                   PROVE  entries'[entry[p].id].marked
        BY <1>0, <2>0, <3>1, <3>2 DEF Swept, MarkedObj
      <3>4. entry[p].id < id
        BY <1>0, <3>3
      <3> QED
        BY <1>0, <2>0, <3>1, <3>4 DEF Structure, Swept, MarkedObj
    <2> QED
      BY <1>5, <2>1, <2>2, <2>3, SweepCases
  <1>6. CASE SweepDone
    BY <1>0, <1>6 DEF SweepDone, Structure, Swept, MarkedObj
  <1>7. CASE FindFree
    BY <1>7 DEF FindFree, Structure, Swept, MarkedObj
  <1>8. CASE Relocate
    <2>1. pc = "compact" /\ pc' = "compact" /\ tracked' = tracked
      BY <1>8 DEF Relocate
    <2>2. PICK used \in Used :
           /\ id \in Used /\ entries[id].obj = NULL
           /\ entries[used].obj \in tracked /\ entry[entries[used].obj].id = used
           /\ entries'[id] = entries[used]
           /\ \A i \in Used \ {id, used} : entries'[i] = entries[i]
           /\ entry'[entries[used].obj].id = id
           /\ \A p \in Objs \ {entries[used].obj} : entry'[p] = entry[p]
           /\ \A p \in tracked \ {entries[used].obj} : entry[p].id # used
      BY <1>8, RelocateClean
    <2>3. \A p \in tracked \ {entries[used].obj} :
            /\ entry'[p] = entry[p] /\ entry[p].id \in Used \ {id, used}
            /\ entries'[entry[p].id] = entries[entry[p].id]
      BY <1>0, <2>2, SpaceFacts DEF Structure, Tied
    <2> SUFFICES ASSUME NEW p \in tracked PROVE entries'[entry'[p].id].marked
      BY <2>1 DEF Swept, MarkedObj
    <2>4. entries[entry[p].id].marked
      BY <2>1 DEF Structure, Swept, MarkedObj
    <2>5. CASE p = entries[used].obj
      BY <2>2, <2>4, <2>5
    <2>6. CASE p # entries[used].obj
      BY <2>3, <2>4, <2>6
    <2> QED
      BY <2>5, <2>6
  <1> QED
    BY <1>2, <1>3, <1>4, <1>5, <1>6, <1>7, <1>8 DEF Collect

\* The invariant of the object space as long as nothing is cut off.
SpaceInv == Typed /\ Structure

LEMMA SpaceInvStep ==
  ASSUME Typed, Space, CutOff = {} => Structure, [Next]_vars, CutOff' = {}
  PROVE  SpaceInv /\ SpaceInv'
  <1>1. Typed' /\ Space' /\ CutOff = {}
    BY SpaceStep, CutOffStays
  <1>2. SpaceInv
    BY <1>1 DEF SpaceInv
  <1>3. Swept'
    <2>1. CASE UNCHANGED vars
      BY <1>2, <2>1
      DEF vars, heapVars, spaceVars, gcVars, SpaceInv, Structure, Swept, MarkedObj
    <2>2. CASE ProgramStep
      <3>1. pc' = "run"
        BY <2>2
        DEF ProgramStep, Program, gcVars, New, NewUntracked, ArrayClone, Move, Store, Load, Throw,
            SetConst, SetLocal, GetLocal, SetGlobal, GetGlobal, SetException, Call, Return,
            ClearException
      <3> QED
        BY <3>1 DEF Swept
    <2>3. CASE Start \/ Collect
      BY <1>2, <2>3, SweptStep DEF SpaceInv
    <2> QED
      BY <2>1, <2>2, <2>3, NextSplit
  <1> QED
    BY <1>1, <1>2, <1>3, StructureThen DEF SpaceInv

--------------------------------------------------------------------------------
(* Marking: what the roots reach is marked, and nothing else is. *)

\* Frames above the current one have no locals.
LocalsGone == \A d \in 0 .. StackSize - 1 : d > depth => locals[d] = {}

\* Nothing the collector looks at has been freed; during a sweep that is said of
\* the objects that stay.
Live ==
  status = "ok" =>
    /\ \A r \in Regs : ~Dead(regs[r])
    /\ \A d \in 0 .. depth : \A x \in locals[d] : ~Dead(x)
    /\ \A o \in tracked : (pc = "sweep" => MarkedObj(o)) => \A x \in refs[o] : ~Dead(x)

\* What a root or a marked object refers to is marked, or still to be visited.
Passed(x) == Skip(x) \/ (pc = "mark" /\ x \in gray)
Colours ==
  pc \in {"mark", "sweep"} =>
    /\ \A x \in Roots : Passed(x)
    /\ \A o \in tracked : MarkedObj(o) => \A x \in refs[o] : Passed(x)

\* What is marked, or still to be visited, is in every set that holds the roots and
\* what the marked objects in it refer to.
MarkClosed(S) == \A o \in S \cap tracked : MarkedObj(o) => refs[o] \subseteq S
Reached ==
  pc # "run" =>
    \A S \in SUBSET Ref : (Roots \subseteq S /\ MarkClosed(S)) =>
      /\ pc = "mark" => gray \subseteq S
      /\ \A o \in tracked : MarkedObj(o) => o \in S

Marks == LocalsGone /\ Live /\ Colours /\ Reached
GCInv == SpaceInv /\ Marks

LEMMA RootsFacts ==
  /\ \A r \in Regs : regs[r] # NULL => regs[r] \in Roots
  /\ \A d \in 0 .. depth : \A x \in locals[d] : x \in Roots
  /\ \A x \in Roots : (\E r \in Regs : x = regs[r]) \/ \E d \in 0 .. depth : x \in locals[d]
  BY DEF Roots, LiveLocals

LEMMA RootsSame == UNCHANGED rootVars => Roots' = Roots
  BY DEF rootVars, Roots, LiveLocals

LEMMA MarksInit == Init => Marks
  <1> SUFFICES ASSUME Init PROVE Marks
    OBVIOUS
  <1>1. LocalsGone
    BY DEF Init, LocalsGone
  <1>2. Live
    <2>1. ~Dead(Const)
      BY GC1Assumption DEF GC1Assumption, Dead
    <2>2. \A d \in 0 .. depth : locals[d] = {}
      BY GC1Assumption DEF GC1Assumption, Init
    <2> QED
      BY <2>1, <2>2 DEF Init, Live
  <1>3. Colours /\ Reached
    BY DEF Init, Colours, Reached
  <1> QED
    BY <1>1, <1>2, <1>3 DEF Marks

\* While the program runs only Live and LocalsGone say anything.
LEMMA LiveProgram ==
  ASSUME SpaceInv, LocalsGone, Live, ProgramStep
  PROVE  pc' = "run" /\ LocalsGone' /\ Live'
  <1> USE DEF heapVars, spaceVars, rootVars, gcVars
  <1>0. /\ tracked \subseteq allocated /\ allocated \subseteq Objs
        /\ depth \in 0 .. StackSize - 1 /\ StackSize \in Nat \ {0}
        /\ locals \in [0 .. StackSize - 1 -> SUBSET Ref]
        /\ regs \in [Regs -> Ref] /\ refs \in [Objs -> SUBSET Ref]
        /\ NULL \notin Objs /\ Const \notin Objs
    BY GC1Assumption DEF GC1Assumption, SpaceInv, Typed, TypeOK
  <1>l. Program =>
          /\ pc = "run" /\ \A r \in Regs : ~Dead(regs[r])
          /\ \A d \in 0 .. depth : \A x \in locals[d] : ~Dead(x)
          /\ \A o \in tracked : \A x \in refs[o] : ~Dead(x)
    BY DEF Program, Live
  \* a register receives a reference, and the heap stays or loses a reference
  <1>r. ASSUME NEW r \in Regs, NEW x, Program, Receive(r, x), pc' = pc,
               UNCHANGED <<allocated, tracked, locals, depth>>,
               \A o \in Objs : refs'[o] \subseteq refs[o]
        PROVE  pc' = "run" /\ LocalsGone' /\ Live'
    <2>1. status' = "ok" => ~Dead(x)
      BY <1>r DEF Receive, Dead
    <2>2. \A s \in Regs : regs'[s] = IF s = r THEN x ELSE regs[s]
      BY <1>0, <1>r DEF Receive
    <2>3. LocalsGone'
      BY <1>r DEF LocalsGone
    <2>4. Live'
      BY <1>0, <1>l, <1>r, <2>1, <2>2 DEF Live, Dead
    <2> QED
      BY <1>l, <1>r, <2>3, <2>4
  \* an object is made
  <1>n. ASSUME NEW r \in Regs, NEW o \in Objs, NEW k, NEW c, Program, Alloc(o, k, c),
               regs' = [regs EXCEPT ![r] = o], UNCHANGED <<pc, locals, depth>>,
               tracked' \subseteq tracked \/ (tracked' = tracked \cup {o} /\ c = {})
        PROVE  pc' = "run" /\ LocalsGone' /\ Live'
    <2>1. \A x : Dead(x)' => Dead(x)
      BY <1>n DEF Alloc, Dead
    <2>2. \A s \in Regs : ~Dead(regs[s]) => ~Dead(regs[s])'
      BY <1>0, <1>n, <2>1 DEF Alloc, Dead
    <2>3. \A p \in tracked : p # o /\ refs'[p] = refs[p]
      BY <1>0, <1>n DEF Alloc
    <2>4. c = {} => refs'[o] = {}
      BY <1>0, <1>n DEF Alloc
    <2>5. \A p \in tracked' : \A x \in refs'[p] : ~Dead(x)'
      BY <1>l, <1>n, <2>1, <2>3, <2>4
    <2>6. \A d \in 0 .. depth : \A x \in locals[d] : ~Dead(x)'
      BY <1>l, <1>n, <2>1
    <2>7. Live'
      BY <1>l, <1>n, <2>2, <2>5, <2>6 DEF Live
    <2> QED
      BY <1>l, <1>n, <2>7 DEF LocalsGone
  <1>1. ASSUME NEW r \in Regs, NEW o \in Objs, NEW k \in Kinds, New(r, o, k)
        PROVE  pc' = "run" /\ LocalsGone' /\ Live'
    BY <1>1, <1>n DEF New, AddObjRef
  <1>2. ASSUME NEW r \in Regs, NEW o \in Objs, NewUntracked(r, o)
        PROVE  pc' = "run" /\ LocalsGone' /\ Live'
    BY <1>2, <1>n DEF NewUntracked
  <1>3. ASSUME NEW r \in Regs, NEW o \in Objs, NEW a \in Regs, ArrayClone(r, a, o)
        PROVE  pc' = "run" /\ LocalsGone' /\ Live'
    BY <1>3, <1>n DEF ArrayClone
  <1>4. ASSUME NEW r \in Regs, NEW q \in Regs, Move(r, q) \/ Throw(q, r)
        PROVE  pc' = "run" /\ LocalsGone' /\ Live'
    BY <1>4, <1>r DEF Move, Throw
  <1>5. ASSUME NEW c \in Regs, NEW q \in Regs, Store(c, q)
        PROVE  pc' = "run" /\ LocalsGone' /\ Live'
    <2>1. /\ Program /\ regs[c] \in allocated
          /\ UNCHANGED <<status, allocated, kind, tracked, spaceVars, rootVars, gcVars>>
      BY <1>5 DEF Store
    <2>2. PICK lost : refs' = [refs EXCEPT ![regs[c]] = (@ \ lost) \cup {regs[q]}]
      BY <1>5 DEF Store
    <2>3. \A o \in Objs : \A x \in refs'[o] : x \in refs[o] \/ x = regs[q]
      BY <1>0, <2>1, <2>2
    <2>4. LocalsGone'
      BY <2>1 DEF LocalsGone
    <2>5. Live'
      BY <1>0, <1>l, <2>1, <2>3 DEF Live, Dead
    <2> QED
      BY <1>l, <2>1, <2>4, <2>5
  <1>6. ASSUME NEW r \in Regs, NEW q \in Regs, Load(r, q)
        PROVE  pc' = "run" /\ LocalsGone' /\ Live'
    <2>1. /\ Program /\ pc' = pc /\ regs[q] \in Objs
          /\ UNCHANGED <<allocated, tracked, locals, depth>>
      BY <1>0, <1>6 DEF Load
    <2>2. PICK x : /\ Receive(r, x)
                   /\ refs' = refs \/ refs' = [refs EXCEPT ![regs[q]] = @ \ {x}]
      BY <1>6 DEF Load
    <2>3. \A o \in Objs : refs'[o] \subseteq refs[o]
      BY <1>0, <2>1, <2>2
    <2> QED
      BY <1>r, <2>1, <2>2, <2>3
  <1>7. ASSUME NEW r \in Regs, NEW x \in {NULL, Const}, SetConst(r, x)
        PROVE  pc' = "run" /\ LocalsGone' /\ Live'
    BY <1>7, <1>r DEF SetConst
  <1>8. ASSUME NEW r \in Regs, SetLocal(r)
        PROVE  pc' = "run" /\ LocalsGone' /\ Live'
    <2>1. /\ Program /\ locals' = [locals EXCEPT ![depth] = @ \cup {regs[r]}]
          /\ UNCHANGED <<allocated, tracked, refs, regs, depth, pc>>
      BY <1>8 DEF SetLocal
    <2>2. \A d \in 0 .. StackSize - 1 : \A x \in locals'[d] :
             x \in locals[d] \/ (d = depth /\ x = regs[r])
      BY <1>0, <2>1
    <2>3. \A d \in 0 .. StackSize - 1 : d # depth => locals'[d] = locals[d]
      BY <1>0, <2>1
    <2>4. LocalsGone'
      BY <1>0, <2>1, <2>3 DEF LocalsGone
    <2>5. \A d \in 0 .. depth : d \in 0 .. StackSize - 1
      BY <1>0
    <2>6. Live'
      BY <1>l, <2>1, <2>2, <2>5 DEF Live, Dead
    <2> QED
      BY <1>l, <2>1, <2>4, <2>6
  <1>9. ASSUME NEW r \in Regs, GetLocal(r) \/ GetGlobal(r) \/ SetException(r)
        PROVE  pc' = "run" /\ LocalsGone' /\ Live'
    BY <1>9, <1>r DEF GetLocal, GetGlobal, SetException
  <1>10. ASSUME NEW r \in Regs, SetGlobal(r)
         PROVE  pc' = "run" /\ LocalsGone' /\ Live'
    BY <1>l, <1>10 DEF SetGlobal, LocalsGone, Live, Dead
  <1>11. CASE Call
    <2>1. /\ Program /\ depth' = depth + 1 /\ depth + 1 < StackSize
          /\ UNCHANGED <<allocated, tracked, refs, regs, locals, pc>>
      BY <1>11 DEF Call
    <2>2. \A d \in 0 .. depth' : d \in 0 .. depth \/ (d \in 0 .. StackSize - 1 /\ d > depth)
      BY <1>0, <2>1
    <2>3. \A d \in 0 .. depth' : \A x \in locals[d] : ~Dead(x)
      BY <1>l, <2>1, <2>2 DEF LocalsGone
    <2>4. LocalsGone'
      BY <1>0, <2>1 DEF LocalsGone
    <2>5. Live'
      BY <1>l, <2>1, <2>3 DEF Live, Dead
    <2> QED
      BY <1>l, <2>1, <2>4, <2>5
  <1>12. CASE Return
    <2>1. /\ Program /\ depth > 0 /\ depth' = depth - 1 /\ locals' = [locals EXCEPT ![depth] = {}]
          /\ UNCHANGED <<allocated, tracked, refs, regs, pc>>
      BY <1>12 DEF Return
    <2>2. \A d \in 0 .. depth' : d \in 0 .. depth /\ locals'[d] = locals[d]
      BY <1>0, <2>1
    <2>3. LocalsGone'
      BY <1>0, <2>1 DEF LocalsGone
    <2>4. Live'
      BY <1>l, <2>1, <2>2 DEF Live, Dead
    <2> QED
      BY <1>l, <2>1, <2>3, <2>4
  <1>13. CASE ClearException
    BY <1>l, <1>13 DEF ClearException, LocalsGone, Live, Dead
  <1> QED
    BY <1>1, <1>2, <1>3, <1>4, <1>5, <1>6, <1>7, <1>8, <1>9, <1>10, <1>11, <1>12, <1>13
    DEF ProgramStep

\* Starting: everything is unmarked and the roots are to be visited.
LEMMA MarksStart ==
  ASSUME GCInv, Start
  PROVE  Marks'
  <1>1. /\ pc = "run" /\ pc' = "mark" /\ gray' = Roots /\ entries' = Unmarked
        /\ UNCHANGED <<status, heapVars, entry, rootVars>>
    BY DEF Start
  <1>2. \A o \in tracked : ~MarkedObj(o)'
    BY <1>1, UnmarkedFacts, SpaceFacts DEF GCInv, SpaceInv, Structure, Tied, MarkedObj
  <1>3. Roots' = Roots
    BY <1>1, RootsSame
  <1>4. LocalsGone'
    BY <1>1 DEF GCInv, Marks, LocalsGone, rootVars
  <1>5. Live'
    BY <1>1 DEF GCInv, Marks, Live, Dead, rootVars, heapVars
  <1>6. Colours'
    BY <1>1, <1>2, <1>3 DEF Colours, Passed, heapVars
  <1>7. Reached'
    BY <1>1, <1>2, <1>3 DEF Reached, heapVars
  <1> QED
    BY <1>4, <1>5, <1>6, <1>7 DEF Marks

\* A step of marking.
LEMMA MarksMark ==
  ASSUME GCInv, MarkObjRef
  PROVE  Marks'
  <1>0. pc = "mark" /\ LocalsGone /\ Live /\ Colours /\ Reached
    BY MarkCases DEF GCInv, Marks
  <1>1. CASE Stop
    <2>1. UNCHANGED <<heapVars, spaceVars, rootVars, gcVars>> /\ status' # "ok"
      BY <1>1 DEF Stop, Fail
    <2>2. Roots' = Roots
      BY <2>1, RootsSame
    <2> QED
      BY <1>0, <2>1, <2>2
      DEF Marks, LocalsGone, Live, Colours, Passed, Skip, Reached, MarkClosed, MarkedObj,
          heapVars, spaceVars, rootVars, gcVars
  <1>2. ASSUME NEW x \in gray, PassOver(x) PROVE Marks'
    <2>1. /\ Skip(x) /\ gray' = gray \ {x}
          /\ UNCHANGED <<status, heapVars, spaceVars, rootVars, pc>>
      BY <1>2 DEF PassOver
    <2>2. Roots' = Roots
      BY <2>1, RootsSame
    <2>3. LocalsGone'
      BY <1>0, <2>1 DEF LocalsGone, rootVars
    <2>4. Live'
      BY <1>0, <2>1 DEF Live, Dead, rootVars, heapVars
    <2>5. \A y : Passed(y) => Passed(y)'
      BY <1>0, <2>1 DEF Passed, Skip, MarkedObj, heapVars, spaceVars
    <2>6. Colours'
      BY <1>0, <2>1, <2>2, <2>5 DEF Colours, MarkedObj, heapVars, spaceVars
    <2>7. Reached'
      BY <1>0, <2>1, <2>2 DEF Reached, MarkClosed, MarkedObj, heapVars, spaceVars
    <2> QED
      BY <2>3, <2>4, <2>6, <2>7 DEF Marks
  <1>3. ASSUME NEW x \in gray, MarkOne(x) PROVE Marks'
    <2>1. /\ gray' = (gray \ {x}) \cup Contents(x)
          /\ UNCHANGED <<status, heapVars, entry, length, rootVars, pc>>
      BY <1>3 DEF MarkOne
    <2>2. Roots' = Roots
      BY <2>1, RootsSame
    <2>3. /\ x \in tracked
          /\ \A i \in Used : entries'[i].marked = (i = entry[x].id \/ entries[i].marked)
      <3>1. EntryInside
        <4> SUFFICES ASSUME NEW o \in tracked PROVE entry[o].id < size
          BY DEF EntryInside
        <4>1. entry[o].id < length
          BY DEF GCInv, SpaceInv, Structure, Tied
        <4>2. entry[o].id \in Nat /\ length \in Nat /\ size \in Nat /\ length <= size
          BY SpaceFacts DEF GCInv, SpaceInv
        <4> QED
          BY <4>1, <4>2
      <3> QED
        BY <1>3, <3>1, MarkOneFacts, SpaceFacts DEF GCInv, SpaceInv
    <2>4. \A o \in tracked : entry[o].id \in Used /\ (entry[o].id = entry[x].id => o = x)
      BY <2>3, SpaceFacts DEF GCInv, SpaceInv, Structure, Tied
    <2>5. \A o \in tracked : MarkedObj(o)' <=> (o = x \/ MarkedObj(o))
      BY <2>1, <2>3, <2>4 DEF MarkedObj
    <2>6. Contents(x) = refs[x]
      BY <2>3, SpaceFacts DEF Contents, Kinds, GCInv, SpaceInv, Structure, IntsEmpty
    <2>7. tracked' = tracked /\ refs' = refs /\ allocated' = allocated
      BY <2>1 DEF heapVars
    <2>8. LocalsGone'
      BY <1>0, <2>1 DEF LocalsGone, rootVars
    <2>9. Live'
      BY <1>0, <2>1, <2>7 DEF Live, Dead, rootVars
    <2>10. \A y : Passed(y) => Passed(y)'
      BY <1>0, <2>1, <2>3, <2>5, <2>7 DEF Passed, Skip
    <2>11. \A y \in refs[x] : Passed(y)'
      BY <1>0, <2>1, <2>6 DEF Passed
    <2>12. Colours'
      BY <1>0, <2>1, <2>2, <2>5, <2>7, <2>10, <2>11 DEF Colours
    <2>13. Reached'
      <3> SUFFICES ASSUME NEW S \in SUBSET Ref, Roots \subseteq S, MarkClosed(S)'
                   PROVE  gray' \subseteq S /\ \A o \in tracked : MarkedObj(o)' => o \in S
        BY <2>2, <2>7 DEF Reached
      <3>1. MarkClosed(S)
        BY <2>5, <2>7 DEF MarkClosed
      <3>2. gray \subseteq S /\ \A o \in tracked : MarkedObj(o) => o \in S
        BY <1>0, <3>1 DEF Reached
      <3>3. refs[x] \subseteq S
        BY <2>3, <2>5, <2>7, <3>2 DEF MarkClosed
      <3> QED
        BY <2>1, <2>5, <2>6, <3>2, <3>3
    <2> QED
      BY <2>8, <2>9, <2>12, <2>13 DEF Marks
  <1> QED
    BY <1>1, <1>2, <1>3, MarkCases

\* The end of marking, and the steps that leave objects and marks as they are.
LEMMA MarksDone ==
  ASSUME GCInv, MarkDone
  PROVE  Marks'
  <1>1. /\ pc = "mark" /\ pc' = "sweep" /\ gray = {}
        /\ UNCHANGED <<status, heapVars, spaceVars, rootVars>>
    BY DEF MarkDone
  <1>2. Roots' = Roots
    BY <1>1, RootsSame
  <1> QED
    BY <1>1, <1>2
    DEF GCInv, Marks, LocalsGone, Live, Dead, Colours, Passed, Skip, Reached, MarkClosed,
        MarkedObj, heapVars, spaceVars, rootVars

\* The sweep frees no root and nothing a marked object refers to.
LEMMA MarksSweep ==
  ASSUME GCInv, Sweep
  PROVE  Marks'
  <1>0. pc = "sweep" /\ id < length /\ LocalsGone /\ Live /\ Colours /\ Reached
    BY SweepCases DEF GCInv, Marks
  <1>1. CASE Stop
    <2>1. UNCHANGED <<heapVars, spaceVars, rootVars, gcVars>> /\ status' # "ok"
      BY <1>1 DEF Stop, Fail
    <2>2. Roots' = Roots
      BY <2>1, RootsSame
    <2> QED
      BY <1>0, <2>1, <2>2
      DEF Marks, LocalsGone, Live, Colours, Passed, Skip, Reached, MarkClosed, MarkedObj,
          heapVars, spaceVars, rootVars, gcVars
  <1>2. CASE KeepMarked
    <2>1. UNCHANGED <<status, heapVars, spaceVars, rootVars, pc, gray>>
      BY <1>2 DEF KeepMarked
    <2>2. Roots' = Roots
      BY <2>1, RootsSame
    <2> QED
      BY <1>0, <2>1, <2>2
      DEF Marks, LocalsGone, Live, Dead, Colours, Passed, Skip, Reached, MarkClosed, MarkedObj,
          heapVars, spaceVars, rootVars
  <1>3. ASSUME NEW o, o = entries[id].obj, FreeObj(o) PROVE Marks'
    <2>1. /\ allocated' = allocated \ {o} /\ tracked' = tracked \ {o}
          /\ UNCHANGED <<status, rootVars, pc, gray>>
      BY <1>3 DEF FreeObj
    <2>2. Roots' = Roots
      BY <2>1, RootsSame
    <2>3. /\ o \in tracked /\ o \in Objs /\ ~MarkedObj(o)
          /\ \A i \in Used : entries'[i].marked = entries[i].marked
          /\ \A p \in Objs \ {o} : entry'[p] = entry[p] /\ refs'[p] = refs[p]
      BY <1>0, <1>3, FreeFacts DEF GCInv, SpaceInv, Structure
    <2>4. \A p \in tracked' : p \in tracked /\ p # o /\ refs'[p] = refs[p]
      BY <2>1, <2>3, SpaceFacts DEF GCInv, SpaceInv
    <2>5. \A p \in tracked' : MarkedObj(p)' <=> MarkedObj(p)
      <3>1. \A p \in tracked : p \in Objs /\ entry[p].id \in Used
        BY SpaceFacts DEF GCInv, SpaceInv, Structure, Tied
      <3> QED
        BY <2>3, <2>4, <3>1 DEF MarkedObj
    <2>6. ~Skip(o) /\ o # NULL
      BY <2>3, SpaceFacts DEF Skip, GCInv, SpaceInv
    <2>7. o \notin Roots
      BY <1>0, <2>6 DEF Colours, Passed
    <2>8. \A p \in tracked : MarkedObj(p) => o \notin refs[p]
      BY <1>0, <2>6 DEF Colours, Passed
    <2>9. \A x : Dead(x)' => Dead(x) \/ x = o
      BY <2>1 DEF Dead
    <2>10. LocalsGone'
      BY <1>0, <2>1 DEF LocalsGone, rootVars
    <2>11. Live'
      <3> SUFFICES ASSUME status = "ok"
                   PROVE  /\ \A r \in Regs : ~Dead(regs[r])'
                          /\ \A d \in 0 .. depth : \A x \in locals[d] : ~Dead(x)'
                          /\ \A p \in tracked' : MarkedObj(p)' => \A x \in refs'[p] : ~Dead(x)'
        BY <1>0, <2>1 DEF Live, rootVars
      <3>1. \A r \in Regs : ~Dead(regs[r])'
        <4>1. \A r \in Regs : ~Dead(regs[r]) /\ regs[r] # o
          BY <1>0, <2>6, <2>7, RootsFacts DEF Live
        <4> QED
          BY <2>1, <4>1 DEF Dead, rootVars
      <3>2. \A d \in 0 .. depth : \A x \in locals[d] : ~Dead(x)'
        BY <1>0, <2>7, <2>9, RootsFacts DEF Live
      <3>3. \A p \in tracked' : MarkedObj(p)' => \A x \in refs'[p] : ~Dead(x)'
        BY <1>0, <2>4, <2>5, <2>8, <2>9 DEF Live
      <3> QED
        BY <3>1, <3>2, <3>3
    <2>12. \A y : Passed(y) => Passed(y)'
      BY <1>0, <2>1, <2>4, <2>5 DEF Passed, Skip
    <2>13. Colours'
      BY <1>0, <2>1, <2>2, <2>4, <2>5, <2>12 DEF Colours
    <2>14. Reached'
      <3> SUFFICES ASSUME NEW S \in SUBSET Ref, Roots \subseteq S, MarkClosed(S)'
                   PROVE  \A p \in tracked' : MarkedObj(p)' => p \in S
        BY <1>0, <2>1, <2>2 DEF Reached
      <3>1. MarkClosed(S)
        BY <2>1, <2>3, <2>4, <2>5 DEF MarkClosed
      <3> QED
        BY <1>0, <2>4, <2>5, <3>1 DEF Reached
    <2> QED
      BY <2>10, <2>11, <2>13, <2>14 DEF Marks
  <1> QED
    BY <1>1, <1>2, <1>3, SweepCases

\* Compaction moves entries with their marks and leaves the objects alone.
LEMMA MarksCompact ==
  ASSUME GCInv, Structure', SweepDone \/ FindFree \/ Relocate \/ Finish
  PROVE  Marks'
  <1>1. /\ UNCHANGED <<status, heapVars, rootVars>> /\ pc \in {"sweep", "compact"}
        /\ pc' \in {"compact", "run"}
    BY DEF SweepDone, FindFree, Relocate, Finish
  <1>2. Roots' = Roots
    BY <1>1, RootsSame
  <1>3. \A o \in tracked : MarkedObj(o)
    <2>1. CASE pc = "compact"
      BY <2>1 DEF GCInv, SpaceInv, Structure, Swept
    <2>2. CASE pc = "sweep"
      <3>1. id >= length
        BY <2>2 DEF SweepDone, FindFree, Relocate, Finish
      <3>2. \A o \in tracked : entry[o].id < id
        BY <3>1, SpaceFacts DEF GCInv, SpaceInv, Structure, Tied
      <3> QED
        BY <2>2, <3>2 DEF GCInv, SpaceInv, Structure, Swept
    <2> QED
      BY <1>1, <2>1, <2>2
  <1>4. pc' = "compact" => \A o \in tracked : MarkedObj(o)'
    BY <1>1 DEF Structure, Swept, heapVars
  <1>5. LocalsGone' /\ Live'
    BY <1>1, <1>3 DEF GCInv, Marks, LocalsGone, Live, Dead, heapVars, rootVars
  <1>6. Colours'
    BY <1>1 DEF Colours
  <1>7. Reached'
    BY <1>1, <1>2, <1>3, <1>4 DEF GCInv, Marks, Reached, MarkClosed, heapVars
  <1> QED
    BY <1>5, <1>6, <1>7 DEF Marks

LEMMA GCStep ==
  ASSUME GCInv, Space, [Next]_vars, CutOff' = {}
  PROVE  GCInv'
  <1>1. SpaceInv'
    BY SpaceInvStep DEF GCInv, SpaceInv
  <1>2. Marks'
    <2>1. CASE UNCHANGED vars
      <3>1. Roots' = Roots
        BY <2>1, RootsSame DEF vars
      <3> QED
        BY <2>1, <3>1
        DEF GCInv, Marks, LocalsGone, Live, Dead, Colours, Passed, Skip, Reached, MarkClosed,
            MarkedObj, vars, heapVars, spaceVars, rootVars, gcVars
    <2>2. CASE ProgramStep
      <3>1. pc' = "run" /\ LocalsGone' /\ Live'
        BY <2>2, LiveProgram DEF GCInv, Marks
      <3> QED
        BY <3>1 DEF Marks, Colours, Reached
    <2>3. CASE Start \/ Collect
      BY <1>1, <2>3, MarksStart, MarksMark, MarksDone, MarksSweep, MarksCompact
      DEF Collect, SpaceInv
    <2> QED
      BY <2>1, <2>2, <2>3, NextSplit
  <1> QED
    BY <1>1, <1>2 DEF GCInv

\* What holds throughout, and what holds as long as nothing is cut off.
IInv == Typed /\ Space /\ (CutOff = {} => GCInv)

LEMMA IInvInit == Init => IInv
  BY TypedInit, SpaceInit, StructureInit, MarksInit DEF IInv, GCInv, SpaceInv

LEMMA IInvNext ==
  ASSUME IInv, [Next]_vars
  PROVE  IInv'
  <1>1. Typed' /\ Space'
    BY SpaceStep DEF IInv
  <1>2. ASSUME CutOff' = {} PROVE GCInv'
    BY <1>2, CutOffStays, GCStep DEF IInv
  <1> QED
    BY <1>1, <1>2 DEF IInv

\* hvm_gc1_run frees nothing that the program can reach through its registers, its
\* locals or tracked objects, whatever it did before and however often it collected, as
\* long as no collection has cut an object off from its entry.
THEOREM CollectionIsSafe == Spec => []NoDangling
  <1>1. IInv /\ [Next]_vars => IInv'
    BY IInvNext
  <1>2. IInv => NoDangling
    BY DEF IInv, GCInv, Marks, Live, NoDangling, LiveLocals
  <1> QED
    BY <1>1, <1>2, IInvInit, PTL DEF Spec

\* hvm_gc1_run frees everything else: what is still tracked at its end is reachable
\* from the registers and the locals, cyclic garbage being freed too, unless it or an
\* earlier collection cut an object off.
THEOREM CollectionIsComplete == Spec => NoGarbageLeft
  <1>1. IInv /\ [Next]_vars => IInv'
    BY IInvNext
  <1>2. IInv /\ [Next]_vars =>
          [(pc = "compact" /\ pc' = "run") =>
             \/ CutOff' # {}
             \/ \A S \in SUBSET Ref : (Roots \subseteq S /\ Closed(S)) => tracked \subseteq S]_vars
    <2> SUFFICES ASSUME IInv, [Next]_vars, pc = "compact", CutOff' = {},
                        NEW S \in SUBSET Ref, Roots \subseteq S, Closed(S)
                 PROVE  tracked \subseteq S
      OBVIOUS
    <2>0. GCInv
      BY CutOffStays DEF IInv
    <2>1. \A o \in tracked : MarkedObj(o)
      BY <2>0 DEF GCInv, SpaceInv, Structure, Swept
    <2>2. MarkClosed(S)
      BY DEF MarkClosed, Closed
    <2> QED
      BY <2>0, <2>1, <2>2 DEF GCInv, Marks, Reached
  <1> QED
    BY <1>1, <1>2, IInvInit, PTL DEF Spec, NoGarbageLeft

================================================================================
