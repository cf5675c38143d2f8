------------------------------- MODULE ObjStruct -------------------------------
(***************************************************************************)
(* The structure type of object.c: an array of (symbol id, object) pairs   *)
(* that hvm_obj_struct_internal_set keeps as a binary heap (smallest id at *)
(* index 0, the parent of index i is i \div 2) and that                    *)
(* hvm_obj_struct_internal_get reads with a binary search.  Locals,        *)
(* globals, the symbol table, the primitives, exceptions and every         *)
(* user-level structure are such a heap.                                   *)
(*                                                                         *)
(* One operation runs at a time and every iteration of its loops is one    *)
(* step, so that what the loops keep true are invariants of the module.    *)
(* A pair is a fresh allocation: its field n, the order of allocation, is  *)
(* its address and is never read by the code.                              *)
(***************************************************************************)
EXTENDS Naturals

CONSTANTS
  Ids,          \* symbol ids, naturals compared with <
  Objs,         \* object references, hvm_const_null among them
  ConstNull,    \* hvm_const_null, what hvm_obj_struct_delete stores
  NULL,         \* the C null pointer
  InitialSize,  \* HVM_STRUCT_INITIAL_HEAP_SIZE
  GrowthRate,   \* HVM_STRUCT_HEAP_GROWTH_RATE
  MaxLength     \* bound of the model: pairs stored in the structure

ASSUME ObjStructAssumption ==
  /\ Ids \subseteq Nat
  /\ ConstNull \in Objs /\ NULL \notin Objs
  /\ InitialSize \in Nat \ {0} /\ GrowthRate \in Nat \ {0, 1}
  /\ MaxLength \in Nat

VARIABLES
  heap,         \* the pairs; an index outside 0 .. heap_size - 1 is out of bounds
  heap_size,    \* pairs allocated
  heap_length,  \* pairs stored
  pc,           \* loop the running operation is in, "idle" between operations
  op,           \* "set", "get" or "delete": the entry point that was called
  pair,         \* set: the pair being inserted
  key,          \* get: the id searched for
  idx,          \* set: position of the hole
  min, max,     \* get: range left to search
  ret,          \* last result of get or delete
  last,         \* history: the object last stored under each id
  ascending     \* history: ids have been stored in ascending order, each one once

vars == <<heap, heap_size, heap_length, pc, op, pair, key, idx, min, max, ret,
          last, ascending>>
history == <<last, ascending>>

Pair == [id : Ids, obj : Objs, n : Nat]
NoPair == [id |-> 0, obj |-> NULL, n |-> 0]     \* memory not written yet

--------------------------------------------------------------------------------
\* The local variables of an operation are gone when it returns.
Return ==
  /\ pc' = "idle" /\ op' = "none"
  /\ pair' = NoPair /\ key' = 0 /\ idx' = 0 /\ min' = 0 /\ max' = 0

\* hvm_new_obj_struct
Init ==
  /\ heap_size = InitialSize
  /\ heap = [i \in 0 .. InitialSize - 1 |-> NoPair]
  /\ heap_length = 0
  /\ pc = "idle" /\ op = "none" /\ ret = NULL
  /\ pair = NoPair /\ key = 0 /\ idx = 0 /\ min = 0 /\ max = 0
  /\ last = [i \in Ids |-> NULL]
  /\ ascending = TRUE

\* What entering hvm_obj_struct_internal_set(strct, id, obj) sets up.
EnterSet(id, obj) ==
  /\ pc' = "grow"
  /\ pair' = [id |-> id, obj |-> obj, n |-> heap_length + 1]
  /\ idx' = heap_length
  /\ last' = [last EXCEPT ![id] = obj]
  /\ ascending' = (ascending /\ \A i \in 0 .. heap_length - 1 : heap[i].id < id)

\* hvm_obj_struct_set
Set(id, obj) ==
  /\ pc = "idle" /\ heap_length < MaxLength
  /\ op' = "set"
  /\ EnterSet(id, obj)
  /\ ret' = NULL
  /\ UNCHANGED <<heap, heap_size, heap_length, key, min, max>>

\* while(heap_length >= heap_size) hvm_obj_struct_internal_grow_heap
GrowHeap ==
  /\ pc = "grow" /\ heap_length >= heap_size
  /\ heap_size' = heap_size * GrowthRate
  /\ heap' = [i \in 0 .. heap_size * GrowthRate - 1 |->
                IF i < heap_size THEN heap[i] ELSE NoPair]
  /\ UNCHANGED <<heap_length, pc, op, pair, key, idx, min, max, ret, history>>

Grown_mOffByOne ==
  /\ pc = "grow" /\ heap_length <= heap_size
  /\ pc' = "sift"
  /\ UNCHANGED <<heap, heap_size, heap_length, op, pair, key, idx, min, max, ret, history>>
Grown ==
  /\ pc = "grow" /\ heap_length < heap_size
  /\ pc' = "sift"
  /\ UNCHANGED <<heap, heap_size, heap_length, op, pair, key, idx, min, max, ret, history>>

\* The hole moves up while the parent's id is larger than the new one.
MustSift_mSkipsRoot == idx > 1 /\ pair.id < heap[idx \div 2].id
MustSift == idx > 0 /\ pair.id < heap[idx \div 2].id

SiftUp ==
  /\ pc = "sift" /\ MustSift
  /\ heap' = [heap EXCEPT ![idx] = heap[idx \div 2]]
  /\ idx' = idx \div 2
  /\ UNCHANGED <<heap_size, heap_length, pc, op, pair, key, min, max, ret, history>>

Place_mAtEnd ==
  /\ pc = "sift" /\ ~MustSift
  /\ heap' = [heap EXCEPT ![heap_length] = pair]
  /\ heap_length' = heap_length + 1
  /\ Return
  /\ UNCHANGED <<heap_size, ret, history>>
Place ==
  /\ pc = "sift" /\ ~MustSift
  /\ heap' = [heap EXCEPT ![idx] = pair]
  /\ heap_length' = heap_length + 1
  /\ Return
  /\ UNCHANGED <<heap_size, ret, history>>

\* hvm_obj_struct_get and the search that starts hvm_obj_struct_delete
StartSearch(o, id) ==
  /\ pc = "idle"
  /\ op' = o /\ key' = id /\ ret' = NULL
  /\ pc' = "search" /\ min' = 0
  /\ max' = IF heap_length = 0 THEN 0 ELSE heap_length - 1
  /\ UNCHANGED <<heap, heap_size, heap_length, pair, idx, history>>

Get(id) == StartSearch("get", id)
Delete(id) == heap_length < MaxLength /\ StartSearch("delete", id)

Mid_mRoundsUp == min + ((max - min + 1) \div 2)
Mid == min + ((max - min) \div 2)

Narrow_mTakesEqualRight ==
  /\ pc = "search" /\ min < max
  /\ IF heap[Mid].id <= key THEN min' = Mid + 1 /\ max' = max
                            ELSE min' = min /\ max' = Mid
  /\ UNCHANGED <<heap, heap_size, heap_length, pc, op, pair, key, idx, ret, history>>
Narrow_mKeepsMid ==
  /\ pc = "search" /\ min < max
  /\ IF heap[Mid].id < key THEN min' = Mid /\ max' = max
                           ELSE min' = min /\ max' = Mid
  /\ UNCHANGED <<heap, heap_size, heap_length, pc, op, pair, key, idx, ret, history>>
Narrow ==
  /\ pc = "search" /\ min < max
  /\ IF heap[Mid].id < key THEN min' = Mid + 1 /\ max' = max
                           ELSE min' = min /\ max' = Mid
  /\ UNCHANGED <<heap, heap_size, heap_length, pc, op, pair, key, idx, ret, history>>

\* The result of the search: an empty heap returns before the loop.
Found_mAnyKey == heap_length > 0 /\ max = min
Found == heap_length > 0 /\ max = min /\ heap[min].id = key
Result == IF Found THEN heap[min].obj ELSE NULL

GetReturn ==
  /\ pc = "search" /\ ~(min < max) /\ op = "get"
  /\ ret' = Result
  /\ Return
  /\ UNCHANGED <<heap, heap_size, heap_length, history>>

\* hvm_obj_struct_delete stores hvm_const_null under the key it searched.
DeleteReturn ==
  /\ pc = "search" /\ ~(min < max) /\ op = "delete"
  /\ ret' = Result
  /\ EnterSet(key, ConstNull)
  /\ UNCHANGED <<heap, heap_size, heap_length, op, key, min, max>>

Step == GrowHeap \/ Grown \/ SiftUp \/ Place \/ Narrow \/ GetReturn \/ DeleteReturn

Next ==
  \/ \E id \in Ids, obj \in Objs : Set(id, obj)
  \/ \E id \in Ids : Get(id) \/ Delete(id)
  \/ Step

\* An operation that was called runs to its end; nobody has to call one.
Spec == Init /\ [][Next]_vars
FairSpec == Spec /\ WF_vars(Step)

--------------------------------------------------------------------------------
Idle == pc = "idle"
Stored == 0 .. heap_length - 1

\* Type invariant: indices stay inside the allocated array.
TypeOK ==
  /\ heap_size \in Nat \ {0}
  /\ heap_length \in 0 .. heap_size
  /\ heap \in [0 .. heap_size - 1 -> Pair \cup {NoPair}]
  /\ \A i \in Stored : heap[i] \in Pair
  /\ pc \in {"idle", "grow", "sift", "search"}
  /\ op \in {"none", "set", "get", "delete"}
  /\ pair \in Pair \cup {NoPair}
  /\ pc \in {"grow", "sift"} => pair \in Pair
  /\ key \in Nat
  /\ pc = "search" => key \in Ids
  /\ idx \in 0 .. heap_length
  /\ pc = "grow" => idx = heap_length
  /\ pc = "sift" => heap_length < heap_size
  /\ min \in Nat /\ max \in Nat
  /\ ret \in Objs \cup {NULL}
  /\ last \in [Ids -> Objs \cup {NULL}]
  /\ ascending \in BOOLEAN

\* Between operations no pair has a larger id than a pair below it: the loop of
\* hvm_obj_struct_internal_set leaves a binary heap whatever the order of ids.
HeapOrdered ==
  Idle => \A i \in Stored : i > 0 => heap[i \div 2].id <= heap[i].id

\* Sifting moves pairs and neither drops nor copies one: between operations each
\* pair ever allocated is at exactly one index.
NoPairLost ==
  Idle => \A m \in 1 .. heap_length :
            \E i \in Stored : heap[i].n = m /\ \A j \in Stored : heap[j].n = m => j = i

\* The search stays inside the stored pairs and its sanity check (mid < max)
\* never fails.
SearchInBounds ==
  (pc = "search" /\ heap_length > 0) =>
     /\ min <= max /\ max < heap_length
     /\ min < max => Mid < max

\* A result is never made up: get returns NULL or an object stored under the id.
ResultStored ==
  [][(pc = "search" /\ pc' # "search" /\ ret' # NULL)
       => \E i \in Stored : heap[i].id = key /\ heap[i].obj = ret']_vars

\* Whatever is searched for, the search answers what was stored under it, and NULL only
\* for what never was, as long as ids were stored in ascending order and each one once,
\* which keeps the whole array sorted through all the growing and sifting.
AscendingFindsKey ==
  [][(pc = "search" /\ pc' # "search" /\ ascending) => ret' = last[key]]_vars

\* What a structure holds for its users: while a pair is being inserted, the pairs
\* around the hole.
InPlace == IF pc = "sift" THEN (0 .. heap_length) \ {idx} ELSE Stored
Objects == [id \in Ids |-> {heap[i].obj : i \in {j \in InPlace : heap[j].id = id}}]
Request ==
  IF pc \in {"grow", "sift"} THEN [op |-> "set", id |-> pair.id, obj |-> pair.obj]
  ELSE [op |-> op, id |-> key, obj |-> NULL]
Store == INSTANCE StructStore WITH store <- Objects, req <- Request

\* The heap and its loops implement StructStore: each set takes effect at one moment
\* with nothing lost on the way, and each answer is one the store allows.
ImplementsStore == Store!Spec

\* Every operation returns: the loops of set and get terminate.
OperationsReturn == ~Idle ~> Idle

\* instructions.md, "Set key symbol (non-negative integer) K in struct S to value V", "Get
\* value from S by key symbol K", "the key-value will be removed from S": what is got is
\* what was set last, and null once it is removed or when it was never set.
GetAnswersLast ==
  [][(pc = "search" /\ pc' # "search")
       => ret' = last[key] \/ {ret', last[key]} \subseteq {NULL, ConstNull}]_vars
================================================================================
