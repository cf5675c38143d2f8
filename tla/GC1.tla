----------------------------------- MODULE GC1 -----------------------------------
(***************************************************************************)
(* The mark-and-sweep collector of gc1.c with the program it runs under.   *)
(* The object space is an array of entries, each tied to one tracked       *)
(* object, which points back to it; hvm_gc1_run marks from the registers   *)
(* and the locals of the frames, frees what is not marked and compacts the *)
(* array.  The program (the opcodes that allocate, copy and store          *)
(* references) and the collector alternate: GC_RUN is a primitive.         *)
(*                                                                         *)
(* An object is its address, its kind and what it refers to.  The C stack  *)
(* of mark_obj_ref is the set gray, visited in any order: the order makes  *)
(* no difference while every object has an entry of its own, and when two  *)
(* share one (see EntryIsNull) the code's is among those allowed.          *)
(***************************************************************************)
EXTENDS Naturals

CONSTANTS
  Objs,         \* addresses hvm_new_obj_ref can return
  LowZero,      \* those whose first byte in memory, the lowest one, is zero
  NULL,         \* the C null pointer
  Const,        \* an object with HVM_OBJ_FLAG_CONSTANT, such as hvm_const_null
  Regs,         \* the registers mark_registers visits
  StackSize,    \* HVM_STACK_SIZE
  InitialSize,  \* HVM_GC1_INITIAL_HEAP_SIZE
  GrowthRate,   \* HVM_GC1_HEAP_GROW_FUNCTION
  Moves,        \* may realloc move the entries: a set of Booleans
  MaxOps        \* bound of the model: program operations in one run

Kinds == {"int", "struct", "array"}
Ref == Objs \cup {NULL, Const}

ASSUME GC1Assumption ==
  /\ LowZero \subseteq Objs
  /\ NULL \notin Objs /\ Const \notin Objs /\ NULL # Const
  /\ StackSize \in Nat \ {0} /\ InitialSize \in Nat \ {0} /\ GrowthRate \in Nat \ {0, 1}
  /\ Moves \in SUBSET BOOLEAN /\ Moves # {} /\ MaxOps \in Nat

VARIABLES
  status,       \* "ok", "crashed" (assertion, null pointer), "undefined" (freed memory used)
  allocated,    \* objects allocated and not freed
  kind, refs,   \* type of an object and the references inside it
  tracked,      \* objects with HVM_OBJ_FLAG_GC_TRACKED
  entry,        \* obj->entry as [base, id]: the array it points into and the index
  entries,      \* space->heap.entries, indices up to size - 1
  length, size, \* space->heap.length and size
  base,         \* history: which array space->heap.entries is, counting reallocations
  regs,         \* what the registers refer to
  locals,       \* what each frame's locals refer to
  depth,        \* vm->stack_depth
  globals,      \* what vm->globals refers to
  exception,    \* vm->exception
  pc,           \* "run" (the program), "mark", "sweep", "compact"
  gray,         \* mark: references still to be visited
  id,           \* sweep: entry looked at; compact: free_entry
  ops           \* history: program operations so far

heapVars == <<allocated, kind, refs, tracked>>
spaceVars == <<entry, entries, length, size, base>>
rootVars == <<regs, locals, depth, globals, exception>>
gcVars == <<pc, gray, id>>
vars == <<status, heapVars, spaceVars, rootVars, gcVars, ops>>

Entry == [obj : Objs \cup {NULL}, marked : BOOLEAN]
NoEntry == [obj |-> NULL, marked |-> FALSE]
NoPointer == [base |-> 0, id |-> 0]
Used == 0 .. length - 1

\* hvm_new_obj_space and hvm_new_vm
Init ==
  /\ status = "ok"
  /\ allocated = {} /\ tracked = {}
  /\ kind = [o \in Objs |-> "int"] /\ refs = [o \in Objs |-> {}]
  /\ entry = [o \in Objs |-> NoPointer]
  /\ entries = [i \in 0 .. InitialSize - 1 |-> NoEntry]
  /\ length = 0 /\ size = InitialSize /\ base = 0
  /\ regs = [r \in Regs |-> Const]
  /\ locals = [d \in 0 .. StackSize - 1 |-> {}] /\ depth = 0
  /\ globals = {} /\ exception = NULL
  /\ pc = "run" /\ gray = {} /\ id = 0 /\ ops = 0

Fail(how) ==
  /\ status' = how
  /\ UNCHANGED <<heapVars, spaceVars, rootVars, gcVars, ops>>

--------------------------------------------------------------------------------
(* The program *)

Program == status = "ok" /\ pc = "run" /\ ops < MaxOps /\ ops' = ops + 1

\* A register receives a reference.  What happens when it is to a freed object
\* is no longer defined.
Receive(r, x) ==
  /\ status' = IF x \in Objs \ allocated THEN "undefined" ELSE "ok"
  /\ regs' = [regs EXCEPT ![r] = x]

\* hvm_new_obj_ref
Alloc(o, k, contents) ==
  /\ o \notin allocated
  /\ allocated' = allocated \cup {o}
  /\ kind' = [kind EXCEPT ![o] = k]
  /\ refs' = [refs EXCEPT ![o] = contents]

MustGrow_mOffByOne == length > size
MustGrow == length >= size

\* hvm_obj_space_add_obj_ref, hvm_obj_space_grow
AddObjRef(o) ==
  /\ tracked' = tracked \cup {o}
  /\ length' = length + 1
  /\ size' = IF MustGrow THEN size * GrowthRate ELSE size
  /\ \E moved \in Moves : base' = IF MustGrow /\ moved THEN base + 1 ELSE base
  /\ entries' = [i \in 0 .. size' - 1 |->
                   IF i = length THEN [obj |-> o, marked |-> FALSE]
                   ELSE IF i < size THEN entries[i] ELSE NoEntry]
  /\ entry' = [entry EXCEPT ![o] = [base |-> base', id |-> length]]

\* LITINTEGER, ADD .. AND, STRUCTNEW, ARRAYNEW, hvm_exception_new
New(r, o, k) ==
  /\ Program /\ Alloc(o, k, {}) /\ AddObjRef(o)
  /\ regs' = [regs EXCEPT ![r] = o]
  /\ UNCHANGED <<status, locals, depth, globals, exception, gcVars>>

\* Integers that are never handed to the collector: $pn, time_as_int
NewUntracked(r, o) ==
  /\ Program /\ Alloc(o, "int", {}) /\ tracked' = tracked \ {o}
  /\ regs' = [regs EXCEPT ![r] = o]
  /\ UNCHANGED <<status, spaceVars, locals, depth, globals, exception, gcVars>>

\* The primitive array_clone: its result is not handed to the collector either.
ArrayClone(r, a, o) ==
  /\ Program /\ regs[a] \in allocated /\ kind[regs[a]] = "array"
  /\ Alloc(o, "array", refs[regs[a]]) /\ tracked' = tracked \ {o}
  /\ regs' = [regs EXCEPT ![r] = o]
  /\ UNCHANGED <<status, spaceVars, locals, depth, globals, exception, gcVars>>

\* MOVE
Move(r, q) ==
  /\ Program /\ Receive(r, regs[q])
  /\ UNCHANGED <<heapVars, spaceVars, locals, depth, globals, exception, gcVars>>

\* SETNULL and constants; a null pointer from hvm_vm_copy_regs or a failed lookup
SetConst(r, x) ==
  /\ Program /\ x \in {NULL, Const} /\ Receive(r, x)
  /\ UNCHANGED <<heapVars, spaceVars, locals, depth, globals, exception, gcVars>>

\* STRUCTSET, ARRAYPUSH, ARRAYUNSHIFT, ARRAYSET: the structure's heap keeps every
\* pair it was given; an array may lose an element to the new one.
Store(c, q) ==
  /\ Program /\ regs[c] \in allocated /\ kind[regs[c]] \in {"struct", "array"}
  /\ \E lost \in {{}} \cup {{x} : x \in IF kind[regs[c]] = "array" THEN refs[regs[c]] ELSE {}} :
       refs' = [refs EXCEPT ![regs[c]] = (@ \ lost) \cup {regs[q]}]
  /\ UNCHANGED <<status, allocated, kind, tracked, spaceVars, rootVars, gcVars>>

\* STRUCTGET, STRUCTDELETE, ARRAYGET, ARRAYPOP, ARRAYSHIFT, ARRAYREMOVE
Load(r, c) ==
  /\ Program /\ regs[c] \in allocated
  /\ \E x \in refs[regs[c]] :
       /\ Receive(r, x)
       /\ \/ refs' = refs
          \/ kind[regs[c]] = "array" /\ refs' = [refs EXCEPT ![regs[c]] = @ \ {x}]
  /\ UNCHANGED <<allocated, kind, tracked, spaceVars, locals, depth, globals, exception, gcVars>>

\* CALL and RETURN, as far as the locals are concerned: the locals of a frame that
\* is left are forgotten here and not when the next call makes the frame anew.
Call ==
  /\ Program /\ depth + 1 < StackSize
  /\ depth' = depth + 1
  /\ UNCHANGED <<status, heapVars, spaceVars, regs, locals, globals, exception, gcVars>>
Return ==
  /\ Program /\ depth > 0
  /\ depth' = depth - 1 /\ locals' = [locals EXCEPT ![depth] = {}]
  /\ UNCHANGED <<status, heapVars, spaceVars, regs, globals, exception, gcVars>>

SetLocal(q) ==
  /\ Program /\ locals' = [locals EXCEPT ![depth] = @ \cup {regs[q]}]
  /\ UNCHANGED <<status, heapVars, spaceVars, regs, depth, globals, exception, gcVars>>
GetLocal(r) ==
  /\ Program /\ \E x \in locals[depth] \ {NULL} : Receive(r, x)
  /\ UNCHANGED <<heapVars, spaceVars, locals, depth, globals, exception, gcVars>>

SetGlobal(q) ==
  /\ Program /\ globals' = globals \cup {regs[q]}
  /\ UNCHANGED <<status, heapVars, spaceVars, regs, locals, depth, exception, gcVars>>
GetGlobal(r) ==
  /\ Program /\ \E x \in globals : Receive(r, x)
  /\ UNCHANGED <<heapVars, spaceVars, locals, depth, globals, exception, gcVars>>

\* THROW of the structure in q, with r the register of the handler
Throw(q, r) ==
  /\ Program /\ regs[q] \in allocated /\ kind[regs[q]] = "struct"
  /\ exception' = regs[q] /\ Receive(r, regs[q])
  /\ UNCHANGED <<heapVars, spaceVars, locals, depth, globals, gcVars>>
SetException(r) ==
  /\ Program /\ exception # NULL /\ Receive(r, exception)
  /\ UNCHANGED <<heapVars, spaceVars, locals, depth, globals, exception, gcVars>>
ClearException ==
  /\ Program /\ exception' = NULL
  /\ UNCHANGED <<status, heapVars, spaceVars, regs, locals, depth, globals, gcVars>>

--------------------------------------------------------------------------------
(* The collector *)

\* What mark_registers and mark_stack hand to mark_obj_ref: the registers are
\* tested for the null pointer, the locals are not.
LiveLocals == UNION {locals[d] : d \in 0 .. depth}
Roots == ({regs[r] : r \in Regs} \ {NULL}) \cup LiveLocals

\* hvm_gc1_run: obj_space_reset_marks, then on to marking
Unmarked_mKeepsMarks == entries
Unmarked == [i \in 0 .. size - 1 |->
               IF i < length THEN [entries[i] EXCEPT !.marked = FALSE] ELSE entries[i]]
Start ==
  /\ status = "ok" /\ pc = "run"
  /\ entries' = Unmarked
  /\ pc' = "mark" /\ gray' = Roots
  /\ UNCHANGED <<status, heapVars, entry, length, size, base, rootVars, id, ops>>

\* A reference mark_obj_ref can follow: to an allocated object and, when that is
\* tracked, through an entry in the present array.
Sound(x) == x = Const \/ (x \in allocated /\ (x \in tracked => entry[x].base = base))
MarkedObj(x) == entries[entry[x].id].marked

\* Constants, untracked objects and objects already marked are passed over.
Skip_mNever(x) == x \notin tracked
Skip(x) == x \in tracked => MarkedObj(x)

\* mark_struct and mark_array
Contents_mStructsOnly(x) == IF kind[x] = "struct" THEN refs[x] ELSE {}
Contents(x) == IF kind[x] \in {"struct", "array"} THEN refs[x] ELSE {}

\* mark_obj_ref
MarkObjRef ==
  /\ status = "ok" /\ pc = "mark"
  /\ \E x \in gray :
       \/ x = NULL /\ Fail("crashed")
       \/ x # NULL /\ ~Sound(x) /\ Fail("undefined")
       \/ /\ Sound(x) /\ Skip(x)
          /\ gray' = gray \ {x}
          /\ UNCHANGED <<status, heapVars, spaceVars, rootVars, pc, id, ops>>
       \/ /\ Sound(x) /\ ~Skip(x)
          /\ entries' = [entries EXCEPT ![entry[x].id].marked = TRUE]
          /\ gray' = (gray \ {x}) \cup Contents(x)
          /\ UNCHANGED <<status, heapVars, entry, length, size, base, rootVars, pc, id, ops>>

MarkDone ==
  /\ status = "ok" /\ pc = "mark" /\ gray = {}
  /\ pc' = "sweep" /\ id' = 0
  /\ UNCHANGED <<status, heapVars, spaceVars, rootVars, gray, ops>>

\* sweep_space: hvm_gc1_free, which cannot free an array (hvm_obj_free)
Sweep ==
  /\ status = "ok" /\ pc = "sweep" /\ id < length
  /\ LET o == entries[id].obj
     IN \/ /\ entries[id].marked
           /\ id' = id + 1
           /\ UNCHANGED <<status, heapVars, spaceVars, rootVars, pc, gray, ops>>
        \/ ~entries[id].marked /\ o \notin allocated /\ Fail("undefined")
        \/ ~entries[id].marked /\ o \in allocated /\ kind[o] = "array" /\ Fail("crashed")
        \/ /\ ~entries[id].marked /\ o \in allocated /\ kind[o] # "array"
           /\ allocated' = allocated \ {o} /\ tracked' = tracked \ {o}
           /\ refs' = [refs EXCEPT ![o] = {}] /\ kind' = [kind EXCEPT ![o] = "int"]
           /\ entry' = [entry EXCEPT ![o] = NoPointer]
           /\ entries' = [entries EXCEPT ![id].obj = NULL]
           /\ id' = id + 1
           /\ UNCHANGED <<status, length, size, base, rootVars, pc, gray, ops>>

SweepDone ==
  /\ status = "ok" /\ pc = "sweep" /\ id >= length
  /\ pc' = "compact" /\ id' = 0
  /\ UNCHANGED <<status, heapVars, spaceVars, rootVars, gray, ops>>

\* entry_is_null looks at the first byte of the entry only.
EntryIsNull(i) == entries[i].obj \in LowZero \cup {NULL}
UsedAfter == {i \in Used : i > id /\ ~EntryIsNull(i)}

\* find_next_free_entry
FindFree ==
  /\ status = "ok" /\ pc = "compact" /\ id < length /\ ~EntryIsNull(id)
  /\ id' = id + 1
  /\ UNCHANGED <<status, heapVars, spaceVars, rootVars, pc, gray, ops>>

\* relocate_entry: the entry moves and its object is told where to
Moved(from, to) == [entries EXCEPT ![to] = entries[from], ![from].obj = NULL]
Repointed_mNot(from, to) == entry
Repointed(from, to) ==
  [entry EXCEPT ![entries[from].obj] = [base |-> base, id |-> to]]

Relocate_mCopies ==
  /\ status = "ok" /\ pc = "compact" /\ id < length /\ EntryIsNull(id)
  /\ \E used \in UsedAfter :
       /\ \A i \in UsedAfter : used <= i
       /\ entries' = [entries EXCEPT ![id] = entries[used]]
       /\ entry' = Repointed(used, id)
  /\ id' = id + 1
  /\ UNCHANGED <<status, heapVars, length, size, base, rootVars, pc, gray, ops>>
Relocate ==
  /\ status = "ok" /\ pc = "compact" /\ id < length /\ EntryIsNull(id)
  /\ \E used \in UsedAfter :
       /\ \A i \in UsedAfter : used <= i
       /\ entries' = Moved(used, id)
       /\ entry' = Repointed(used, id)
  /\ id' = id + 1
  /\ UNCHANGED <<status, heapVars, length, size, base, rootVars, pc, gray, ops>>

\* The end of compact_space: no used entry after the free one.  The array from there
\* on stays as it is, with the marks of entries that were passed over.
Finish ==
  /\ status = "ok" /\ pc = "compact"
  /\ id < length => EntryIsNull(id)
  /\ UsedAfter = {}
  /\ length' = id
  /\ pc' = "run" /\ id' = 0
  /\ UNCHANGED <<status, heapVars, entry, entries, size, base, rootVars, gray, ops>>

Collect == MarkObjRef \/ MarkDone \/ Sweep \/ SweepDone \/ FindFree \/ Relocate \/ Finish

Next ==
  \/ \E r \in Regs, o \in Objs :
       \/ \E k \in Kinds : New(r, o, k)
       \/ NewUntracked(r, o)
       \/ \E a \in Regs : ArrayClone(r, a, o)
  \/ \E r, q \in Regs : Move(r, q) \/ Store(r, q) \/ Load(r, q) \/ Throw(q, r)
  \/ \E r \in Regs :
       \/ \E x \in {NULL, Const} : SetConst(r, x)
       \/ SetLocal(r) \/ GetLocal(r) \/ SetGlobal(r) \/ GetGlobal(r) \/ SetException(r)
  \/ Call \/ Return \/ ClearException
  \/ Start \/ Collect

Spec == Init /\ [][Next]_vars

--------------------------------------------------------------------------------
\* Type invariant.
TypeOK ==
  /\ status \in {"ok", "crashed", "undefined"}
  /\ allocated \in SUBSET Objs /\ tracked \in SUBSET allocated
  /\ kind \in [Objs -> Kinds] /\ refs \in [Objs -> SUBSET Ref]
  /\ size \in Nat \ {0} /\ length \in 0 .. size /\ base \in Nat
  /\ entry \in [Objs -> [base : Nat, id : Nat]]
  /\ entries \in [0 .. size - 1 -> Entry]
  /\ regs \in [Regs -> Ref]
  /\ depth \in 0 .. StackSize - 1 /\ locals \in [0 .. StackSize - 1 -> SUBSET Ref]
  /\ globals \in SUBSET Ref /\ exception \in Objs \cup {NULL}
  /\ pc \in {"run", "mark", "sweep", "compact"}
  /\ gray \in SUBSET Ref /\ id \in Nat /\ ops \in Nat

Dead(x) == x \in Objs \ allocated

\* Tracked objects that no entry refers to any more: compact_space passed over their
\* entry, which looked free.  They are not freed any more either, so once there is one
\* there always is.
Listed(o) == \E i \in Used : entries[i].obj = o
CutOff == {o \in tracked : ~Listed(o)}

\* While the program runs, no register, no local of a frame and no reference inside
\* a tracked object is to a freed object: as long as no object was cut off, the
\* collector frees nothing the program can still reach through them.
NoDangling ==
  (status = "ok" /\ pc = "run" /\ CutOff = {}) =>
     /\ \A r \in Regs : ~Dead(regs[r])
     /\ \A x \in LiveLocals : ~Dead(x)
     /\ \A o \in tracked : \A x \in refs[o] : ~Dead(x)

\* An object's entry, when its pointer is to the present array, is in use and refers
\* back to the object: for every tracked object but those cut off, and none is cut off
\* whose address does not begin with a zero byte.
EntriesTied ==
  pc = "run" =>
    /\ CutOff \subseteq LowZero
    /\ \A o \in tracked \ CutOff :
         entry[o].base = base => entry[o].id < length /\ entries[entry[o].id].obj = o

\* An entry the sweep is about to free has an object that is still allocated: no
\* object is freed twice, however entries were moved by earlier collections.
NoDoubleFree ==
  (pc = "sweep" /\ id < length /\ ~entries[id].marked) => entries[id].obj \in allocated

\* A collection leaves no garbage: a tracked object that survives is in every set
\* that holds the roots and, with a tracked object, what that refers to, unless this
\* collection or an earlier one cut an object off.
Closed(S) == \A o \in S \cap tracked : refs[o] \subseteq S
NoGarbageLeft ==
  [][(pc = "compact" /\ pc' = "run") =>
       \/ CutOff' # {}
       \/ \A S \in SUBSET Ref : (Roots \subseteq S /\ Closed(S)) => tracked \subseteq S]_vars

\* A collection ends, on cyclic structures too: a step of marking leaves fewer
\* entries to mark, or as many and fewer references to visit; a step of sweeping or
\* compacting goes forward in the array, which keeps its length until the end.
Pending == {i \in DOMAIN entries : ~entries[i].marked}
Fewer(S, T) == S \subseteq T /\ S # T
CollectionProgress ==
  [][(pc # "run" /\ pc' = pc /\ status' = "ok") =>
       IF pc = "mark"
       THEN Fewer(Pending', Pending) \/ (Pending' = Pending /\ Fewer(gray', gray))
       ELSE id' > id /\ id' <= length' /\ length' = length]_vars

\* gc1.h, "Object this entry is tied to", the object that points back to it
\* (obj->entry): while the program runs every tracked object has such an entry.
EveryEntryTied ==
  pc = "run" => \A o \in tracked :
    entry[o].base = base /\ entry[o].id < length /\ entries[entry[o].id].obj = o

\* instructions.md, "setglobal N V: Sets a global by symbol name N with value V":
\* what a global was set to is there to be read.
GlobalsAlive == \A x \in globals : ~Dead(x)
================================================================================
