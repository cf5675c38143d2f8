# A TLA+ model of Hivm

Hivm is a register-based virtual machine written in C. A client builds byte code with the *generator*, the VM
*loads* the chunks and *interprets* them, a mark-and-sweep *collector* frees objects, and a *tracing JIT* compiles
hot subroutines with LLVM. This directory holds TLA+ modules translated from that code, TLC runs on small instances
of them, and proofs checked by TLAPS. Paths below are relative to the repository; `PROJECT.json` maps every
definition to its lines.

Contents: [Inventory](#inventory) · [Plan](#plan) · [Modules and code](#modules-and-code) ·
[Runs](#runs) · [Bounds](#bounds) · [Fairness](#fairness) · [Proofs](#proofs) ·
[Where code and documentation disagree](#where-code-and-documentation-disagree) · [Left out](#left-out)

## Inventory

| Component | Source | State it keeps | Operations | Module |
|---|---|---|---|---|
| Structures | `src/object.c` | heap array of (symbol id, object) pairs, length, size | new, set, get, delete, grow | `ObjStruct`, `StructStore` |
| Integers, arrays | `src/object.c` | GLib arrays | arithmetic, push/pop/shift/unshift/get/set/remove | in `VM`, by type and effect; in `Activation`, exactly |
| Interpreter | `src/vm.c`, `src/vm-dispatch.include.c`, `src/frame.c`, `src/exception.c` | ip, registers, frames, globals, current exception | one per opcode; call, return, raise | `VM` |
| Garbage collector | `src/gc1.c` | array of entries tied to objects and back | add, grow, mark, sweep, compact | `GC1` |
| Generator | `src/generator.c` | blocks of items; while processing: chunk, labels, uses to patch, debug entry | about 55 builder calls, `hvm_gen_chunk` | `Generator` |
| Chunks and loading | `src/chunk.c`, `src/vm.c`, `src/symbol.c` | program, symbol store, symbol table, constant pool, debug entries | `hvm_vm_load_chunk` and its four parts, `hvm_symbolicate` | `Loader` |
| Trace recorder | `src/jit-tracer.c`, parts of `src/vm.c` | call tags (heat, trace index), traces, current frame's trace | tag processing, dispatch, push, annotate, complete | `Tracer` |
| JIT compiler | `src/jit-compiler.c` | sequence data, list of blocks, constant registers, known values, LLVM blocks | sort, identify blocks / registers / locals, emit, verify, run | `JIT`, `Activation`, `Subroutine` |
| Primitives | `src/bootstrap.c` | table of functions | print, exit, clone, time, gc_run, ... | in `VM` and `GC1` |
| Debugger | `src/debug.c` | Lua console | step, inspect | not modelled |

**How they interact.** Everything runs in one thread. The generator hands a finished chunk to the loader; the loader
writes the program the interpreter reads, byte by byte, so generator and interpreter share only the layout of
instructions. Structures carry almost all dynamic state of the VM: locals, globals, the symbol table, primitives and
exceptions. The collector is entered from the program, by the primitive `gc_run`, and walks the registers and the
locals of the frames. The tracer is a second copy of the dispatch loop (the same include file), entered when the tag of
a CALLSYMBOLIC says that its subroutine is hot; it records the instructions that run while the frame of that call is on
top. The RETURN of the frame completes the trace and writes its index into the tag of the call, and the next hot call
from that place compiles the trace and runs the code instead of the subroutine.

**What is hard.** Nothing is concurrent and nothing persists, so the difficulties are long sequences of legal
operations and state that goes stale: frame slots used again by later calls; handlers that must run once, with frames
skipped by an exception still on the stack; a heap array read by a binary search; entries moved by compaction while
objects point to them; addresses patched and relocated twice, in two different files; arrays that grow at four
different off-by-one conditions; return addresses that only a backtrace ever reads; a trace that outlives the frame it
was recorded from; and code compiled from one call that is run for all others.

**What makes each part correct.** Structures: insertion keeps a heap and loses nothing, the search stays inside it and
answers only with what was stored. Interpreter: every frame returns to its call, owns its handler and locals, an
exception goes to the innermost handler and no handler is used twice. Collector: nothing reachable is freed, nothing
twice, no garbage stays, objects and entries agree. Generator and loader: what the interpreter reads is what the builder
was asked for, whatever was loaded before, and a backtrace finds the right debug entry. Recorder: a trace holds what ran
with the traced frame on top and nothing else, does not change once complete, and a tag leads only to its own. Compiler:
blocks cover the trace in order, code that it should be able to build is accepted by LLVM, and running it does what
interpreting the subroutine does.

`PROJECT.json` lists the hazards line by line, with the properties that would catch each.

## Plan

Done: `ObjStruct` and the abstract `StructStore`, `VM`, `GC1`, `Generator` + `Loader`, `Tracer` composed with `VM`, `JIT`
with the abstract `Subroutine`. All have runs and proofs. To come: the roots of the collector composed with `VM` and with
compiled activations, so that what can still be named is marked.

## Modules and code

**`ObjStruct`** — `hvm_obj_struct_internal_set/get`, `hvm_obj_struct_set/get/delete`. One action per loop iteration
(`SiftUp`, `Narrow`), so that what the loops keep true are invariants. A pair has a field `n`, the order of its
allocation, which stands for its address. `delete` is a search followed by storing `hvm_const_null`, as in the code:
it does not remove. `last`, what was stored last under each id, and `ascending` are history variables.

**`StructStore`** — what a structure promises to its users: operations one at a time, each with one effect, nothing
lost, and an answer that was stored under the id, or NULL. It is deliberately not a map: after two sets of an id the
answer may be either value, and an id that is there may be missed. This is the view `VM` and `Tracer` have of locals and
globals (`Activation` knows more of locals, see there). `ObjStruct` implements it (`ImplementsStore`) under a mapping
that leaves out the pair in hand and the copy a rising hole leaves behind.

**`VM`** — the loop `EXECUTE` and the block `EXCEPTION`. The program is arbitrary (a constant set of instruction
memories); an address is an instruction's index, so operand lengths disappear (they are `Loader`'s subject), and
`JUMP` with its difference is a `goto`. Opcodes that share their control flow share an action: `Call` is CALL,
CALLSYMBOLIC, INVOKESYMBOLIC and INVOKEADDRESS, `Branch` the jumps and IF, `Math` arithmetic and comparison,
`StoreElement` and `LoadElement` structures and arrays. A value is its type with what control depends on. Contents of
structures and arrays are not kept, so a load can yield any object (or NULL, where the code can return it). Locals and
globals are the sets of what was stored under a symbol: `ObjStruct` shows that a lookup answers with one of them or
with NULL. Assertions that fail, null pointers used and running off the program lead to the status `crashed`; the
assertions about an exception the program made itself may fail or not, because what is in its structure is not kept
(`RaiseOwn`). No call compares the depth with `HVM_STACK_SIZE`: `Overrun` makes the frame beyond the stack, as the code
does, and the status is then `undefined`. What the runs and theorems say of frames they say up to there. Frames above
the present depth keep what they held, as the array in C does. `codeFrame`, `calls` and the `act` of frames, handlers
and locals are history.

**`GC1`** — the object space with the operations of a program that allocate, copy and store references. Allocation
reuses freed addresses. `entry` is `obj->entry`, an index into a numbered incarnation of the array, because
`hvm_obj_space_grow` may move it. The recursion of `mark_obj_ref` is the set `gray`. Sweeping and compacting go entry
by entry; freeing an array fails an assertion in the code, which is the status `crashed`. `LowZero` are the
addresses whose lowest byte is zero, which `entry_is_null` takes for free entries, and `Moves` says whether `realloc`
may move the array of entries; the runs have both. Following `obj->entry` into an array that was moved is the status
`undefined`. Compaction may pass over the entry of an object in `LowZero`; then no entry refers to the object any more
and it is in `CutOff`, for good.

**`Generator`** — builder calls append items; `GenChunk` starts `hvm_gen_process_block`, one action per kind of item.
Nested blocks are in line between `block` and `end`. The chunk is kept byte by byte: that is the only way to see a
patch or relocation hit the wrong bytes. Item types are those the builders set, also where that is not the layout the
item was allocated with (`hvm_gen_if`). A call passes the registers and the name that the builder's C signature asks
for (`Arity`, `Named`). `placed` is history: where each item was put, in which block and under which
debug entry.

**`Loader`** — extends `Generator` with `hvm_vm_load_chunk`: growth of the program, then symbols, constants,
relocations and debug entries in that order, one entry per step, and with the symbol store and constant pool. A source
is built, processed and loaded, then the next one, by a new generator. `RegsAt`, `DestAt`, `ConstAt` and `Size` are
the offsets at which `vm-dispatch.include.c` reads, written down independently of the generator's `Fields`.
Addresses are below 2^32, so the four high bytes of a word are zero; sizes wrap at `Space`, which stands for 2^64.

**`Tracer`** — extends `VM`. `Step` is one step of `VM` with what the recorder does before it (`Push`), after it
(`Annotate`) and at a RETURN (`Register`), with the tag of call instructions (`ProcessTag`), the frames' trace pointers
(`FrameTraces`) and the choice of `hvm_dispatch_frame` (`Path`). `CompiledReturns` and `CompiledFails` are a call
answered by compiled code; what it computes is `JIT`'s subject, here it may return any object and leave in argument
registers what it stores there. `is_tracing` is never reset, so there is one trace in the life of a VM and `trace` is a
single record (`Trace`), a sequence of `Item`s with the `Notes` made on them. `buf` numbers the memory the sequence is
in: it counts one up when `realloc` moves it, and `current_item` keeps the number it was taken with. `always` starts as
either value because `hvm_new_vm` does not set `always_trace`. In the record of a trace `seen` and `act`, and `saw` in
its items, are history.

**`Activation`** — one activation of a subroutine over the instructions the compiler handles (and some it does not),
with exact values: integers modulo `IntMod`, arrays, the first parameter, primitives called with their parameter.
`Sound` is when the interpreter carries an instruction out, `Steps` what it leads to. A local keeps the values stored
in it in order (`WithValue`), and `Lookup` finds what the interpreter does: the first one, as long as no other local is
set. With several symbols in the frame's structure the search may also meet a later one or miss all of them, depending
on the order of all sets (`ObjStruct`), and `Lookup` allows each.

**`Subroutine`** — the abstract specification of calling a subroutine: each activation takes the interpreter's steps.

**`JIT`** — `hvm_jit_compile_trace` pass by pass, then `hvm_jit_run_compiled_trace`. A first call is interpreted and
recorded; `Sort`, `IdentifyBlocks`, `IdentifyRegisters`, `IdentifyLocals` are the passes, the `Emit` actions one
iteration of the last one each, `Verify` is LLVM's verdict. `Sort` says what `qsort` of the C library leaves, each item
behind those with a lower address, and a step of `IdentifyBlocks` is one iteration of its loop; `Run` and the `Run…`
actions call the code with other parameters, as often as one likes, on the registers and arrays the calls before left.
LLVM is external: a block is a sequence of instructions appended at the builder's position, which moves as the C code
moves it. `context->values` is not initialised, so reading it before writing yields any value or a crash (`Meta`).
`owed` is history, below.

The refinement `Implements` maps the slots of compiled code to the registers the activation has assigned and the native
instruction to the address it was compiled from; continuation branches are stutters. Compiled code is not the
interpreter in general, and `InScope` in `Subroutine` lists every difference there is: general registers start at
null and are not written back; the function is given `*(vm->param_regs)`, the first parameter, where
`src/jit-compiler.h:254` says an array is passed, so any other parameter is undefined; the first one is still that of
the call when a primitive has replaced it; AND evaluates both operands; ADD looks at values of registers assigned
further down; a local is that of the symbol it was annotated with; a local set again with another value keeps the
first one in the interpreter (`src/object.c:326`) and has the last one in compiled code (`src/jit-compiler.c:1365`);
instructions the recorder does not know are dropped; an exception is not looked at, neither that of a primitive nor
that of a local the interpreter's search does not find (`MayRaise`); and the code begins at the lowest address recorded,
which need not be the entry. As soon as an activation meets one of these nothing is owed until the next call (`owed`).

`MCVM`, `MCGC1`, `MCLoader`, `MCTracer` and `MCJIT` give programs, symmetry and chunk sources for TLC.
`ObjStructProofs`, `VMProofs`, `GC1Proofs`, `TracerProofs`, `GeneratorProofs`, `LoaderProofs` and `JITProofs` hold
theorems and lemmas about the module they are named after; `Numbers` has what the prover is not told about 2^n and
about the least and greatest element of a set of numbers.

## Runs

| Run | Checks | Shows |
|---|---|---|
| `objstruct` | `TypeOK` `HeapOrdered` `NoPairLost` `SearchInBounds` `ResultStored` `AscendingFindsKey` `OperationsReturn` `ImplementsStore` | every sequence of set, get, delete on up to five pairs, with two reallocations (about 185 000 states) |
| `gc1` | `TypeOK` `NoDangling` `EntriesTied` `NoDoubleFree` `NoGarbageLeft` `CollectionProgress` | programs of five operations over three objects, one of them in `LowZero`, with collections anywhere between them and entries that move or stay when the space grows (about 5 450 000 states) |
| `loader` | `TypeOK` `InBounds` `InstructionsDecode` `SymbolsResolve` `DebugFound` | every source of up to three builder calls, all sources of five calls over labels, blocks and debug entries, and three long ones, each loaded twice (about 1 000 000 states) |
| `tracer` | of `VM`: `TypeOK` `ReturnSites` `BacktraceLinks` `OwnState` `HandlerUsedOnce`; of `Tracer`: `TraceTypeOK` `RoomForItem` `RecordedOnce` `NotesCurrent` `OneRecorder` `IndexSound` `CompleteIsFinal` | `VM` under the recorder: every program of four instructions over calls, tail calls, returns and exceptions, programs for the other opcodes, and every subroutine of three instructions over 14 letters, called until it is hot, traced and compiled, and further (about 495 000 states) |
| `jit` | `TypeOK` `BlocksExact` `ConstantsAgree` `ClosedTracesCompile` `Implements` | every subroutine of three free instructions over 18 letters and thirteen longer ones, recorded with one parameter, run with all (about 360 000 states) |
| `objstruct_last`, `vm_top`, `gc1_globals`, `gc1_tied`, `loader_call`, `tracer_current`, `jit_bailout` | one property each, expected to fail | see [below](#where-code-and-documentation-disagree) |

The properties, in the words of the code:

- `HeapOrdered`, `NoPairLost`: the sifting loop leaves a heap and moves every pair exactly once into place.
- `SearchInBounds`: `min`, `max` and `mid` stay inside the stored pairs and the sanity check never fails.
- `ResultStored`: a result was stored under that key. `AscendingFindsKey`: with keys stored in ascending order and each
  once (the heap is then sorted) a lookup answers what was stored, and NULL only for what never was. `OperationsReturn`:
  both loops end.
- `ImplementsStore`: the loops, growth and delete together behave as `StructStore`.
- `ReturnSites`, `BacktraceLinks`: `return_addr` is behind a call instruction that names `return_register`, and is
  `current_addr + 1` of the frame below, which the backtrace reads.
- `OwnState`: the handler and the locals in a frame slot belong to its present activation.
- `HandlerUsedOnce`: exceptions go to the innermost handler, which is used up.
- `NoDangling`: registers, locals and tracked objects never refer to a freed object, until an object is cut off.
  `NoDoubleFree`, `NoGarbageLeft` (everything that survives is reachable, unless an object was cut off), `EntriesTied`
  (`obj->entry`, when it points into the present array, and `entry->obj` agree, but for objects cut off, and those have
  an address in `LowZero`), `CollectionProgress` (a measure that falls with every step of a collection, so marking ends
  on cycles).
- `InBounds`: every write is inside what is allocated. `InstructionsDecode`: at every place an instruction was put the
  interpreter reads its opcode, registers, destination and constant as asked for, and goes on at the next one.
  `SymbolsResolve`: symbol ids are unique and the table leads to the subroutines. `DebugFound`: a lookup by address
  finds the entry in force where the instruction was built.
- `RoomForItem`: the item written before the capacity is checked is inside the sequence. `RecordedOnce`: the sequence
  has exactly the known instructions run with the traced frame on top, each once. `NotesCurrent`: annotations are those
  of the last time, except for the items at which the sequence grew. `OneRecorder`: whichever way a frame slot is used
  again, only the activation the trace began with is recorded. `CompleteIsFinal`: a complete trace does not change.
  `IndexSound`: an index in a tag means that the trace of this call's subroutine is complete (asserted by
  `hvm_dispatch_frame`).
- `BlocksExact`: the list of blocks is ascending, with the first address and each branch destination in the trace.
  `ConstantsAgree`: an object built into an addition is what the register holds. `ClosedTracesCompile`: a trace with
  both sides of each branch and translatable instructions is accepted by LLVM. `Implements`: see `JIT` above.

Every property has a mutant in `PROJECT.json`: a plausible slip in one mapped definition that makes TLC report it.

## Bounds

- `objstruct`: `Ids` 1..3, `MaxLength` 5, `InitialSize` 2 (growth at 2 and 4). Five pairs make a heap of three levels,
  with equal keys, holes that rise two levels, and searches of three iterations.
- `gc1`: three objects, two registers, two frames, `InitialSize` 1 (two growths), `MaxOps` 5: cycles of two objects, a
  freed entry in front of a used one, reuse of an address and a second collection all occur. `LowZero` is one of the three
  objects and `Moves` both values. The other two objects and the registers are interchangeable, so symmetry is used; no
  liveness is checked there.
- `loader`: `ChunkInitial` 20 and `ChunkGrowth` 16 instead of 1024, so that chunks grow after one item (the slack of
  16 is the code's); `ProgramInitial` 32, `SymbolsInitial` 3, `PoolInitial` 1, `DebugInitial` 2, so that all arrays
  grow; two chunks of the same source, so that the second is relocated and shares names with the first.
- `tracer`: `Threshold` 2 is the code's; `HeatBits` 2 instead of 8 and `HeatCap` 5 instead of 1024 keep the cap beyond
  what the bits hold, so that heat wraps as in the code, before and after there is a trace; `InitialCapacity` 2 instead
  of 64, so that the sequence of three or four items grows once or twice; `StackSize` 3 and `MaxCalls` 5 allow three
  calls to become hot, one traced and one compiled, recursion, and calls after an exception. Wrapping needs the fourth.
  Addresses 0..7, two general and two argument registers, two symbols. For `VM` four instructions suffice for a handler
  in an outer frame, a throw inside a handler, a return after a skipped frame and a tail call in a called subroutine;
  recursion overruns the stack.
- `jit`: three general and two argument registers, integers modulo 4 (wrap-around and negative values occur), `MaxOut`
  1 primitive per activation, two symbols, one array of two elements. With more than two symbols a lookup in the
  compiler's structure of slots could miss, as in any structure. Parameters are a null pointer, 0, 1 and an array, so
  the recorded call and later ones take different branches. The long bodies have loops, a loop to the first
  instruction, arrays, locals, and one case for each exclusion of `InScope`.

`CHECK_DEADLOCK FALSE` stands in the configurations of `VM`, `GC1`, `Loader`, `Tracer` and `JIT`, where programs end or
the process stops (and `MaxOps`, `MaxCalls`, `MaxOut` stop them). `ObjStruct` never deadlocks: a search is possible at
any time.

## Fairness

Only `ObjStruct` claims liveness: `FairSpec` has weak fairness of `Step`, the continuation of an operation that was
called. That is a C function running to its end in a single thread. Calling an operation has no fairness. `GC1` states
termination as a falling measure instead, which needs no fairness.

## Proofs

Every theorem holds for every value of the constants that the named assumptions of the module allow; each lists what it
needs beyond that. All proofs have the same frame: an invariant that `Init` establishes and every action keeps, with one
lemma per action, and the property as a consequence of it.

**`ObjStructProofs`**, for all `Ids ⊆ Nat`, sizes, growth rates and lengths (assumption `ObjStructAssumption`:
`InitialSize > 0`, `GrowthRate > 1`): `TypeCorrect`, `SetKeepsHeap`, `SetKeepsPairs`, `SearchStaysInBounds`,
`LookupsAreStored`, `AscendingLookups`, `HeapImplementsStore`.

- `HeapOrdered` and `NoPairLost` speak of the time between operations and are not inductive. The inductive invariant
  `Inv` adds what holds in the middle of an insertion, while a hole rises in the array and a copy of what moved down
  is still in it: `HoleTyped` (the slot at the end holds a pair once something was moved there), `SiftOrdered` (the
  array with the copy is in heap order, and the new id is below the copy's), `AllHeld` (each earlier pair is in exactly
  one slot other than the hole, and the pair in hand is the newest), and
  `SearchInBounds`. One lemma per action; arithmetic about halves is in `HalfFacts` and `MidFacts`.
- `AscendingLookups` says why the binary search works when it does: as long as ids come in ascending order, each once,
  the hole never rises, so the heap is strictly sorted (`Sorted`, `AtEnd`), an id's pair has what was stored last
  (`LastKnown`), the search never narrows past it (`Narrowed`) and ends at it (`SearchFindsLast`).
- `HeapImplementsStore` is the refinement of `StructStore`. The mapping takes away the pair in hand and the copy
  behind the hole, so sifting and growing are stutters (`InvisibleStep`), the last step of an insertion is the effect
  of a set (`PutStep`), the first step of an operation the request (`RequestStep`) and the end of a search the answer
  (`AnswerStep`). On top of `Inv` it needs `Serving`: which operation is being served.

**`VMProofs`**, for every set of programs, any number of registers, stack size and symbol table (`VMAssumption`):
`TypeCorrect`, `ReturnsToCaller`, `BacktraceFollowsCalls`, `FramesAreFresh`, `HandlersUsedUp`.

- `IInv` is `TypeOK` and, as long as no call overran the stack, `Inv`: the state is well typed with the depth inside the
  stack (`Typed`), and the three statements about frames together (`Frames`). The statements about frames need the type
  invariant for the stack index and one another: a tail call initializes the frame it runs in and hands on its return
  address, so the frame is fresh, returns where its caller's did and still follows the call below. Most actions only
  note the present address in the top frame and write a register: `HereStep` and `ContinueStep` cover them at once;
  `CallStep`, `TailCallStep`, `ReturnStep`, `CatchStep`, `SetLocalStep` and `RaiseStep` treat those that change frames.

**`GC1Proofs`**, for every set of addresses, registers, stack size, growth and number of operations
(`GC1Assumption`): `TypeCorrect`, `FreesAtMostOnce`, `EntriesStayTied`, `CollectionIsSafe`, `CollectionIsComplete`,
`CollectionGetsOn`.

- None of them assumes anything of addresses or of `realloc`. The invariant `IInv` has three parts. `Typed`: `TypeOK`
  and the cursor inside the array. `Space`, which holds always: an entry that holds an object is that object's
  (`Backed`), holes are only behind the sweep or ahead of the compaction (`Filled`), the entry of a tracked object is
  inside the array (`EntryInside`), only objects in `LowZero` are cut off (`Kept`), integers refer to nothing
  (`IntsEmpty`). From these follow `NoDoubleFree`, `EntriesTied` and `CollectionProgress`. The third is `GCInv`, as long
  as `CutOff` is empty: once an object is cut off, the collector may free what it refers to, and no more can be said
  about reachability. An object cut off stays so (`CutOffStays`), so each step from a state where `GCInv` counts to
  another starts with `GCInv`.
- `GCInv` has two layers. `Structure`: each tracked object has an entry of its own (`Tied`), and what the sweep left
  behind it is marked (`Swept`). `Marks`: frames that were left have no locals (`LocalsGone`), nothing the collector
  looks at has been freed (`Live`), and during a collection the tri-colour invariant holds (`Colours`: what a marked
  object or a root refers to is marked or gray) and whatever is marked or gray is in every set closed under reachability
  that has the roots (`Reached`). `Colours` with an empty `gray` is what keeps `Live`, and so `NoDangling`, through the
  sweep; `Reached` gives `NoGarbageLeft`.

**`TracerProofs`**, for every set of programs, every `Threshold`, `HeatCap`, `HeatBits`, `InitialCapacity` and both
values of `always_trace` (`TracerAssumption`, and `TraceAssumption`: the null pointer is no trace): `TraceTypeCorrect`,
`ItemHasRoom`, `EachRecordedOnce`, `NotesAreCurrent`, `OneActivationRecorded`, `TagsLeadToTraces`, `CompleteStaysSo`,
and `FramesUnderTracing`, which carries `TypeOK`, `ReturnSites`, `BacktraceLinks` and `OwnState` of `VM` over to the
composition.

- A step of `Tracer` is a step of `VM` with what the recorder adds, or a call answered by compiled code; so the
  lemmas of `VMProofs` give `VM`'s invariant, and the proof about the recorder has three cases: the step records
  (`Records`), begins a trace (`Begins`) or leaves it alone (`Idles`).
- `TInv` is `Control` (`VM`'s `Inv`; a frame is recorded only while there is an incomplete trace, and then exactly one,
  that of the trace's activation; its caller's tag is that of a call instruction; an index means completeness) and
  `Sequence` (room for one more item; the items are the known instructions seen, each once; the capacity is the initial
  one doubled some number of times (`Doubled`), which is what places the lost annotations at those lengths).

**`GeneratorProofs`** and **`LoaderProofs`**, for every set of sources, any initial sizes and growth
(`GeneratorAssumption`, `LoaderAssumption`: initial sizes above what `hvm_new_vm` itself stores, growth by at least the
slack of 16, primitives registered once, the null pointer no address of a label): `TypeCorrect`, `WritesInBounds`,
`SubroutinesFound`, `EntriesFound`, `InstructionsRead`.

- `GeneratorProofs` has lemmas only. `LayoutFacts` goes through the layouts: the longest instruction has 13 bytes, and
  the field to patch, the relocation and the constant lie within it; with the 16 bytes `Expanded` guarantees, every
  write is inside the chunk. `IsChunk` says so of a chunk as a whole, and the lemmas about `Expanded`, `Closed` and an
  emitted item say each returns such a chunk. What is patched for a label ends at most 15 bytes behind the start of its
  instruction, so even at the wrong offset of `call` (see [below](#where-code-and-documentation-disagree)) it is inside
  the data. `GenInv` adds
  the stages and the shape of the blocks being built and processed.
- `LInv` adds that the chunk being loaded lies inside the program (`Programmed`), that the symbol store always has one
  free place (`Stored`), and the same for pool and debug entries. `SymbolsResolve` needs `Resolving`: a chunk's
  symbols are the subroutines placed in it (`Noted`), no name has two ids (`Distinct`), the table has nothing else
  (`Sound`) and, once the symbols of a chunk are loaded, nothing less (`Complete`, `Present`).

- `EntriesFound` is `DebugFound`, as long as the program is smaller than the address space. An entry is appended when
  its block is left, so entries of blocks that are still open are not in the list yet. The invariant reads the two as
  one list: the chunk's entries, then those of the open blocks, innermost first. For each place an instruction was put
  the first entry in this list that covers it is the one in force where it was built (`Attributed`, `Located`). Leaving
  a block takes its entry from the second part to the end of the first (`Shut`). Loading puts the chunk's entries,
  moved by its start, behind those of earlier chunks, which end before it (`Behind`, `Debugging`). That a covering entry
  has a first one is the lemma about least elements in `Numbers`, which takes the place of an induction over the list.

- `InstructionsRead` is `InstructionsDecode`. What the generator's layouts and the interpreter's tables say of one
  instruction is compared row by row (`Rows`: registers, destination, constant, size; `Layout`: the fields do not
  overlap). The invariant `Decoding` follows the bytes from there to the program, in four parts. `Coded` is about the
  chunk under construction: the instructions placed are one behind the other up to its size (`Shaped`, `Compact`), the
  list of relocations and that of constants have each place to be changed, and have it once (`Listed`, `Collected`), and
  each instruction has its opcode, its registers and its destination, or a use that will be patched is noted for it
  while no label it can mean has been placed (`Pending`, `Awaited`), or its block was left without one (`Lost`). A block's
  labels are those placed in it (`Numbered`, `Labelling`), so that patching puts in what was asked for. `Coming` is about
  the chunk that is being loaded, when so many constants and relocations are applied: a destination has the chunk's
  address added if and only if its relocation is among them (`Moved`), and a constant is that of the pool if its own is
  (`Linked`). That a place is in its list once, and that no write into one instruction reaches the next, is why no
  address is moved twice and nothing applied before is lost. `Past` says the same of the chunks loaded before with all
  of both applied, and `Apart` that they end where the one being loaded begins, so that its writes leave them alone.
  `Byte` takes four bytes of a number and zeros above them, as the model does throughout: of a destination or a literal
  that is 2^32 or more the theorem says what its four low bytes are.

**`JITProofs`**, for every set of programs, pool of constants, set of parameters and arrays, any number of registers and
any width of integers (`JITAssumption`: what programs are made of, and that constants, answers of primitives and
parameters are objects): `ListOfBlocks`, `ClosedTraces`, `TypeInvariant`, `Constants`, `Refinement`. The traces may have
any length. Five invariants, each established with the help of those before it:

- `Traces`: while a trace is recorded each item is an instruction the interpreter has carried out (`ItemOK`), and after
  each comes the next in the program or one the recorder does not know (`Onward`); once sorted, addresses ascend.
- `Blocked`: the list of blocks is ascending, and holds exactly the first address and the destinations in the trace of
  the items looked at so far. With every item looked at this is `BlocksExact`.
- `Prepared`: the code is `Laid` or `Spoilt`. In `Laid` code each instruction comes from an item of its block
  (`MadeFrom`), a block begins with the item at its address and goes on with the items that follow one another, ends
  in its only terminator or is the one being filled. `Spoilt` code has an instruction behind a terminator, stays so, and
  is refused by LLVM. The split is needed because a bailout moves the builder (see
  [below](#where-code-and-documentation-disagree)): nothing better is true of such code. `Compiles` says that a trace with
  both sides of each branch never gets there, which is `ClosedTracesCompile`.
- `Runs`: while the code runs, the next instruction is in it (`Pointed`); what the activation wrote, items of the trace
  write (`Written`); a register whose single writer is a constant holds it (`Steady`, hence `ConstantsAgree`);
  and the parameter passed is the activation's until a primitive is called.
- `Settled`: while the interpreter's behaviour is owed each local has been set to one value at most,
  and its slot holds it. So the first value, which the interpreter finds, is the last one, which compiled code loads.

`Refinement` is `Implements`. `Mapped` is the interpreter's activation as the native state shows it: general registers
that were assigned are the slots (`Mirror`), the address is that of the item the native instruction comes from
(`Address`). From a call to the return, each native instruction but a continuation branch is one of `Subroutine`'s
steps, with one lemma per kind of instruction; a continuation, and everything before the code runs, is a stutter. When an
activation meets something `InScope` excludes, `owed` becomes false, and the mapped state leaves, as `Subroutine` allows.

**Only model-checked.** `OperationsReturn` is liveness, which the prover does not do. All other properties of the passing
runs are stated by a theorem.

## Where code and documentation disagree

Each is a run TLC refutes; the line that is contradicted is quoted in `PROJECT.json`.

- `objstruct_last`: a lookup does not answer what was set last. A second `set` of a key, and `delete`, add a pair, and
  the search ends at the leftmost, the earlier one. `src/object.c:326`. The same property fails in a
  second way: a binary search over a *heap* that is not sorted misses keys, such as 3 after 1, 2, 4, 3.
  `src/object.c:349`.
- `vm_top`: a handler in an outer frame runs with the frame that threw still on top. `src/vm-dispatch.include.c:689`.
- `gc1_globals`: globals are no roots. `src/gc1.c:193`.
- `gc1_tied`: when the object space grows and `realloc` moves the array, `obj->entry` of each object tracked before points
  into the old one. `src/gc1.c:218`. The property also fails after a compaction with an object at an address that ends in
  a zero byte, whose entry `entry_is_null` takes for a free one. `src/gc1.c:136`.
- `loader_call`: a call by a label defined further down is patched at offset 7 instead of 4; the address is not set and
  the bytes behind are overwritten. `src/generator.c:434`.
- `tracer_current`: growing the sequence of a trace leaves `current_item` in the memory it had.
  `src/jit-tracer.c:29`.
- `jit_bailout`: building a bailout block moves the builder, so the IF's branch ends up behind the bailout's return; a
  trace with one side of a branch missing aborts the process. `src/jit-compiler.c:592`.

Other disagreements have no run of their own, because the behaviour is plain in a definition the passing runs use:

- `hvm_vm_copy_regs` never advances its index: one argument is passed and `$pn` is 1, where `manual/notes.md:55`
  promises the number of parameters (`CopiedRegs` in `VM`). `src/vm.c:336`.
- `hvm_gen_if` produces the layout of CATCH (`Emitted` and `Overread` in `Generator`). `src/generator.c:611`.
- the comment on heat says 8 bits, the cap compares with 1024: heat wraps (`ProcessTag`). `src/vm.c:439`.

The passing properties are stated so that these cases are excluded by name and nothing else is: `InstructionsDecode`
leaves out `hvm_gen_if`, `hvm_gen_set_integer` (the loader turns its constant into `hvm_const_null` with a message on
stderr) and chunks with a forward `call_label`; `DebugFound` leaves out programs with an entry that ends before address
0 (`CoversAll`: the end wraps to 2^64 - 1 and the entry covers everything); `NoDangling` speaks of registers, locals and
tracked objects and not of globals or `vm->exception`, and with `NoGarbageLeft` of the time until an object is cut off;
`EntriesTied` leaves out objects cut off and pointers into an array that was moved; `ReturnSites`, `BacktraceLinks` and
`OwnState` the states after a call that overran the stack; `AscendingFindsKey` ids out of order or stored twice.

## Left out

- LLVM, GLib, Lua: external libraries; of LLVM the part of its verifier and of basic blocks that the compiler can get
  wrong is in `JIT`. Optimisation passes, and the declarations of functions and types, are left out. The debugger is an
  interactive console, compiled in only for debugging.
- Opcodes without a body (STRUCTHAS, GETEXCEPTIONDATA) and unknown opcodes.
- The object reference pool and the zone allocator: present in the source, called by nothing modelled here.
- The disassembler (`hvm_chunk_disassemble`), the dump of a trace, backtrace and value printing: output only.
- Contents of containers and values of arithmetic in `VM` and `Tracer` (`Activation` has them); wording of messages.
- Execution after a bailout: no trace that needs one compiles, so none is ever run.
