--------------------------------- MODULE Tracer ---------------------------------
(***************************************************************************)
(* The trace recorder (jit-tracer.c) and the part of the interpreter that  *)
(* starts it and runs what was compiled (hvm_dispatch_frame, the call      *)
(* tags), composed with module VM: every step is one instruction of VM     *)
(* together with what the recorder does before and after it, or a call     *)
(* answered by compiled code.                                              *)
(*                                                                         *)
(* is_tracing is set when a trace begins and never reset, so there is one  *)
(* trace in the life of a VM; traces_length stays 0 and the trace is       *)
(* vm->traces[1].  What compiled code does is module JIT's; here it        *)
(* returns an object or the process ends.                                  *)
(***************************************************************************)
EXTENDS VM, Sequences

CONSTANTS
  Threshold,        \* HVM_TRACE_THRESHOLD
  HeatCap,          \* 1024 in INCREMENT_TAG_HEAT
  HeatBits,         \* bits of the heat in a tag, 8
  InitialCapacity   \* HVM_TRACE_INITIAL_SEQUENCE_SIZE

ASSUME TracerAssumption ==
  /\ Threshold \in Nat /\ HeatCap \in Nat /\ HeatBits \in Nat \ {0}
  /\ InitialCapacity \in Nat \ {0}

VARIABLES
  heat, index,      \* the subroutine tag at each address
  always,           \* vm->always_trace
  is_tracing,       \* vm->is_tracing
  loop,             \* the dispatch loop, "plain" or "jit"
  ftrace,           \* which frames' trace is not NULL
  trace             \* the trace, NULL before there is one

tvars == <<heat, index, always, is_tracing, loop, ftrace, trace>>

\* buf tells the memory sequence points to, one more with each move; current_item is
\* that memory and a position.  saw, seen and act are history: the outcome an item last
\* had, the addresses with a known instruction run with the frame on top, and the
\* activation the frame was made for.
NewTrace(entry, caller_tag) ==
  [act |-> calls + 1, entry |-> entry, caller_tag |-> caller_tag, sequence |-> << >>, capacity |-> InitialCapacity,
   buf |-> 0, current_item |-> <<0, 0>>, complete |-> FALSE, seen |-> {}]

\* hvm_new_vm leaves always_trace as it finds it.
TInit ==
  /\ Init
  /\ heat = [a \in Addr |-> 0] /\ index = [a \in Addr |-> 0]
  /\ always \in BOOLEAN /\ is_tracing = FALSE /\ loop = "plain"
  /\ ftrace = [d \in 0 .. StackSize - 1 |-> FALSE]
  /\ trace = NULL

--------------------------------------------------------------------------------
\* An instruction is carried out, and is no call that overruns the stack.
Fetched == status = "running" /\ Executable /\ ~Overruns
Tracing == Fetched /\ loop = "jit" /\ ftrace[depth]

\* PROCESS_TAG: hvm_dispatch_frame sees the heat before it is cut to its bits.
Tagged == SubCalls \cup {"tailcall", "callprimitive"}
Heat == IF heat[ip] # HeatCap THEN heat[ip] + 1 ELSE heat[ip]
ProcessTag_mUncut == heat' = IF Fetched /\ I.op \in Tagged THEN [heat EXCEPT ![ip] = Heat] ELSE heat
ProcessTag == heat' = IF Fetched /\ I.op \in Tagged
                      THEN [heat EXCEPT ![ip] = Heat % 2 ^ HeatBits] ELSE heat

\* hvm_dispatch_frame, which only CALLSYMBOLIC asks
Path ==
  IF ~Fetched \/ I.op # "callsymbolic" \/ ~(Heat > Threshold \/ always) THEN "interpret"
  ELSE IF index[ip] > 0 THEN "compiled"
  ELSE IF ~is_tracing THEN "trace" ELSE "interpret"

--------------------------------------------------------------------------------
\* Instructions hvm_jit_call_trace_push_instruction knows, and those that are
\* annotated when they have been carried out.  "set" is SETSTRING and SETSYMBOL, "math"
\* ADD, EQ, GT and LT; the other operations of VM's actions are unknown like "div".
Known == {"set", "invokeprimitive", "return", "if", "goto", "math", "and", "arrayset", "arrayget",
          "arraylen", "arraypush", "move", "litinteger", "getlocal", "setlocal", "getglobal",
          "setglobal"}
Annotated == {"if", "setlocal", "getlocal", "invokeprimitive"}

\* An annotation: which way a branch went, the symbol of a local.
Notes == {NULL} \cup ({"falsey", "truthy", "returned"} \X {0}) \cup ({"symbol"} \X Syms)
Item == [ip : Addr, op : Known, note : Notes, saw : Notes]
Trace == [act : Nat, entry : Addr, caller_tag : Addr, sequence : Seq(Item), capacity : Nat,
          buf : Nat, current_item : Nat \X Nat, complete : BOOLEAN, seen : SUBSET Addr]

ASSUME TraceAssumption == NULL \notin Trace

\* hvm_jit_call_trace_find_ip
Found_mNever == {n \in DOMAIN trace.sequence : FALSE}
Found == {n \in DOMAIN trace.sequence : trace.sequence[n].ip = ip}
End == Len(trace.sequence) + 1                  \* where a new item goes
Pushes == Tracing /\ Found = {} /\ I.op \in Known

\* hvm_jit_call_trace_check_expand_capacity, once the item is counted
Grows_mLate == Pushes /\ End > trace.capacity
Grows == Pushes /\ End >= trace.capacity

NewItem == LET note == IF I.op = "if" THEN <<"falsey", 0>> ELSE NULL
           IN [ip |-> ip, op |-> I.op, note |-> note, saw |-> note]

\* hvm_jit_call_trace_push_instruction; realloc may have moved the sequence.
Push(moved) ==
  [trace EXCEPT
     !.sequence = IF Pushes THEN Append(@, NewItem) ELSE @,
     !.current_item = <<trace.buf, IF Found = {} THEN End ELSE CHOOSE n \in Found : TRUE>>,
     !.capacity = IF Grows THEN 2 * @ ELSE @,
     !.buf = IF moved THEN @ + 1 ELSE @,
     !.complete = @ \/ (Pushes /\ I.op = "return"),
     !.seen = IF I.op \in Known THEN @ \cup {ip} ELSE @]

\* What the annotation says, and whether the instruction gets to it.
Note ==
  CASE I.op = "if" -> <<IF Falsey(Read(I.a)) THEN "falsey" ELSE "truthy", 0>>
    [] I.op = "setlocal" -> <<"symbol", Read(I.a).v>>
    [] I.op = "getlocal" -> <<"symbol", Read(I.b).v>>
    [] I.op = "invokeprimitive" -> <<"returned", 0>>
Succeeds ==
  /\ I.op \in Annotated /\ status' = "running"
  /\ I.op \in {"getlocal", "invokeprimitive"} => stack' = Here

\* The annotation is written through current_item: not to the sequence if it moved.
Annotate_mKeepsFirst(t) ==
  LET n == t.current_item[2]
  IN [t EXCEPT !.sequence[n].saw = Note,
               !.sequence[n].note = IF t.current_item[1] = t.buf /\ @ = NULL THEN Note ELSE @]
Annotate(t) ==
  LET n == t.current_item[2]
  IN [t EXCEPT !.sequence[n].saw = Note,
               !.sequence[n].note = IF t.current_item[1] = t.buf THEN Note ELSE @]

\* A complete trace is vm->traces[1], and the tag of its call says 2.
Register_mBeforeReturn ==
  index' = IF Pushes THEN [index EXCEPT ![trace.caller_tag] = 2] ELSE index
Register ==
  index' = IF Pushes /\ I.op = "return" THEN [index EXCEPT ![trace.caller_tag] = 2] ELSE index

Recorder ==
  IF Tracing
  THEN \E moved \in BOOLEAN :
         /\ moved => Grows
         /\ trace' = IF Succeeds THEN Annotate(Push(moved)) ELSE Push(moved)
  ELSE trace' = IF Path = "trace" THEN NewTrace(Target, ip) ELSE trace

\* hvm_frame_initialize clears a frame's trace; hvm_dispatch_frame sets it.
FrameTraces_mKept ==
  ftrace' = IF Fetched /\ I.op \in SubCalls /\ Path = "trace"
            THEN [ftrace EXCEPT ![depth + 1] = TRUE]
            ELSE ftrace
FrameTraces_mTailCall ==
  ftrace' = IF Fetched /\ I.op \in SubCalls
            THEN [ftrace EXCEPT ![depth + 1] = (Path = "trace")]
            ELSE ftrace
FrameTraces ==
  ftrace' = IF ~Fetched THEN ftrace
            ELSE IF I.op \in SubCalls THEN [ftrace EXCEPT ![depth + 1] = (Path = "trace")]
            ELSE IF I.op = "tailcall" THEN [ftrace EXCEPT ![depth] = FALSE]
            ELSE ftrace

\* RETURN looks at the type of what it returns, and the annotations at the type of
\* an item that may be in memory already freed.
Derails ==
  /\ Tracing
  /\ \/ Pushes /\ I.op = "return" /\ Read(I.a) = NULL
     \/ Grows /\ I.op \in Annotated
RecorderFails ==
  /\ Derails
  /\ status' = "crashed"
  /\ UNCHANGED <<program, ip, depth, stack, regs, globals, exception, calls, codeFrame, tvars>>

\* An instruction in either loop.  The jit loop is entered with the first trace and
\* not left again.
Step ==
  /\ Path # "compiled"
  /\ ~(Tracing /\ Pushes /\ I.op = "return" /\ Read(I.a) = NULL)
  /\ Next
  /\ ProcessTag /\ Register /\ Recorder /\ FrameTraces
  /\ is_tracing' = (is_tracing \/ Path = "trace")
  /\ loop' = IF Path = "trace" THEN "jit" ELSE loop
  /\ UNCHANGED always

--------------------------------------------------------------------------------
\* Every IF of the trace has both its sides there (JIT, BailoutsCompile).
BothSides ==
  \A n \in DOMAIN trace.sequence :
    LET item == trace.sequence[n]
    IN item.op = "if" => {item.ip + 1, program[item.ip].dest} \subseteq trace.seen
Items == {program[trace.sequence[n].ip] : n \in DOMAIN trace.sequence}
Calls == \E i \in Items : i.op = "invokeprimitive"

\* Compiling aborts, or the code fails or ends in a primitive.
CompiledFails ==
  /\ Path = "compiled"
  /\ status' \in {"crashed"} \cup (IF Calls THEN {"ended"} ELSE {})
  /\ UNCHANGED <<program, ip, depth, stack, regs, globals, exception, calls, codeFrame, tvars>>

\* What compiled code may leave in a register: it stores into argument registers, and
\* a primitive call moves the first argument to the first parameter.
P0 == <<"param", 0>>
Stored == {r \in ArgRegs : \E i \in Items : r \in {i.a, i.b}}
Leaves(r) ==
  IF r \in Stored \/ (r = P0 /\ Calls /\ <<"arg", 0>> \in Stored) THEN AnyObject \cup {NULL}
  ELSE IF r = P0 /\ Calls THEN {CopiedRegs[r], NULL}
  ELSE {CopiedRegs[r]}

\* The code returns and the frame made for it is popped.  An exception raised by a
\* primitive in it stays, and nothing looks at it.
CompiledReturns ==
  /\ Path = "compiled" /\ BothSides /\ calls < MaxCalls
  /\ \E val \in AnyObject \cup {NULL}, left \in [Stored \cup {P0} -> AnyObject \cup {NULL, CopiedRegs[P0]}] :
       /\ \A r \in DOMAIN left : left[r] \in Leaves(r)
       /\ Write([r \in Reg |-> IF r \in DOMAIN left THEN left[r] ELSE CopiedRegs[r]], I.b, val)
  /\ \/ UNCHANGED exception
     \/ Calls /\ exception' = StructAt(ip)
  /\ stack' = [Here EXCEPT ![depth + 1] = NewFrame(ip + 1, I.b, calls + 1, codeFrame)]
  /\ ip' = ip + 1 /\ calls' = calls + 1
  /\ ProcessTag /\ FrameTraces
  /\ UNCHANGED <<program, depth, globals, codeFrame, index, always, is_tracing, loop, trace>>

TNext == Step \/ RecorderFails \/ CompiledFails \/ CompiledReturns

TSpec == TInit /\ [][TNext]_<<vars, tvars>>

--------------------------------------------------------------------------------
\* Type invariant.
TraceTypeOK ==
  /\ heat \in [Addr -> 0 .. 2 ^ HeatBits - 1] /\ index \in [Addr -> {0, 2}]
  /\ always \in BOOLEAN /\ is_tracing \in BOOLEAN /\ loop \in {"plain", "jit"}
  /\ ftrace \in [0 .. StackSize - 1 -> BOOLEAN]
  /\ trace \in Trace \cup {NULL}

\* There is room for the next item, which push_instruction writes to before it looks
\* at the capacity.
RoomForItem == trace # NULL => Len(trace.sequence) < trace.capacity

\* However often the activation comes by an instruction, and through calls and
\* exceptions, the sequence has it once: exactly the known instructions run with the
\* traced frame on top.
RecordedOnce ==
  trace # NULL =>
    /\ \A m, n \in DOMAIN trace.sequence : trace.sequence[m].ip = trace.sequence[n].ip => m = n
    /\ {trace.sequence[n].ip : n \in DOMAIN trace.sequence} = trace.seen

\* Annotations tell what the instruction did last, but for the items whose push made
\* the sequence grow.
Boundary(n) == \E j \in 0 .. n : n = InitialCapacity * 2 ^ j
NotesCurrent ==
  trace # NULL =>
    \A n \in DOMAIN trace.sequence :
      trace.sequence[n].note = trace.sequence[n].saw \/ Boundary(n)

\* The frame that is recorded is that of the activation the trace began with, and none
\* is once the trace is complete: no other activation that comes to use the frame's
\* slot, by a call, a tail call or after an exception, inherits the trace.
OneRecorder ==
  InStack => \A d \in 0 .. depth :
    ftrace[d] => trace # NULL /\ ~trace.complete /\ stack[d].act = trace.act

\* A trace does not change once it is complete and may be compiled.
CompleteIsFinal == [][(trace # NULL /\ trace.complete) => trace' = trace]_<<vars, tvars>>

\* A tag with an index belongs to a call of the subroutine that was traced, and leads
\* to a trace that ends in RETURN (hvm_dispatch_frame asserts that it is complete).
IndexSound ==
  \A a \in Addr : index[a] > 0 =>
    /\ trace # NULL /\ trace.complete /\ trace.caller_tag = a
    /\ program[a].op = "callsymbolic" /\ SymbolTable[ConstPool[program[a].dest].v] = trace.entry
    /\ trace.sequence[Len(trace.sequence)].op = "return"

\* jit-tracer.h, "Current item in the sequence that is being traced": current_item
\* points into the memory the sequence is in.
CurrentInSequence == trace # NULL => trace.current_item[1] = trace.buf
================================================================================
