------------------------------ MODULE TracerProofs ------------------------------
(***************************************************************************)
(* Theorems about Tracer, for every program, threshold, heat width and     *)
(* initial capacity of a trace.                                            *)
(***************************************************************************)
EXTENDS Tracer, VMProofs, Numbers

--------------------------------------------------------------------------------
(* The interpreter under the recorder: VM's invariant, and activations. *)

\* A process that ends keeps its state.
LEMMA EndStep ==
  ASSUME Inv, status' \in {"crashed", "ended"},
         UNCHANGED <<program, ip, depth, stack, regs, globals, exception, calls, codeFrame>>
  PROVE  Inv'
  <1>1. Typed'
    BY DEF Inv, Typed, StateOK, InStack
  <1>2. Frames'
    BY DEF Inv, Frames, ReturnSites, BacktraceLinks, OwnState, NoCatch, Typed, InStack
  <1> QED
    BY <1>1, <1>2 DEF Inv

\* The registers that compiled code leaves are registers of a VM.
LEMMA LeavesFacts ==
  ASSUME Typed, ip \in Addr, NEW left, DOMAIN left = Stored \cup {P0},
         left \in [Stored \cup {P0} -> AnyObject \cup {NULL, CopiedRegs[P0]}]
  PROVE  RegsOK([r \in Reg |-> IF r \in DOMAIN left THEN left[r] ELSE CopiedRegs[r]])
  <1>1. RegsOK(CopiedRegs)
    BY CopiedRegsFacts DEF RegsOK
  <1>2. P0 \in Reg
    BY VMAssumption DEF VMAssumption, P0, Reg, ParamRegs
  <1>3. ip \in Nat /\ AnyObject \subseteq Value
    BY AnyObjectFacts DEF Typed, StateOK, InStack
  <1>4. CopiedRegs[P0] \in Value \cup {NULL}
    BY <1>1, <1>2 DEF RegsOK
  <1>5. \A r \in DOMAIN left : left[r] \in Value \cup {NULL}
    BY <1>3, <1>4
  <1>6. ZeroReg \notin DOMAIN left /\ NullReg \notin DOMAIN left
    BY DEF Stored, ArgRegs, P0, ZeroReg, NullReg
  <1>7. ZeroReg \in Reg /\ NullReg \in Reg
    BY DEF Reg
  <1> HIDE DEF CopiedRegs
  <1> QED
    BY <1>1, <1>5, <1>6, <1>7 DEF RegsOK

\* A call that compiled code answers leaves the frames of the callers as they were.
LEMMA CompiledFrames ==
  ASSUME Inv, CompiledReturns
  PROVE  /\ ip \in Addr /\ depth + 1 \in Slots /\ UNCHANGED <<program, depth>>
         /\ stack' \in [Slots -> Frame]
         /\ \A d \in 0 .. depth : stack'[d] = Here[d]
  <1>1. depth \in Slots /\ depth \in Nat /\ 0 .. depth \subseteq Slots /\ StackSize \in Nat
    BY SlotFacts DEF Inv
  <1>2. Fetched /\ I.op = "callsymbolic"
    BY DEF CompiledReturns, Path
  <1>3. ip \in Addr /\ depth + 1 \in Slots
    BY <1>1, <1>2 DEF Fetched, Executable, Overruns, SubCalls, Slots
  <1>4. ip \in Nat /\ I.b \in Reg /\ calls \in Nat /\ codeFrame \in Nat
    BY <1>3, Fetch DEF Inv, Typed, StateOK, InStack
  <1>5. NewFrame(ip + 1, I.b, calls + 1, codeFrame) \in Frame
    <2>1. ip + 1 \in Nat /\ calls + 1 \in Nat
      BY <1>4
    <2> QED
      BY <1>4, <2>1, NewFrameFacts
  <1>6. stack' = [Here EXCEPT ![depth + 1] = NewFrame(ip + 1, I.b, calls + 1, codeFrame)]
    BY DEF CompiledReturns
  <1>7. \A d \in 0 .. depth : d \in Slots \ {depth + 1}
    BY <1>1
  <1> HIDE DEF NewFrame, Here
  <1>8. Here \in [Slots -> Frame]
    BY HereFacts DEF Inv
  <1> QED
    BY <1>3, <1>5, <1>6, <1>7, <1>8 DEF CompiledReturns

LEMMA CompiledStep ==
  ASSUME Inv, CompiledReturns
  PROVE  Inv'
  <1>1. /\ ip \in Addr /\ depth + 1 \in Slots /\ UNCHANGED <<program, depth>>
        /\ stack' \in [Slots -> Frame]
        /\ \A d \in 0 .. depth : stack'[d] = Here[d]
    BY CompiledFrames
  <1>2. depth \in Nat /\ 0 .. depth \subseteq Slots
    BY SlotFacts DEF Inv
  <1>3. ip \in Nat /\ I.b \in Reg /\ StructAt(ip) \in Value /\ AnyObject \subseteq Value
    BY <1>1, Fetch, AnyObjectFacts DEF Inv
  <1>4. PICK val \in AnyObject \cup {NULL},
             left \in [Stored \cup {P0} -> AnyObject \cup {NULL, CopiedRegs[P0]}] :
          Write([r \in Reg |-> IF r \in DOMAIN left THEN left[r] ELSE CopiedRegs[r]], I.b, val)
    BY DEF CompiledReturns
  <1>5. RegsOK([r \in Reg |-> IF r \in DOMAIN left THEN left[r] ELSE CopiedRegs[r]])
    BY <1>1, LeavesFacts DEF Inv
  <1>6. RegsOK(regs)' /\ status' \in {"running", "crashed"}
    <2>1. val \in Value \cup {NULL}
      BY <1>3
    <2> HIDE DEF Stored, AnyObject, CopiedRegs
    <2> QED
      BY <1>3, <1>4, <1>5, <2>1, WriteFacts DEF RegsOK
  <1>7. /\ ip' = ip + 1 /\ calls' = calls + 1 /\ UNCHANGED <<globals, codeFrame>>
        /\ exception' \in Value \cup {NULL}
    BY <1>3 DEF CompiledReturns, Inv, Typed, StateOK, InStack
  <1>8. Typed'
    BY <1>1, <1>3, <1>6, <1>7 DEF Inv, Typed, StateOK, InStack, RegsOK, Slots
  <1>9. ReturnSites' /\ BacktraceLinks'
    <2>1. \A d \in 0 .. depth - 1 : d \in Slots \ {depth} /\ d \in 0 .. depth
      BY <1>2
    <2> QED
      BY <1>1, <1>2, <2>1, HereFacts, LinksKept DEF Inv, Frames
  <1>10. OwnState'
    BY <1>1, <1>2, HereFacts DEF Inv, Frames, OwnState, NoCatch, Typed, InStack
  <1> QED
    BY <1>8, <1>9, <1>10 DEF Inv, Frames

\* What an instruction does to the stack of activations: a call adds one, a tail call
\* replaces the top one, RETURN removes it and nothing else touches them.
Pushed ==
  /\ Fetched /\ I.op \in SubCalls
  /\ depth' = depth + 1 /\ depth + 1 \in Slots /\ stack'[depth + 1].act = calls + 1
  /\ \A d \in 0 .. depth : stack'[d].act = stack[d].act
Replaced ==
  /\ Fetched /\ I.op = "tailcall"
  /\ depth' = depth
  /\ \A d \in 0 .. depth : d # depth => stack'[d].act = stack[d].act
Stays ==
  /\ Fetched => I.op \notin SubCalls \cup {"tailcall"} /\ (I.op = "return" => depth = 0)
  /\ depth' = depth
  /\ \A d \in 0 .. depth : stack'[d].act = stack[d].act
Popped ==
  /\ Fetched /\ I.op = "return" /\ depth > 0
  /\ depth' = depth - 1
  /\ \A d \in 0 .. depth : stack'[d].act = stack[d].act

LEMMA HereActs ==
  ASSUME Inv, stack' = Here
  PROVE  \A d \in 0 .. depth : stack'[d].act = stack[d].act
  BY SlotFacts, HereFacts DEF Inv

LEMMA RaiseActs ==
  ASSUME Inv, NEW exc, NEW rs, Raise(exc, rs)
  PROVE  depth' = depth /\ \A d \in 0 .. depth : stack'[d].act = stack[d].act
  <1>1. CASE GiveUp("uncaught", exc, rs)
    BY <1>1, HereActs DEF GiveUp
  <1>2. ASSUME NEW d \in Catching, ResumeIn(d, exc, rs)
        PROVE  depth' = depth /\ \A e \in 0 .. depth : stack'[e].act = stack[e].act
    <2>1. Typed /\ depth' = depth
      BY <1>2 DEF Inv, ResumeIn
    <2>2. \A e \in Slots : Here[e].act = stack[e].act
      BY <2>1, HereFacts
    <2>3. \A e \in Slots : stack'[e].act = Here[e].act
      BY <1>2, <2>1, ResumeFrames
    <2> HIDE DEF Here
    <2> QED
      BY <2>1, <2>2, <2>3, SlotFacts
  <1> QED
    BY <1>1, <1>2 DEF Raise

LEMMA StackStep ==
  ASSUME Inv, Next, ~Overrun
  PROVE  program' = program /\ (Pushed \/ Replaced \/ Stays \/ Popped)
  <1>0. depth \in Nat /\ depth \in Slots /\ 0 .. depth \subseteq Slots /\ StackSize \in Nat
    BY SlotFacts DEF Inv
  <1>p. program' = program
    BY DEF Next, Crash, Noop, Die, Branch, Assign, Math, Call, TailCall, Return, CallPrimitive,
           Catch, ClearCatch, ClearException, SetException, Throw, SetLocal, GetLocal,
           SetGlobal, GetGlobal, Symbolicate, StoreElement, LoadElement, Executes
  <1>1. CASE Crash
    BY <1>1 DEF Crash, Fetched, Stays
  <1>2. CASE Call
    <2>1. Fetched /\ I.op \in SubCalls /\ depth' = depth + 1 /\ depth + 1 \in Slots
      BY <1>0, <1>2 DEF Call, Executes, Fetched, Executable, Overruns, Slots
    <2>2. stack' = [Here EXCEPT ![depth + 1] = NewFrame(ip + 1, I.b, calls + 1, codeFrame)]
      BY <1>2 DEF Call
    <2>3. Here \in [Slots -> Frame] /\ \A d \in Slots : Here[d].act = stack[d].act
      BY HereFacts DEF Inv
    <2>4. \A d \in 0 .. depth : d # depth + 1
      BY <1>0
    <2>5. stack'[depth + 1].act = calls + 1
      BY <2>1, <2>2, <2>3 DEF NewFrame
    <2> HIDE DEF Here, NewFrame
    <2>6. \A d \in 0 .. depth : stack'[d].act = stack[d].act
      BY <1>0, <2>2, <2>3, <2>4
    <2> QED
      BY <1>p, <2>1, <2>5, <2>6 DEF Pushed
  <1>3. CASE TailCall
    BY <1>0, <1>3, <1>p DEF TailCall, Executes, Fetched, Overruns, SubCalls, Replaced, Inv, Typed, StateOK, InStack, Slots
  <1>4. CASE Return
    <2>1. Fetched /\ I.op = "return"
      BY <1>4 DEF Return, Executes, Fetched, Overruns, SubCalls
    <2>2. CASE depth = 0
      BY <1>4, <1>p, <2>1, <2>2, RaiseActs DEF Return, RaiseNew, Stays, SubCalls
    <2>3. CASE depth # 0
      BY <1>0, <1>4, <1>p, <2>1, <2>3, HereActs DEF Return, Popped
    <2> QED
      BY <2>2, <2>3
  <1>5. CASE Catch \/ ClearCatch
    <2>1. \E a, r, n : stack' = [Here EXCEPT ![depth].catch_addr = a, ![depth].catch_register = r,
                                             ![depth].catch_act = n]
      BY <1>5 DEF Catch, ClearCatch
    <2>2. Here \in [Slots -> Frame] /\ \A d \in Slots : Here[d].act = stack[d].act
      BY HereFacts DEF Inv
    <2> HIDE DEF Here
    <2>3. \A d \in 0 .. depth : stack'[d].act = stack[d].act
      BY <1>0, <2>1, <2>2 DEF Frame
    <2> QED
      BY <1>5, <1>p, <2>3 DEF Catch, ClearCatch, Executes, Stays, SubCalls
  <1>6. CASE SetLocal
    <2>1. \E b : stack' = [Here EXCEPT ![depth].locals[Read(I.a).v] = @ \cup {b}]
      BY <1>6 DEF SetLocal
    <2>2. Here \in [Slots -> Frame] /\ \A d \in Slots : Here[d].act = stack[d].act
      BY HereFacts DEF Inv
    <2> HIDE DEF Here
    <2>3. \A d \in 0 .. depth : stack'[d].act = stack[d].act
      BY <1>0, <2>1, <2>2 DEF Frame
    <2> QED
      BY <1>6, <1>p, <2>3 DEF SetLocal, Executes, Stays, SubCalls
  <1>7. CASE Noop \/ Die \/ Branch \/ Assign \/ ClearException \/ SetGlobal \/ GetGlobal
    <2>1. /\ stack' = Here /\ depth' = depth
          /\ I.op \notin SubCalls \cup {"tailcall", "return"}
      BY <1>7
      DEF Noop, Die, Branch, Assign, ClearException, SetGlobal, GetGlobal, Continue, GoTo, Halt,
          Executes, SubCalls
    <2> QED
      BY <1>p, <2>1, HereActs DEF Stays
  <1>8. CASE Math \/ SetException \/ Throw \/ GetLocal \/ CallPrimitive \/ Symbolicate
             \/ StoreElement \/ LoadElement
    <2>1. I.op \notin SubCalls \cup {"tailcall", "return"}
      BY <1>8
      DEF Math, SetException, Throw, GetLocal, CallPrimitive, Symbolicate, StoreElement,
          LoadElement, Executes, SubCalls
    <2>2. (stack' = Here /\ depth' = depth) \/ \E exc, rs : Raise(exc, rs)
      BY <1>8
      DEF Math, SetException, Throw, GetLocal, CallPrimitive, Symbolicate, StoreElement,
          LoadElement, RaiseNew, RaiseOwn, GiveUp, Continue, GoTo, Halt
    <2> QED
      BY <1>p, <2>1, <2>2, HereActs, RaiseActs DEF Stays
  <1> QED
    BY <1>1, <1>2, <1>3, <1>4, <1>5, <1>6, <1>7, <1>8, <1>p DEF Next

--------------------------------------------------------------------------------
(* The recorder. *)

LEMMA NoteFacts ==
  ASSUME Typed, Fetched, I.op \in Annotated
  PROVE  Note \in Notes
  <1>1. ip \in Addr /\ ~BadOperand
    BY DEF Fetched, Executable
  <1>2. Read(I.a) \in Value \cup {NULL} /\ Read(I.b) \in Value \cup {NULL}
    BY <1>1, Fetch
  <1>3. CASE I.op = "if"
    BY <1>3 DEF Note, Notes
  <1>4. CASE I.op = "setlocal"
    <2>1. Read(I.a).v \in Syms
      BY <1>1, <1>2, <1>4 DEF BadOperand, Is, Value
    <2> QED
      BY <1>4, <2>1 DEF Note, Notes
  <1>5. CASE I.op = "getlocal"
    <2>1. Read(I.b).v \in Syms
      BY <1>1, <1>2, <1>5 DEF BadOperand, Is, Value
    <2> QED
      BY <1>5, <2>1 DEF Note, Notes
  <1>6. CASE I.op = "invokeprimitive"
    BY <1>6 DEF Note, Notes
  <1> QED
    BY <1>3, <1>4, <1>5, <1>6 DEF Annotated

\* A sequence of items, and its indices.
LEMMA SequenceFacts ==
  ASSUME NEW t \in Trace
  PROVE  /\ t.sequence \in Seq(Item) /\ Len(t.sequence) \in Nat
         /\ DOMAIN t.sequence = 1 .. Len(t.sequence)
         /\ \A n \in DOMAIN t.sequence : t.sequence[n] \in Item
  BY DEF Trace

\* hvm_jit_call_trace_push_instruction: the fields of the trace after it.
LEMMA PushFacts ==
  ASSUME Typed, Tracing, trace \in Trace, NEW moved \in BOOLEAN, NEW t, t = Push(moved)
  PROVE  /\ t \in Trace
         /\ t.act = trace.act /\ t.entry = trace.entry /\ t.caller_tag = trace.caller_tag
         /\ t.sequence = IF Pushes THEN Append(trace.sequence, NewItem) ELSE trace.sequence
         /\ t.current_item[1] = trace.buf
         /\ t.current_item[2] = IF Found = {} THEN End ELSE CHOOSE n \in Found : TRUE
         /\ t.capacity = IF Grows THEN 2 * trace.capacity ELSE trace.capacity
         /\ t.buf = IF moved THEN trace.buf + 1 ELSE trace.buf
         /\ t.complete = (trace.complete \/ (Pushes /\ I.op = "return"))
         /\ t.seen = IF I.op \in Known THEN trace.seen \cup {ip} ELSE trace.seen
  <1>1. ip \in Addr
    BY DEF Tracing, Fetched, Executable
  <1>2. /\ trace.sequence \in Seq(Item) /\ Len(trace.sequence) \in Nat
        /\ DOMAIN trace.sequence = 1 .. Len(trace.sequence)
    BY SequenceFacts
  <1> DEFINE at == IF Found = {} THEN End ELSE CHOOSE n \in Found : TRUE
             seq == IF Pushes THEN Append(trace.sequence, NewItem) ELSE trace.sequence
             cap == IF Grows THEN 2 * trace.capacity ELSE trace.capacity
             mem == IF moved THEN trace.buf + 1 ELSE trace.buf
             done == trace.complete \/ (Pushes /\ I.op = "return")
             set == IF I.op \in Known THEN trace.seen \cup {ip} ELSE trace.seen
  <1>3. at \in Nat
    BY <1>2 DEF Found, End
  <1>4. seq \in Seq(Item)
    <2>1. Pushes => NewItem \in Item
      BY <1>1 DEF Pushes, NewItem, Item, Notes
    <2> QED
      BY <1>2, <2>1
  <1>5. cap \in Nat /\ mem \in Nat
    BY DEF Trace
  <1>6. done \in BOOLEAN
    BY DEF Trace, Pushes
  <1>7. set \in SUBSET Addr
    BY <1>1 DEF Trace
  <1>8. t = [trace EXCEPT !.sequence = seq, !.current_item = <<trace.buf, at>>, !.capacity = cap,
                          !.buf = mem, !.complete = done, !.seen = set]
    BY DEF Push
  <1> HIDE DEF at, seq, cap, mem, done, set
  <1>9. /\ t \in Trace
        /\ t.act = trace.act /\ t.entry = trace.entry /\ t.caller_tag = trace.caller_tag
        /\ t.sequence = seq /\ t.current_item = <<trace.buf, at>> /\ t.capacity = cap
        /\ t.buf = mem /\ t.complete = done /\ t.seen = set
    <2>1. trace = [act |-> trace.act, entry |-> trace.entry, caller_tag |-> trace.caller_tag,
                   sequence |-> trace.sequence, capacity |-> trace.capacity, buf |-> trace.buf,
                   current_item |-> trace.current_item, complete |-> trace.complete,
                   seen |-> trace.seen]
      BY DEF Trace
    <2>2. t = [act |-> trace.act, entry |-> trace.entry, caller_tag |-> trace.caller_tag,
               sequence |-> seq, capacity |-> cap, buf |-> mem,
               current_item |-> <<trace.buf, at>>, complete |-> done, seen |-> set]
      BY <1>8, <2>1
    <2>3. /\ trace.act \in Nat /\ trace.entry \in Addr /\ trace.caller_tag \in Addr
          /\ <<trace.buf, at>> \in Nat \X Nat
      BY <1>3 DEF Trace
    <2> QED
      BY <1>3, <1>4, <1>5, <1>6, <1>7, <2>2, <2>3 DEF Trace
  <1> QED
    BY <1>9 DEF at, seq, cap, mem, done, set

\* The item push_instruction leaves current is that of the instruction.
LEMMA CurrentFacts ==
  ASSUME Typed, Tracing, trace \in Trace, NEW moved \in BOOLEAN, NEW t, t = Push(moved),
         I.op \in Known
  PROVE  /\ t.current_item[2] \in DOMAIN t.sequence
         /\ Pushes => t.current_item[2] = End
  <1>1. /\ t.sequence = IF Pushes THEN Append(trace.sequence, NewItem) ELSE trace.sequence
        /\ t.current_item[2] = IF Found = {} THEN End ELSE CHOOSE n \in Found : TRUE
    BY PushFacts
  <1>2. /\ trace.sequence \in Seq(Item) /\ Len(trace.sequence) \in Nat
        /\ DOMAIN trace.sequence = 1 .. Len(trace.sequence)
    BY SequenceFacts
  <1>3. CASE Found = {}
    <2>1. Pushes
      BY <1>3 DEF Pushes
    <2>2. DOMAIN t.sequence = 1 .. Len(trace.sequence) + 1
      BY <1>1, <1>2, <2>1
    <2> QED
      BY <1>1, <1>2, <1>3, <2>2 DEF End
  <1>4. CASE Found # {}
    BY <1>1, <1>4 DEF Pushes, Found
  <1> QED
    BY <1>3, <1>4

\* hvm_jit_call_trace annotations: only the current item changes, in what it notes.
LEMMA AnnotateFacts ==
  ASSUME NEW t \in Trace, NEW n, n = t.current_item[2], n \in DOMAIN t.sequence, Note \in Notes,
         NEW a, a = Annotate(t)
  PROVE  /\ a \in Trace
         /\ a.act = t.act /\ a.entry = t.entry /\ a.caller_tag = t.caller_tag
         /\ a.capacity = t.capacity /\ a.complete = t.complete /\ a.seen = t.seen
         /\ Len(a.sequence) = Len(t.sequence)
         /\ \A m \in DOMAIN t.sequence :
              /\ a.sequence[m].ip = t.sequence[m].ip /\ a.sequence[m].op = t.sequence[m].op
              /\ m # n => a.sequence[m] = t.sequence[m]
         /\ a.sequence[n].saw = Note
         /\ t.current_item[1] = t.buf => a.sequence[n].note = Note
  <1>1. /\ t.sequence \in Seq(Item) /\ DOMAIN t.sequence = 1 .. Len(t.sequence)
        /\ t.sequence[n] \in Item
    BY SequenceFacts
  <1> DEFINE note == IF t.current_item[1] = t.buf THEN Note ELSE t.sequence[n].note
             item == [t.sequence[n] EXCEPT !.saw = Note, !.note = note]
             seq == [t.sequence EXCEPT ![n] = item]
  <1>2. note \in Notes
    BY <1>1 DEF Item
  <1>3. /\ item \in Item /\ item.ip = t.sequence[n].ip /\ item.op = t.sequence[n].op
        /\ item.saw = Note /\ item.note = note
    BY <1>1, <1>2 DEF Item
  <1>4. a = [t EXCEPT !.sequence = seq]
    BY <1>1 DEF Annotate, Trace, Item
  <1> HIDE DEF item
  <1>5. seq \in Seq(Item) /\ Len(seq) = Len(t.sequence)
        /\ \A m \in DOMAIN t.sequence : seq[m] = IF m = n THEN item ELSE t.sequence[m]
    BY <1>1, <1>3
  <1> HIDE DEF seq
  <1>6. /\ a \in Trace /\ a.sequence = seq
        /\ a.act = t.act /\ a.entry = t.entry /\ a.caller_tag = t.caller_tag
        /\ a.capacity = t.capacity /\ a.complete = t.complete /\ a.seen = t.seen
    BY <1>4, <1>5 DEF Trace
  <1> QED
    BY <1>1, <1>3, <1>5, <1>6

\* What an instruction does to the trace of the frame on top.
Recorded ==
  /\ trace' \in Trace
  /\ trace'.act = trace.act /\ trace'.entry = trace.entry
  /\ trace'.caller_tag = trace.caller_tag
  /\ trace'.complete = (trace.complete \/ (Pushes /\ I.op = "return"))
  /\ trace'.capacity = IF Grows THEN 2 * trace.capacity ELSE trace.capacity
  /\ trace'.seen = IF I.op \in Known THEN trace.seen \cup {ip} ELSE trace.seen
  /\ Len(trace'.sequence) = IF Pushes THEN End ELSE Len(trace.sequence)
  /\ \A m \in DOMAIN trace.sequence :
       /\ trace'.sequence[m].ip = trace.sequence[m].ip
       /\ trace'.sequence[m].op = trace.sequence[m].op
  /\ Pushes => trace'.sequence[End].ip = ip /\ trace'.sequence[End].op = I.op
  /\ \A m \in DOMAIN trace'.sequence :
       \/ trace'.sequence[m].note = trace'.sequence[m].saw
       \/ m \in DOMAIN trace.sequence /\ trace.sequence[m].note # trace.sequence[m].saw
       \/ Grows /\ m = End

\* The items of the sequence push_instruction leaves.
LEMMA PushedItems ==
  ASSUME Typed, Tracing, trace \in Trace, NEW moved \in BOOLEAN, NEW t, t = Push(moved)
  PROVE  /\ Len(t.sequence) = IF Pushes THEN End ELSE Len(trace.sequence)
         /\ DOMAIN t.sequence = 1 .. Len(t.sequence)
         /\ \A m \in DOMAIN trace.sequence : m \in DOMAIN t.sequence /\ t.sequence[m] = trace.sequence[m]
         /\ Pushes => End \in DOMAIN t.sequence /\ t.sequence[End] = NewItem
         /\ \A m \in DOMAIN t.sequence : m \in DOMAIN trace.sequence \/ (Pushes /\ m = End)
  <1>1. t.sequence = IF Pushes THEN Append(trace.sequence, NewItem) ELSE trace.sequence
    BY PushFacts
  <1>2. /\ trace.sequence \in Seq(Item) /\ Len(trace.sequence) \in Nat
        /\ DOMAIN trace.sequence = 1 .. Len(trace.sequence)
    BY SequenceFacts
  <1> HIDE DEF NewItem
  <1>3. CASE Pushes
    BY <1>1, <1>2, <1>3 DEF End
  <1>4. CASE ~Pushes
    BY <1>1, <1>2, <1>4
  <1> QED
    BY <1>3, <1>4

LEMMA RecordFacts ==
  ASSUME Typed, Tracing, trace \in Trace, Recorder
  PROVE  Recorded
  <1>1. PICK moved \in BOOLEAN :
          /\ moved => Grows
          /\ trace' = IF Succeeds THEN Annotate(Push(moved)) ELSE Push(moved)
    BY DEF Recorder
  <1> DEFINE t == Push(moved)
  <1>2. /\ t \in Trace
        /\ t.act = trace.act /\ t.entry = trace.entry /\ t.caller_tag = trace.caller_tag
        /\ t.current_item[1] = trace.buf
        /\ t.capacity = IF Grows THEN 2 * trace.capacity ELSE trace.capacity
        /\ t.buf = IF moved THEN trace.buf + 1 ELSE trace.buf
        /\ t.complete = (trace.complete \/ (Pushes /\ I.op = "return"))
        /\ t.seen = IF I.op \in Known THEN trace.seen \cup {ip} ELSE trace.seen
    BY PushFacts
  <1>3. /\ Len(t.sequence) = IF Pushes THEN End ELSE Len(trace.sequence)
        /\ DOMAIN t.sequence = 1 .. Len(t.sequence)
        /\ \A m \in DOMAIN trace.sequence : m \in DOMAIN t.sequence /\ t.sequence[m] = trace.sequence[m]
        /\ Pushes => End \in DOMAIN t.sequence /\ t.sequence[End] = NewItem
        /\ \A m \in DOMAIN t.sequence : m \in DOMAIN trace.sequence \/ (Pushes /\ m = End)
    BY PushedItems
  <1>4. NewItem.ip = ip /\ NewItem.op = I.op /\ NewItem.note = NewItem.saw
    BY DEF NewItem
  <1>5. CASE ~Succeeds
    <2>1. trace' = t
      BY <1>1, <1>5
    <2>2. \A m \in DOMAIN t.sequence :
            \/ t.sequence[m].note = t.sequence[m].saw
            \/ m \in DOMAIN trace.sequence /\ trace.sequence[m].note # trace.sequence[m].saw
      BY <1>3, <1>4
    <2> HIDE DEF t, NewItem, Pushes, Grows
    <2> QED
      BY <1>2, <1>3, <1>4, <2>1, <2>2 DEF Recorded
  <1>6. CASE Succeeds
    <2> DEFINE n == t.current_item[2]
    <2>1. Fetched /\ I.op \in Annotated /\ I.op \in Known
      BY <1>6 DEF Succeeds, Tracing, Annotated, Known
    <2>2. Note \in Notes
      BY <2>1, NoteFacts
    <2>3. n \in DOMAIN t.sequence /\ (Pushes => n = End)
      BY <2>1, CurrentFacts
    <2>4. trace' = Annotate(t)
      BY <1>1, <1>6
    <2>5. /\ trace' \in Trace
          /\ trace'.act = t.act /\ trace'.entry = t.entry /\ trace'.caller_tag = t.caller_tag
          /\ trace'.capacity = t.capacity /\ trace'.complete = t.complete /\ trace'.seen = t.seen
          /\ Len(trace'.sequence) = Len(t.sequence)
          /\ \A m \in DOMAIN t.sequence :
               /\ trace'.sequence[m].ip = t.sequence[m].ip /\ trace'.sequence[m].op = t.sequence[m].op
               /\ m # n => trace'.sequence[m] = t.sequence[m]
          /\ trace'.sequence[n].saw = Note
          /\ t.current_item[1] = t.buf => trace'.sequence[n].note = Note
      BY <1>2, <2>2, <2>3, <2>4, AnnotateFacts
    <2>6. DOMAIN trace'.sequence = DOMAIN t.sequence
      BY <1>3, <2>5 DEF Trace
    <2> HIDE DEF t, n, NewItem
    <2>7. ASSUME NEW m \in DOMAIN t.sequence
          PROVE  \/ trace'.sequence[m].note = trace'.sequence[m].saw
                 \/ m \in DOMAIN trace.sequence /\ trace.sequence[m].note # trace.sequence[m].saw
                 \/ Grows /\ m = End
      <3>1. CASE m # n
        BY <1>3, <1>4, <2>5, <3>1
      <3>2. CASE m = n /\ ~moved
        BY <1>2, <2>5, <3>2
      <3>3. CASE m = n /\ moved
        BY <1>1, <2>3, <3>3 DEF Grows
      <3> QED
        BY <3>1, <3>2, <3>3
    <2> HIDE DEF Pushes, Grows
    <2> QED
      BY <1>2, <1>3, <1>4, <2>5, <2>6, <2>7 DEF Recorded
  <1> QED
    BY <1>5, <1>6

--------------------------------------------------------------------------------
(* The inductive invariant: the properties of the runs, and what they rest on. *)

\* is_tracing, the loop and the trace change together.
Started == is_tracing = (trace # NULL) /\ (loop = "jit") = (trace # NULL)

\* The tag a trace will be registered with is that of a call of what it records.
CallTag ==
  trace # NULL =>
    /\ program[trace.caller_tag].op = "callsymbolic"
    /\ SymbolTable[ConstPool[program[trace.caller_tag].dest].v] = trace.entry

\* The bottom frame is not recorded, and no two frames are.
OneFrame ==
  /\ ~ftrace[0]
  /\ \A d, e \in 0 .. depth : ftrace[d] /\ ftrace[e] => d = e

\* A capacity is one of those an item's push can reach.
Doubled == trace # NULL => Boundary(trace.capacity)

Control == Inv /\ TraceTypeOK /\ Started /\ CallTag /\ OneFrame /\ OneRecorder /\ IndexSound
Sequence == RoomForItem /\ RecordedOnce /\ Doubled /\ NotesCurrent
TInv == Control /\ Sequence

\* The three ways a step of the interpreter deals with the trace.
Records == Tracing /\ trace \in Trace /\ trace # NULL /\ ~trace.complete /\ Path # "trace" /\ Recorded
Begins ==
  /\ ~Tracing /\ Path = "trace" /\ Fetched /\ I.op = "callsymbolic" /\ trace = NULL
  /\ trace' = NewTrace(Target, ip) /\ trace' \in Trace
Idles == ~Tracing /\ Path # "trace" /\ trace' = trace

LEMMA NewTraceFacts ==
  ASSUME Inv, Fetched, I.op = "callsymbolic"
  PROVE  /\ NewTrace(Target, ip) \in Trace
         /\ Target = SymbolTable[ConstPool[I.dest].v]
  <1>1. ip \in Addr /\ ~BadOperand
    BY DEF Fetched, Executable
  <1>2. I.dest \in DOMAIN ConstPool /\ ConstPool[I.dest].type = "symbol"
    BY <1>1 DEF BadOperand, ReadsConst
  <1>3. ConstPool[I.dest] \in Value
    BY <1>2, VMAssumption DEF VMAssumption
  <1>4. ConstPool[I.dest].v \in Syms
    BY <1>2, <1>3 DEF Value
  <1>5. SymbolTable[ConstPool[I.dest].v] \in Addr
    BY <1>1, <1>4, VMAssumption DEF VMAssumption, BadOperand
  <1>6. Target = SymbolTable[ConstPool[I.dest].v]
    BY DEF Target
  <1>7. calls + 1 \in Nat /\ InitialCapacity \in Nat /\ << >> \in Seq(Item)
    BY TracerAssumption DEF TracerAssumption, Inv, Typed, StateOK, InStack
  <1> HIDE DEF Target
  <1> QED
    BY <1>1, <1>5, <1>6, <1>7 DEF NewTrace, Trace

LEMMA TraceStep ==
  ASSUME Control, Recorder
  PROVE  Records \/ Begins \/ Idles
  <1>1. Typed /\ depth \in 0 .. depth
    BY SlotFacts DEF Control, Inv
  <1>2. CASE Tracing
    <2>1. trace \in Trace /\ trace # NULL /\ is_tracing
      BY <1>2 DEF Control, TraceTypeOK, Started, Tracing
    <2>2. ~trace.complete
      BY <1>1, <1>2 DEF Control, OneRecorder, Tracing, Typed
    <2>3. Path # "trace"
      BY <2>1 DEF Path
    <2> QED
      BY <1>1, <1>2, <2>1, <2>2, <2>3, RecordFacts DEF Records
  <1>3. CASE ~Tracing /\ Path = "trace"
    <2>1. Fetched /\ I.op = "callsymbolic" /\ ~is_tracing
      BY <1>3 DEF Path
    <2>2. trace = NULL
      BY <2>1 DEF Control, Started
    <2>3. trace' = NewTrace(Target, ip)
      BY <1>3 DEF Recorder
    <2>4. NewTrace(Target, ip) \in Trace
      BY <2>1, NewTraceFacts DEF Control
    <2> QED
      BY <1>3, <2>1, <2>2, <2>3, <2>4 DEF Begins
  <1>4. CASE ~Tracing /\ Path # "trace"
    BY <1>4 DEF Recorder, Idles
  <1> QED
    BY <1>2, <1>3, <1>4

\* The heat of a tag stays in its bits.
LEMMA HeatStep ==
  ASSUME Typed, TraceTypeOK, ProcessTag
  PROVE  heat' \in [Addr -> 0 .. 2 ^ HeatBits - 1]
  <1> DEFINE p == 2 ^ HeatBits
  <1>1. p \in Nat \ {0}
    BY PowerPositive, TracerAssumption DEF TracerAssumption
  <1> HIDE DEF p
  <1>2. heat \in [Addr -> 0 .. p - 1]
    BY DEF TraceTypeOK, p
  <1>3. Fetched => ip \in Addr
    BY DEF Fetched, Executable
  <1>4. Fetched => Heat \in Nat
    BY <1>1, <1>2, <1>3 DEF Heat
  <1> HIDE DEF Heat
  <1>5. Fetched => Heat % p \in 0 .. p - 1
    BY <1>1, <1>4
  <1>6. heat' = IF Fetched /\ I.op \in Tagged THEN [heat EXCEPT ![ip] = Heat % p] ELSE heat
    BY DEF ProcessTag, p
  <1>7. heat' \in [Addr -> 0 .. p - 1]
    BY <1>2, <1>3, <1>5, <1>6
  <1> QED
    BY <1>7 DEF p

\* A call that is fetched has a slot for its frame.
LEMMA CallSlot ==
  ASSUME Typed, Fetched, I.op \in SubCalls
  PROVE  depth + 1 \in Slots /\ depth + 1 \notin 0 .. depth
  BY SlotFacts DEF Fetched, Executable, Overruns, Slots

LEMMA FrameTypes ==
  ASSUME Typed, TraceTypeOK, FrameTraces
  PROVE  ftrace' \in [Slots -> BOOLEAN]
  <1>1. ftrace \in [Slots -> BOOLEAN] /\ (Path = "trace") \in BOOLEAN
    BY DEF TraceTypeOK, Slots
  <1> HIDE DEF Path, Slots
  <1> QED
    BY <1>1 DEF FrameTraces

LEMMA StepTypes ==
  ASSUME Control, Step
  PROVE  TraceTypeOK'
  <1>1. Typed /\ TraceTypeOK /\ (Records \/ Begins \/ Idles)
    BY TraceStep DEF Control, Inv, Step
  <1>2. heat' \in [Addr -> 0 .. 2 ^ HeatBits - 1]
    BY <1>1, HeatStep DEF Step
  <1>3. ftrace' \in [Slots -> BOOLEAN]
    BY <1>1, FrameTypes DEF Step
  <1>4. trace' \in Trace \cup {NULL}
    BY <1>1 DEF Records, Begins, Idles, Recorded, TraceTypeOK
  <1>5. index' \in [Addr -> {0, 2}]
    <2>1. Pushes => trace.caller_tag \in Addr
      BY <1>1 DEF Records, Begins, Idles, Pushes, Trace
    <2> HIDE DEF Pushes
    <2> QED
      BY <1>1, <2>1 DEF Step, Register, TraceTypeOK
  <1>6. always' \in BOOLEAN /\ is_tracing' \in BOOLEAN /\ loop' \in {"plain", "jit"}
    <2>1. (is_tracing \/ Path = "trace") \in BOOLEAN
      BY DEF TraceTypeOK
    <2> HIDE DEF Path
    <2> QED
      BY <1>1, <2>1 DEF Step, TraceTypeOK
  <1> QED
    BY <1>2, <1>3, <1>4, <1>5, <1>6 DEF TraceTypeOK, Slots

LEMMA StepStarted ==
  ASSUME Control, Step, ~Overrun
  PROVE  Started' /\ CallTag'
  <1>1. Records \/ Begins \/ Idles
    BY TraceStep DEF Control, Step
  <1>2. program' = program
    BY StackStep DEF Control, Step
  <1>3. is_tracing' = (is_tracing \/ Path = "trace") /\ loop' = IF Path = "trace" THEN "jit" ELSE loop
    BY DEF Step
  <1> HIDE DEF Path
  <1>4. CASE Records
    <2>1. trace' # NULL
      BY <1>4, TraceAssumption DEF Records, Recorded, TraceAssumption
    <2> QED
      BY <1>2, <1>3, <1>4, <2>1 DEF Records, Recorded, Control, Started, CallTag
  <1>5. CASE Begins
    <2>1. trace' # NULL
      BY <1>5, TraceAssumption DEF Begins, TraceAssumption
    <2>2. trace'.caller_tag = ip /\ trace'.entry = Target
      BY <1>5 DEF Begins, NewTrace
    <2>3. Target = SymbolTable[ConstPool[I.dest].v]
      BY <1>5, NewTraceFacts DEF Begins, Control
    <2> QED
      BY <1>2, <1>3, <1>5, <2>1, <2>2, <2>3 DEF Begins, Control, Started, CallTag, I
  <1>6. CASE Idles
    BY <1>2, <1>3, <1>6 DEF Idles, Control, Started, CallTag
  <1> QED
    BY <1>1, <1>4, <1>5, <1>6

\* The slot that is recorded, and the activation in it, through calls, tail calls,
\* returns and exceptions.
LEMMA StepFrames ==
  ASSUME Control, Step, ~Overrun
  PROVE  OneFrame' /\ OneRecorder'
  <1>1. Inv /\ Typed /\ OneFrame /\ OneRecorder /\ ftrace \in [Slots -> BOOLEAN]
    BY DEF Control, Inv, TraceTypeOK, Slots
  <1>i. InStack
    BY <1>1 DEF Typed
  <1>2. Records \/ Begins \/ Idles
    BY TraceStep DEF Step
  <1>3. Pushed \/ Replaced \/ Stays \/ Popped
    BY <1>1, StackStep DEF Step
  <1>4. depth \in Nat /\ 0 .. depth \subseteq Slots /\ 0 \in 0 .. depth /\ depth \in 0 .. depth
    BY <1>1, SlotFacts
  <1>5. FrameTraces
    BY DEF Step
  <1>6. trace' # NULL \/ Idles
    BY <1>2, TraceAssumption DEF Records, Recorded, Begins, TraceAssumption
  <1>7. Tracing <=> (Fetched /\ loop = "jit" /\ ftrace[depth])
    BY DEF Tracing
  <1> HIDE DEF Path, Tracing, Fetched
  <1>8. CASE Pushed
    <2>1. ftrace' = [ftrace EXCEPT ![depth + 1] = (Path = "trace")]
      BY <1>5, <1>8 DEF FrameTraces, Pushed
    <2>2. depth + 1 \in Slots /\ I.op # "return" /\ depth' = depth + 1
      BY <1>8 DEF Pushed, SubCalls
    <2>3. ftrace'[depth + 1] = (Path = "trace") /\ \A d \in 0 .. depth : ftrace'[d] = ftrace[d]
      <3>1. \A d \in 0 .. depth : d # depth + 1
        BY <1>4
      <3> QED
        BY <1>1, <1>4, <2>1, <2>2, <3>1
    <2>4. \A d \in 0 .. depth' : d = depth + 1 \/ d \in 0 .. depth
      BY <1>4, <2>2
    <2>5. CASE Begins
      <3>1. \A d \in 0 .. depth : ~ftrace'[d]
        BY <1>i, <1>1, <2>3, <2>5 DEF Begins, OneRecorder
      <3>2. trace'.act = calls + 1 /\ ~trace'.complete
        BY <2>5 DEF Begins, NewTrace
      <3>3. stack'[depth + 1].act = calls + 1
        BY <1>8 DEF Pushed
      <3>4. trace' # NULL
        BY <2>5, TraceAssumption DEF Begins, TraceAssumption
      <3> QED
        BY <1>4, <2>4, <3>1, <3>2, <3>3, <3>4 DEF OneFrame, OneRecorder
    <2>6. CASE Records \/ Idles
      <3>1. ~ftrace'[depth + 1]
        BY <2>3, <2>6 DEF Records, Idles
      <3>2. trace # NULL => trace' # NULL /\ trace'.act = trace.act /\ trace'.complete = trace.complete
        <4>1. CASE Records
          BY <1>6, <2>2, <4>1 DEF Records, Recorded, Trace, Idles
        <4>2. CASE Idles
          BY <4>2 DEF Idles
        <4> QED
          BY <2>6, <4>1, <4>2
      <3> QED
        BY <1>i, <1>1, <1>4, <1>8, <2>3, <2>4, <3>1, <3>2 DEF Pushed, OneFrame, OneRecorder
    <2> QED
      BY <1>2, <2>5, <2>6
  <1>9. CASE Replaced
    <2>1. depth' = depth /\ I.op = "tailcall" /\ ftrace' = [ftrace EXCEPT ![depth] = FALSE]
      BY <1>5, <1>9 DEF FrameTraces, Replaced, SubCalls
    <2>2. ~ftrace'[depth] /\ \A d \in 0 .. depth : d # depth => ftrace'[d] = ftrace[d]
      BY <1>1, <1>4, <2>1
    <2>3. trace # NULL => trace' # NULL /\ trace'.act = trace.act /\ trace'.complete = trace.complete
      <3>1. CASE Records
        BY <1>6, <2>1, <3>1 DEF Records, Recorded, Trace, Idles
      <3>2. CASE ~Records
        BY <1>2, <2>1, <3>2 DEF Idles, Begins
      <3> QED
        BY <3>1, <3>2
    <2>4. OneFrame'
      BY <1>1, <1>4, <2>1, <2>2 DEF OneFrame
    <2>5. OneRecorder'
      BY <1>i, <1>1, <1>9, <2>1, <2>2, <2>3 DEF OneRecorder, Replaced
    <2> QED
      BY <2>4, <2>5
  <1>10. CASE Stays
    <2>1. depth' = depth /\ ftrace' = ftrace
      BY <1>5, <1>10 DEF FrameTraces, Stays
    <2>2. trace # NULL => trace' # NULL /\ trace'.act = trace.act /\ trace'.complete = trace.complete
      <3>1. CASE Records
        <4>1. I.op # "return"
          BY <1>1, <1>7, <1>10, <3>1 DEF Records, Stays, OneFrame
        <4> QED
          BY <1>6, <3>1, <4>1 DEF Records, Recorded, Trace, Idles
      <3>2. CASE ~Records
        BY <1>2, <3>2 DEF Idles, Begins
      <3> QED
        BY <3>1, <3>2
    <2> QED
      BY <1>i, <1>1, <1>10, <2>1, <2>2 DEF Stays, OneFrame, OneRecorder
  <1>11. CASE Popped
    <2>1. depth' = depth - 1 /\ I.op = "return" /\ ftrace' = ftrace
      BY <1>5, <1>11 DEF FrameTraces, Popped, SubCalls
    <2>2. \A d \in 0 .. depth' : d \in 0 .. depth /\ d # depth
      BY <1>4, <2>1
    <2>3. CASE Records
      <3>1. \A d \in 0 .. depth' : ~ftrace[d]
        BY <1>1, <1>4, <1>7, <2>2, <2>3 DEF Records, OneFrame
      <3> QED
        BY <1>i, <1>1, <2>1, <3>1 DEF OneFrame, OneRecorder
    <2>4. CASE ~Records
      <3>1. trace' = trace
        BY <1>2, <2>1, <2>4 DEF Begins, Idles
      <3> QED
        BY <1>i, <1>1, <1>11, <2>1, <2>2, <3>1 DEF Popped, OneFrame, OneRecorder
    <2> QED
      BY <2>3, <2>4
  <1> QED
    BY <1>3, <1>8, <1>9, <1>10, <1>11

LEMMA StepIndex ==
  ASSUME Control, Step, ~Overrun
  PROVE  IndexSound'
  <1>1. IndexSound /\ CallTag /\ index \in [Addr -> {0, 2}]
    BY DEF Control, TraceTypeOK
  <1>2. Records \/ Begins \/ Idles
    BY TraceStep DEF Step
  <1>3. program' = program
    BY StackStep DEF Control, Step
  <1>4. index' = IF Pushes /\ I.op = "return" THEN [index EXCEPT ![trace.caller_tag] = 2] ELSE index
    BY DEF Step, Register
  <1>5. CASE Pushes /\ I.op = "return"
    <2>1. Records
      BY <1>2, <1>5 DEF Begins, Idles, Pushes
    <2>2. \A a \in Addr : index[a] = 0
      BY <1>1, <2>1 DEF IndexSound, Records
    <2>3. \A a \in Addr : index'[a] > 0 => a = trace.caller_tag
      BY <1>1, <1>4, <1>5, <2>2
    <2>4. trace' # NULL
      BY <2>1, TraceAssumption DEF Records, Recorded, TraceAssumption
    <2>5. trace'.complete /\ trace'.caller_tag = trace.caller_tag /\ trace'.entry = trace.entry
      BY <1>5, <2>1 DEF Records, Recorded
    <2>6. trace'.sequence[Len(trace'.sequence)].op = "return"
      BY <1>5, <2>1 DEF Records, Recorded
    <2> QED
      BY <1>1, <1>3, <2>1, <2>3, <2>4, <2>5, <2>6 DEF IndexSound, CallTag, Records
  <1>6. CASE ~(Pushes /\ I.op = "return")
    <2> SUFFICES ASSUME NEW a \in Addr, index'[a] > 0
                 PROVE  /\ trace' # NULL /\ trace'.complete /\ trace'.caller_tag = a
                        /\ program[a].op = "callsymbolic"
                        /\ SymbolTable[ConstPool[program[a].dest].v] = trace'.entry
                        /\ trace'.sequence[Len(trace'.sequence)].op = "return"
      BY <1>3 DEF IndexSound
    <2>1. index[a] > 0
      BY <1>4, <1>6
    <2>2. Idles
      BY <1>1, <1>2, <2>1 DEF Records, Begins, IndexSound
    <2> QED
      BY <1>1, <2>1, <2>2 DEF IndexSound, Idles
  <1> QED
    BY <1>5, <1>6

\* The initial capacity is a boundary, and twice a boundary is one.
LEMMA BoundaryFacts ==
  /\ Boundary(InitialCapacity)
  /\ \A c \in Nat : Boundary(c) => c > 0 /\ Boundary(2 * c)
  <1>1. InitialCapacity \in Nat \ {0}
    BY TracerAssumption DEF TracerAssumption
  <1>2. Boundary(InitialCapacity)
    <2>1. 0 \in 0 .. InitialCapacity /\ InitialCapacity = InitialCapacity * 2 ^ 0
      BY <1>1, PowerZero
    <2> QED
      BY <2>1 DEF Boundary
  <1>3. ASSUME NEW c \in Nat, NEW j \in 0 .. c, c = InitialCapacity * 2 ^ j
        PROVE  c > 0 /\ Boundary(2 * c)
    <2>1. j \in Nat /\ j + 1 \in Nat
      OBVIOUS
    <2>2. 2 ^ j \in Nat \ {0} /\ 2 ^ (j + 1) = 2 * 2 ^ j
      BY <2>1, PowerPositive, PowerDoubles
    <2>3. \A i, p \in Nat \ {0} : i * p > 0 /\ 2 * (i * p) = i * (2 * p)
      OBVIOUS
    <2>4. c > 0 /\ 2 * c = InitialCapacity * 2 ^ (j + 1)
      BY <1>1, <1>3, <2>2, <2>3
    <2>5. j + 1 \in 0 .. 2 * c
      BY <2>4
    <2> QED
      BY <2>4, <2>5 DEF Boundary
  <1> QED
    BY <1>2, <1>3 DEF Boundary

LEMMA StepSequence ==
  ASSUME TInv, Step
  PROVE  Sequence'
  <1>1. Sequence /\ TraceTypeOK
    BY DEF TInv, Control
  <1>2. Records \/ Begins \/ Idles
    BY TraceStep DEF TInv, Step
  <1>3. CASE Idles
    <2>1. RoomForItem' /\ RecordedOnce'
      BY <1>1, <1>3 DEF Sequence, Idles, RoomForItem, RecordedOnce
    <2>2. Doubled' /\ NotesCurrent'
      BY <1>1, <1>3 DEF Sequence, Idles, Doubled, NotesCurrent, Boundary
    <2> QED
      BY <2>1, <2>2 DEF Sequence
  <1>4. CASE Begins
    <2>1. trace'.sequence = << >> /\ trace'.capacity = InitialCapacity /\ trace'.seen = {}
      BY <1>4 DEF Begins, NewTrace
    <2>2. DOMAIN trace'.sequence = {} /\ Len(trace'.sequence) = 0
      BY <2>1
    <2>3. RoomForItem'
      BY <2>1, <2>2, TracerAssumption DEF TracerAssumption, RoomForItem
    <2>4. RecordedOnce' /\ NotesCurrent'
      BY <2>1, <2>2 DEF RecordedOnce, NotesCurrent
    <2>5. Doubled'
      BY <2>1, BoundaryFacts DEF Doubled, Boundary
    <2> QED
      BY <2>3, <2>4, <2>5 DEF Sequence
  <1>5. CASE Records
    <2>1. /\ trace \in Trace /\ trace # NULL /\ Recorded
          /\ RoomForItem /\ RecordedOnce /\ Doubled /\ NotesCurrent
      BY <1>1, <1>5 DEF Records, Sequence
    <2>2. /\ Len(trace.sequence) \in Nat /\ DOMAIN trace.sequence = 1 .. Len(trace.sequence)
          /\ trace.capacity \in Nat
      BY <2>1, SequenceFacts DEF Trace
    <2>3. /\ Len(trace'.sequence) \in Nat /\ DOMAIN trace'.sequence = 1 .. Len(trace'.sequence)
      BY <2>1, SequenceFacts DEF Recorded
    <2>4. Len(trace.sequence) < trace.capacity /\ Boundary(trace.capacity)
      BY <2>1 DEF RoomForItem, Doubled
    <2>5. /\ Len(trace'.sequence) = IF Pushes THEN End ELSE Len(trace.sequence)
          /\ trace'.capacity = IF Grows THEN 2 * trace.capacity ELSE trace.capacity
          /\ trace'.seen = IF I.op \in Known THEN trace.seen \cup {ip} ELSE trace.seen
          /\ \A m \in DOMAIN trace.sequence : trace'.sequence[m].ip = trace.sequence[m].ip
          /\ Pushes => trace'.sequence[End].ip = ip
          /\ \A m \in DOMAIN trace'.sequence :
               \/ trace'.sequence[m].note = trace'.sequence[m].saw
               \/ m \in DOMAIN trace.sequence /\ trace.sequence[m].note # trace.sequence[m].saw
               \/ Grows /\ m = End
      BY <2>1 DEF Recorded
    <2>6. Grows <=> Pushes /\ End >= trace.capacity
      BY DEF Grows
    <2>7. End = Len(trace.sequence) + 1
      BY DEF End
    <2>8. Pushes => Tracing /\ Found = {} /\ I.op \in Known
      BY DEF Pushes
    <2>9. I.op \in Known /\ ~Pushes => Found # {}
      BY <1>5 DEF Pushes, Records
    <2>10. Found = {n \in DOMAIN trace.sequence : trace.sequence[n].ip = ip}
      BY DEF Found
    <2> HIDE DEF Grows, Pushes, End, Found, Known
    <2>11. RoomForItem'
      BY <2>2, <2>4, <2>5, <2>6, <2>7 DEF RoomForItem
    <2>12. Doubled'
      <3>1. Boundary(trace'.capacity)
        BY <2>2, <2>4, <2>5, BoundaryFacts
      <3> QED
        BY <3>1 DEF Doubled, Boundary
    <2>13. NotesCurrent'
      <3> SUFFICES ASSUME NEW m \in DOMAIN trace'.sequence,
                          trace'.sequence[m].note # trace'.sequence[m].saw
                   PROVE  Boundary(m)
        BY DEF NotesCurrent, Boundary
      <3>1. CASE m \in DOMAIN trace.sequence /\ trace.sequence[m].note # trace.sequence[m].saw
        BY <2>1, <3>1 DEF NotesCurrent
      <3>2. CASE Grows /\ m = End
        <4>1. m = trace.capacity
          BY <2>2, <2>4, <2>6, <2>7, <3>2
        <4> QED
          BY <2>4, <4>1
      <3> QED
        BY <2>5, <3>1, <3>2
    <2>14. RecordedOnce'
      <3>1. /\ \A m, n \in DOMAIN trace.sequence :
                 trace.sequence[m].ip = trace.sequence[n].ip => m = n
            /\ {trace.sequence[n].ip : n \in DOMAIN trace.sequence} = trace.seen
        BY <2>1 DEF RecordedOnce
      <3>2. CASE Pushes
        <4>1. /\ DOMAIN trace'.sequence = DOMAIN trace.sequence \cup {End}
              /\ End \notin DOMAIN trace.sequence
          BY <2>2, <2>3, <2>5, <2>7, <3>2
        <4>2. \A n \in DOMAIN trace.sequence : trace.sequence[n].ip # ip
          BY <2>8, <2>10, <3>2
        <4>3. trace'.seen = trace.seen \cup {ip}
          BY <2>5, <2>8, <3>2
        <4>4. \A m, n \in DOMAIN trace'.sequence :
                trace'.sequence[m].ip = trace'.sequence[n].ip => m = n
          BY <2>5, <3>1, <3>2, <4>1, <4>2
        <4>5. {trace'.sequence[n].ip : n \in DOMAIN trace'.sequence} = trace'.seen
          BY <2>5, <3>1, <3>2, <4>1, <4>3
        <4> QED
          BY <4>4, <4>5 DEF RecordedOnce
      <3>3. CASE ~Pushes
        <4>1. DOMAIN trace'.sequence = DOMAIN trace.sequence
          BY <2>2, <2>3, <2>5, <3>3
        <4>2. trace'.seen = trace.seen
          <5>1. CASE I.op \in Known
            <6>1. PICK n \in DOMAIN trace.sequence : trace.sequence[n].ip = ip
              BY <2>9, <2>10, <3>3, <5>1
            <6>2. ip \in trace.seen
              BY <3>1, <6>1
            <6> QED
              BY <2>5, <5>1, <6>2
          <5>2. CASE I.op \notin Known
            BY <2>5, <5>2
          <5> QED
            BY <5>1, <5>2
        <4>3. {trace'.sequence[n].ip : n \in DOMAIN trace'.sequence} = trace'.seen
          BY <2>5, <3>1, <4>1, <4>2
        <4> QED
          BY <2>5, <3>1, <4>1, <4>3 DEF RecordedOnce
      <3> QED
        BY <3>2, <3>3
    <2> QED
      BY <2>11, <2>12, <2>13, <2>14 DEF Sequence
  <1> QED
    BY <1>2, <1>3, <1>4, <1>5

\* A step that keeps the trace and the tags, and the activations of the frames it keeps.
LEMMA TraceKept ==
  ASSUME TInv, Inv', UNCHANGED <<program, depth, index, always, is_tracing, loop, trace>>,
         heat' \in [Addr -> 0 .. 2 ^ HeatBits - 1], ftrace' \in [Slots -> BOOLEAN],
         \A d \in 0 .. depth : ftrace'[d] = ftrace[d] /\ stack'[d].act = stack[d].act
  PROVE  TInv'
  <1>1. TraceTypeOK' /\ Started' /\ CallTag'
    BY DEF TInv, Control, TraceTypeOK, Started, CallTag, Slots
  <1>2. OneFrame' /\ OneRecorder'
    <2>1. 0 \in 0 .. depth /\ InStack
      BY SlotFacts DEF TInv, Control, Inv, Typed
    <2> QED
      BY <2>1 DEF TInv, Control, OneFrame, OneRecorder
  <1>3. IndexSound'
    BY DEF TInv, Control, IndexSound
  <1>4. RoomForItem' /\ RecordedOnce'
    BY DEF TInv, Sequence, RoomForItem, RecordedOnce
  <1>5. Doubled' /\ NotesCurrent'
    BY DEF TInv, Sequence, Doubled, NotesCurrent, Boundary
  <1> QED
    BY <1>1, <1>2, <1>3, <1>4, <1>5 DEF TInv, Control, Sequence

LEMMA TInitInv == TInit => TInv
  <1> SUFFICES ASSUME TInit PROVE TInv
    OBVIOUS
  <1>1. Inv /\ trace = NULL /\ depth = 0
    BY InitInv DEF TInit, Init
  <1>2. 0 \in 0 .. 2 ^ HeatBits - 1
    BY PowerPositive, TracerAssumption DEF TracerAssumption
  <1>3. TraceTypeOK
    BY <1>2 DEF TInit, TraceTypeOK
  <1>4. \A d \in 0 .. depth : ~ftrace[d]
    <2>1. \A d \in 0 .. depth : d \in 0 .. StackSize - 1
      BY <1>1, SlotFacts DEF Inv, Slots
    <2> QED
      BY <2>1 DEF TInit
  <1>5. Started /\ CallTag /\ OneFrame /\ OneRecorder
    <2>1. is_tracing = FALSE /\ loop # "jit" /\ 0 \in 0 .. depth
      BY <1>1 DEF TInit
    <2>2. CallTag /\ OneFrame /\ OneRecorder
      BY <1>1, <1>4, <2>1 DEF CallTag, OneFrame, OneRecorder, InStack
    <2>3. Started
      BY <1>1, <2>1 DEF Started
    <2> QED
      BY <2>2, <2>3
  <1>6. IndexSound
    BY DEF TInit, IndexSound
  <1>7. Sequence
    BY <1>1 DEF Sequence, RoomForItem, RecordedOnce, Doubled, NotesCurrent
  <1> QED
    BY <1>1, <1>3, <1>5, <1>6, <1>7 DEF TInv, Control

LEMMA TNextInv ==
  ASSUME TInv, [TNext]_<<vars, tvars>>, ~Overrun
  PROVE  TInv'
  <1>1. ASSUME TInv, Step PROVE TInv'
    <2>1. Inv'
      BY <1>1, NextInv DEF TInv, Control, Step
    <2>2. TraceTypeOK' /\ Started' /\ CallTag' /\ OneFrame' /\ OneRecorder' /\ IndexSound'
      BY <1>1, StepTypes, StepStarted, StepFrames, StepIndex DEF TInv
    <2> QED
      BY <1>1, <2>1, <2>2, StepSequence DEF TInv, Control
  <1>2. ASSUME TInv, Inv', UNCHANGED <<program, depth, stack, tvars>> PROVE TInv'
    BY <1>2, TraceKept DEF TInv, Control, TraceTypeOK, tvars, Slots
  <1>3. ASSUME TInv, RecorderFails \/ CompiledFails PROVE TInv'
    <2>1. /\ status' \in {"crashed", "ended"}
          /\ UNCHANGED <<program, ip, depth, stack, regs, globals, exception, calls, codeFrame, tvars>>
      BY <1>3 DEF RecorderFails, CompiledFails
    <2>2. Inv'
      BY <1>3, <2>1, EndStep DEF TInv, Control
    <2> QED
      BY <1>2, <1>3, <2>1, <2>2
  <1>4. ASSUME TInv, CompiledReturns PROVE TInv'
    <2>1. Inv /\ Inv' /\ Typed /\ TraceTypeOK
      BY <1>4, CompiledStep DEF TInv, Control, Inv
    <2>2. UNCHANGED <<program, depth, index, always, is_tracing, loop, trace>>
      BY <1>4 DEF CompiledReturns
    <2>3. heat' \in [Addr -> 0 .. 2 ^ HeatBits - 1] /\ ftrace' \in [Slots -> BOOLEAN]
      BY <1>4, <2>1, HeatStep, FrameTypes DEF CompiledReturns
    <2>4. Fetched /\ I.op = "callsymbolic" /\ FrameTraces
      BY <1>4 DEF CompiledReturns, Path
    <2>5. \A d \in 0 .. depth : ftrace'[d] = ftrace[d]
      <3>1. depth + 1 \notin 0 .. depth /\ 0 .. depth \subseteq Slots
        BY <2>1, <2>4, CallSlot, SlotFacts DEF SubCalls
      <3>2. ftrace' = [ftrace EXCEPT ![depth + 1] = (Path = "trace")]
        BY <2>4 DEF FrameTraces, SubCalls
      <3> HIDE DEF Path
      <3> QED
        BY <2>1, <3>1, <3>2 DEF TraceTypeOK, Slots
    <2>6. \A d \in 0 .. depth : stack'[d].act = stack[d].act
      BY <1>4, <2>1, CompiledFrames, HereFacts, SlotFacts
    <2> QED
      BY <1>4, <2>1, <2>2, <2>3, <2>5, <2>6, TraceKept
  <1>5. ASSUME TInv, UNCHANGED <<vars, tvars>> PROVE TInv'
    <2>1. Inv'
      BY <1>5, NextInv DEF TInv, Control
    <2> QED
      BY <1>2, <1>5, <2>1 DEF vars
  <1> QED
    BY <1>1, <1>3, <1>4, <1>5 DEF TNext

--------------------------------------------------------------------------------
(* A call that overruns the stack ends the program as far as anything is known of it; *)
(* the recorder's state stays as it is. *)
Recorder_OK == TraceTypeOK /\ IndexSound /\ RoomForItem /\ RecordedOnce /\ NotesCurrent
TIInv == TypeOK /\ Recorder_OK /\ (InStack => TInv)

LEMMA TypedFacts == Typed => TypeOK
  BY VMAssumption DEF VMAssumption, Typed, TypeOK, Slots

LEMMA TInitIInv == TInit => TIInv
  BY TInitInv, TypedFacts DEF TIInv, Recorder_OK, TInv, Control, Sequence, Inv

\* From there on there is no step.
LEMMA NoStepAfter ==
  ASSUME ~InStack
  PROVE  ~TNext
  <1>1. status # "running"
    BY DEF InStack
  <1>2. ~Next
    BY <1>1
    DEF Next, Crash, Overrun, Noop, Die, Branch, Assign, Math, Call, TailCall, Return,
        CallPrimitive, Catch, ClearCatch, ClearException, SetException, Throw, SetLocal,
        GetLocal, SetGlobal, GetGlobal, Symbolicate, StoreElement, LoadElement, Executes
  <1> QED
    BY <1>1, <1>2
    DEF TNext, Step, RecorderFails, Derails, CompiledFails, CompiledReturns, Path, Tracing, Fetched

\* The recorder does not see the call that overruns the stack.
LEMMA OverrunUnseen ==
  ASSUME TIInv, TNext, Overrun
  PROVE  TIInv'
  <1>1. ~Fetched /\ ~InStack' /\ UNCHANGED <<program, calls>>
    BY DEF Overrun, Fetched, InStack
  <1>2. Step
    BY <1>1 DEF TNext, RecorderFails, Derails, CompiledFails, CompiledReturns, Path, Tracing
  <1>3. UNCHANGED <<heat, ftrace, trace, always, index>>
    BY <1>1, <1>2 DEF Step, ProcessTag, FrameTraces, Recorder, Register, Pushes, Tracing, Path
  <1>4. UNCHANGED <<is_tracing, loop>>
    <2>1. TraceTypeOK
      BY DEF TIInv, Recorder_OK
    <2> QED
      BY <1>1, <1>2, <2>1 DEF Step, Path, TraceTypeOK
  <1>5. IInv
    BY DEF TIInv, IInv, TInv, Control
  <1>6. TypeOK'
    <2>1. Next
      BY <1>2 DEF Step
    <2> QED
      BY <1>5, <2>1, NextIInv DEF IInv
  <1>7. Recorder_OK'
    BY <1>1, <1>3, <1>4
    DEF TIInv, Recorder_OK, TraceTypeOK, IndexSound, RoomForItem, RecordedOnce, NotesCurrent, Boundary
  <1> QED
    BY <1>1, <1>6, <1>7 DEF TIInv

LEMMA TNextIInv == TIInv /\ [TNext]_<<vars, tvars>> => TIInv'
  <1> SUFFICES ASSUME TIInv, [TNext]_<<vars, tvars>> PROVE TIInv'
    OBVIOUS
  <1>1. CASE ~InStack
    <2>1. UNCHANGED <<vars, tvars>>
      BY <1>1, NoStepAfter
    <2>2. TypeOK' /\ ~InStack'
      BY <1>1, <2>1 DEF TIInv, InStack, TypeOK, StateOK, vars
    <2>3. Recorder_OK'
      BY <2>1
      DEF TIInv, Recorder_OK, TraceTypeOK, IndexSound, RoomForItem, RecordedOnce, NotesCurrent,
          Boundary, vars, tvars
    <2> QED
      BY <2>2, <2>3 DEF TIInv
  <1>2. CASE InStack /\ Overrun
    <2>1. TNext
      BY <1>2 DEF Overrun, vars
    <2> QED
      BY <1>2, <2>1, OverrunUnseen
  <1>3. CASE InStack /\ ~Overrun
    <2>1. TInv'
      BY <1>3, TNextInv DEF TIInv
    <2>2. TypeOK'
      BY <2>1, VMAssumption DEF VMAssumption, TInv, Control, Inv, Typed, TypeOK, Slots
    <2> QED
      BY <2>1, <2>2 DEF TIInv, Recorder_OK, TInv, Control, Sequence
  <1> QED
    BY <1>1, <1>2, <1>3

\* For every program: the recorder's state stays well typed; the heat of a tag stays in
\* its bits and an index is that of no trace or of the one trace there is.
THEOREM TraceTypeCorrect == TSpec => []TraceTypeOK
  <1>1. TIInv => TraceTypeOK
    BY DEF TIInv, Recorder_OK
  <1> QED
    BY <1>1, TInitIInv, TNextIInv, PTL DEF TSpec

\* For every program and initial capacity: push_instruction writes its item inside the
\* memory of the sequence.
THEOREM ItemHasRoom == TSpec => []RoomForItem
  <1>1. TIInv => RoomForItem
    BY DEF TIInv, Recorder_OK
  <1> QED
    BY <1>1, TInitIInv, TNextIInv, PTL DEF TSpec

\* For every program: the sequence has each known instruction the traced activation ran,
\* exactly once, however the activation came back to it.
THEOREM EachRecordedOnce == TSpec => []RecordedOnce
  <1>1. TIInv => RecordedOnce
    BY DEF TIInv, Recorder_OK
  <1> QED
    BY <1>1, TInitIInv, TNextIInv, PTL DEF TSpec

\* For every program and initial capacity: what an item notes is what its instruction
\* did last, but for the items at the positions where the sequence grew.
THEOREM NotesAreCurrent == TSpec => []NotesCurrent
  <1>1. TIInv => NotesCurrent
    BY DEF TIInv, Recorder_OK
  <1> QED
    BY <1>1, TInitIInv, TNextIInv, PTL DEF TSpec

\* For every program: what is recorded is the activation the trace began with, and
\* nothing once the trace is complete.
THEOREM OneActivationRecorded == TSpec => []OneRecorder
  <1>1. TIInv => OneRecorder
    BY DEF TIInv, TInv, Control, OneRecorder
  <1> QED
    BY <1>1, TInitIInv, TNextIInv, PTL DEF TSpec

\* For every program: a tag leads hvm_dispatch_frame to a complete trace of the
\* subroutine the tagged instruction calls.
THEOREM TagsLeadToTraces == TSpec => []IndexSound
  <1>1. TIInv => IndexSound
    BY DEF TIInv, Recorder_OK
  <1> QED
    BY <1>1, TInitIInv, TNextIInv, PTL DEF TSpec

\* For every program: a complete trace, which may be compiled at any later call, does
\* not change any more.
THEOREM CompleteStaysSo == TSpec => CompleteIsFinal
  <1>1. ASSUME TIInv, TNext, trace # NULL, trace.complete PROVE trace' = trace
    <2>0. TInv
      BY <1>1, NoStepAfter DEF TIInv
    <2>1. CASE Step
      <3>1. Records \/ Begins \/ Idles
        BY <2>0, <2>1, TraceStep DEF TInv, Step
      <3> QED
        BY <1>1, <3>1 DEF Records, Begins, Idles
    <2>2. CASE ~Step
      BY <1>1, <2>2 DEF TNext, RecorderFails, CompiledFails, CompiledReturns, tvars
    <2> QED
      BY <2>1, <2>2
  <1>2. TIInv /\ [TNext]_<<vars, tvars>> =>
          [(trace # NULL /\ trace.complete) => trace' = trace]_<<vars, tvars>>
    BY <1>1
  <1> QED
    BY <1>2, TInitIInv, TNextIInv, PTL DEF TSpec, CompleteIsFinal

\* For every program: what VM promises of frames also holds with the recorder on and
\* with calls answered by compiled code.
THEOREM FramesUnderTracing == TSpec => [](TypeOK /\ ReturnSites /\ BacktraceLinks /\ OwnState)
  <1>1. TIInv => TypeOK /\ ReturnSites /\ BacktraceLinks /\ OwnState
    BY DEF TIInv, TInv, Control, Inv, Frames, ReturnSites, BacktraceLinks, OwnState
  <1> QED
    BY <1>1, TInitIInv, TNextIInv, PTL DEF TSpec
================================================================================
