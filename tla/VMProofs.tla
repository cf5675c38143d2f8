-------------------------------- MODULE VMProofs --------------------------------
(***************************************************************************)
(* Theorems about VM, for every program, stack size and register count.    *)
(***************************************************************************)
EXTENDS VM, TLAPS

Slots == 0 .. StackSize - 1

\* What the interpreter keeps until a call overruns the stack.
Typed == StateOK /\ InStack /\ depth \in Slots

\* Noting the current address in the top frame changes nothing else.
LEMMA HereFacts ==
  ASSUME Typed
  PROVE  /\ Here \in [Slots -> Frame]
         /\ Here[depth].current_addr = ip
         /\ \A d \in Slots \ {depth} : Here[d] = stack[d]
         /\ \A d \in Slots :
              /\ Here[d].return_addr = stack[d].return_addr
              /\ Here[d].return_register = stack[d].return_register
              /\ Here[d].catch_addr = stack[d].catch_addr
              /\ Here[d].catch_act = stack[d].catch_act
              /\ Here[d].locals = stack[d].locals
              /\ Here[d].act = stack[d].act
  BY DEF Typed, StateOK, InStack, Here, Slots, Frame

\* A fresh frame has no handler and no locals.
LEMMA NewFrameFacts ==
  ASSUME NEW a \in Nat, NEW r \in Reg, NEW n \in Nat, NEW c \in Nat
  PROVE  /\ NewFrame(a, r, n, c) \in Frame
         /\ NewFrame(a, r, n, c).return_addr = a
         /\ NewFrame(a, r, n, c).return_register = r
         /\ NewFrame(a, r, n, c).catch_addr = NoCatch
         /\ NewFrame(a, r, n, c).act = n
         /\ \A s \in Syms : NewFrame(a, r, n, c).locals[s] = {}
  BY VMAssumption DEF VMAssumption, NewFrame, Frame, NoCatch, Reg, NullReg

\* What the register file holds after a write, whatever the register.
LEMMA WriteFacts ==
  ASSUME NEW rs, NEW r \in Reg, NEW val \in Value \cup {NULL},
         rs \in [Reg -> Value \cup {NULL}], rs[ZeroReg] = IntOf(0), rs[NullReg] = Null,
         Write(rs, r, val)
  PROVE  /\ regs' \in [Reg -> Value \cup {NULL}]
         /\ regs'[ZeroReg] = IntOf(0) /\ regs'[NullReg] = Null
         /\ status' \in {"running", "crashed"}
  BY DEF Write, GenRegs, ArgRegs, ZeroReg, NullReg

\* The argument registers move to the parameters and the rest stays.
LEMMA CopiedRegsFacts ==
  ASSUME Typed
  PROVE  /\ CopiedRegs \in [Reg -> Value \cup {NULL}]
         /\ CopiedRegs[ZeroReg] = IntOf(0) /\ CopiedRegs[NullReg] = Null
  <1>1. IntOf(1) \in Value
    BY DEF IntOf, Value
  <1>2. <<"arg", 0>> \in Reg
    BY VMAssumption DEF VMAssumption, Reg, ArgRegs
  <1>3. ZeroReg \in Reg /\ NullReg \in Reg
    BY DEF Reg
  <1>4. ZeroReg # Pn /\ ZeroReg \notin ParamRegs /\ ZeroReg # <<"arg", 0>>
    BY DEF ZeroReg, Pn, ParamRegs
  <1>5. NullReg # Pn /\ NullReg \notin ParamRegs /\ NullReg # <<"arg", 0>>
    BY DEF NullReg, Pn, ParamRegs
  <1> QED
    BY <1>1, <1>2, <1>3, <1>4, <1>5 DEF CopiedRegs, Typed, StateOK, InStack

--------------------------------------------------------------------------------
\* The invariant of a program that stays in the stack.
Frames == ReturnSites /\ BacktraceLinks /\ OwnState
Inv == Typed /\ Frames

\* The operands of an instruction that is executed.
LEMMA Fetch ==
  ASSUME Typed, ip \in Addr
  PROVE  /\ ip \in Nat /\ I.a \in Reg /\ I.b \in Reg /\ I.c \in Reg /\ I.dest \in Nat
         /\ Read(I.a) \in Value \cup {NULL}
         /\ Read(I.b) \in Value \cup {NULL}
         /\ Read(I.c) \in Value \cup {NULL}
         /\ StructAt(ip) \in Value
  <1>1. ip \in Nat
    BY DEF Typed, StateOK, InStack
  <1>2. I \in Instruction
    BY DEF Typed, StateOK, InStack, I
  <1>3. I.a \in Reg /\ I.b \in Reg /\ I.c \in Reg /\ I.dest \in Nat
    BY <1>2 DEF Instruction
  <1> QED
    BY <1>1, <1>3 DEF Typed, StateOK, InStack, Read, StructAt, Value

LEMMA SlotFacts ==
  ASSUME Typed
  PROVE  depth \in Nat /\ StackSize \in Nat /\ depth \in Slots /\ 0 .. depth \subseteq Slots
  BY VMAssumption DEF VMAssumption, Typed, StateOK, InStack, Slots

\* Where frames return to and where they wait does not change.
LEMMA LinksKept ==
  ASSUME Typed, ReturnSites, BacktraceLinks, UNCHANGED <<program, depth>>,
         \A d \in 0 .. depth : /\ stack'[d].return_addr = stack[d].return_addr
                               /\ stack'[d].return_register = stack[d].return_register,
         \A d \in 0 .. depth - 1 : stack'[d].current_addr = stack[d].current_addr
  PROVE  ReturnSites' /\ BacktraceLinks'
  <1>1. depth \in Nat
    BY SlotFacts
  <1>2. ReturnSites'
    <2> SUFFICES ASSUME NEW d \in 1 .. depth
                 PROVE  /\ stack'[d].return_addr - 1 \in Addr
                        /\ program[stack'[d].return_addr - 1].op \in SubCalls
                        /\ program[stack'[d].return_addr - 1].b = stack'[d].return_register
      BY DEF ReturnSites
    <2>1. d \in 0 .. depth
      BY <1>1
    <2> QED
      BY <2>1 DEF ReturnSites, Typed, InStack
  <1>3. BacktraceLinks'
    <2> SUFFICES ASSUME NEW d \in 0 .. depth - 1
                 PROVE  stack'[d + 1].return_addr = stack'[d].current_addr + 1
      BY DEF BacktraceLinks
    <2>1. d + 1 \in 0 .. depth
      BY <1>1
    <2> QED
      BY <2>1 DEF BacktraceLinks, Typed, InStack
  <1> QED
    BY <1>2, <1>3

\* A step that leaves the frames as they are keeps what is said of them.
LEMMA HereStep ==
  ASSUME Typed, Frames, UNCHANGED <<program, depth>>, stack' = Here
  PROVE  stack' \in [Slots -> Frame] /\ Frames'
  <1>1. depth \in Nat /\ 0 .. depth \subseteq Slots
    BY SlotFacts
  <1>2. \A d \in 0 .. depth - 1 : d \in Slots \ {depth}
    BY <1>1
  <1>3. ReturnSites' /\ BacktraceLinks'
    BY <1>1, <1>2, HereFacts, LinksKept DEF Frames
  <1>4. OwnState'
    BY <1>1, HereFacts DEF Frames, OwnState, Typed, InStack
  <1> QED
    BY <1>3, <1>4, HereFacts DEF Frames

\* The registers rs can be those of a VM.
RegsOK(rs) ==
  rs \in [Reg -> Value \cup {NULL}] /\ rs[ZeroReg] = IntOf(0) /\ rs[NullReg] = Null

LEMMA ContinueStep ==
  ASSUME Inv, ip \in Addr, UNCHANGED program,
         NEW rs, RegsOK(rs), NEW r \in Reg, NEW val \in Value \cup {NULL},
         Continue(rs, r, val)
  PROVE  Inv'
  <1>1. stack' \in [Slots -> Frame] /\ Frames'
    BY HereStep DEF Inv, Continue
  <1>2. RegsOK(regs)' /\ status' \in {"running", "crashed"}
    BY WriteFacts DEF Continue, RegsOK
  <1>3. Typed'
    BY <1>1, <1>2 DEF Inv, Typed, StateOK, InStack, Continue, RegsOK, Slots
  <1> QED
    BY <1>1, <1>3 DEF Inv

LEMMA GoToStep ==
  ASSUME Inv, status = "running", UNCHANGED program, NEW dest \in Nat, GoTo(dest)
  PROVE  Inv'
  <1>1. stack' \in [Slots -> Frame] /\ Frames'
    BY HereStep DEF Inv, GoTo
  <1>2. Typed'
    BY <1>1 DEF Inv, Typed, StateOK, InStack, GoTo, Slots
  <1> QED
    BY <1>1, <1>2 DEF Inv

LEMMA HaltStep ==
  ASSUME Inv, UNCHANGED program, NEW how \in {"ended", "crashed"}, NEW rs, RegsOK(rs),
         Halt(how, rs)
  PROVE  Inv'
  <1>1. stack' \in [Slots -> Frame] /\ Frames'
    BY HereStep DEF Inv, Halt
  <1>2. Typed'
    BY <1>1 DEF Inv, Typed, StateOK, InStack, Halt, RegsOK, Slots
  <1> QED
    BY <1>1, <1>2 DEF Inv, Halt

\* An exception without a handler.
LEMMA GiveUpStep ==
  ASSUME Inv, UNCHANGED program, NEW how \in {"uncaught", "crashed"}, NEW exc \in Value,
         NEW rs, RegsOK(rs), GiveUp(how, exc, rs)
  PROVE  Inv'
  <1>1. stack' \in [Slots -> Frame] /\ Frames'
    BY HereStep DEF Inv, GiveUp
  <1>2. Typed'
    BY <1>1 DEF Inv, Typed, StateOK, InStack, GiveUp, RegsOK, Slots
  <1> QED
    BY <1>1, <1>2 DEF Inv

\* The frames after a handler was entered.
LEMMA ResumeFrames ==
  ASSUME Typed, NEW d \in Catching, NEW exc, NEW rs, ResumeIn(d, exc, rs)
  PROVE  /\ stack' \in [Slots -> Frame]
         /\ stack'[d].catch_addr = NoCatch
         /\ \A e \in Slots \ {d} : stack'[e] = Here[e]
         /\ stack'[d].return_addr = Here[d].return_addr
         /\ stack'[d].return_register = Here[d].return_register
         /\ stack'[d].current_addr = Here[d].current_addr
         /\ stack'[d].locals = Here[d].locals
         /\ stack'[d].act = Here[d].act
  <1>1. d \in Slots
    BY SlotFacts DEF Catching
  <1>2. Here \in [Slots -> Frame]
    BY HereFacts
  <1>3. NoCatch \in Nat /\ NullReg \in Reg
    BY VMAssumption DEF VMAssumption, NoCatch, Reg
  <1>4. stack' = [Here EXCEPT ![d].catch_addr = NoCatch, ![d].catch_register = NullReg,
                              ![d].catch_act = 0]
    BY DEF ResumeIn
  <1> DEFINE f == [Here[d] EXCEPT !.catch_addr = NoCatch, !.catch_register = NullReg,
                                  !.catch_act = 0]
  <1> HIDE DEF Here
  <1>5. stack' = [Here EXCEPT ![d] = f]
    BY <1>1, <1>2, <1>4
  <1>6. Here[d] \in Frame
    BY <1>1, <1>2
  <1>7. f \in Frame /\ f.catch_addr = NoCatch
    BY <1>3, <1>6 DEF Frame
  <1>8. /\ f.return_addr = Here[d].return_addr /\ f.return_register = Here[d].return_register
        /\ f.current_addr = Here[d].current_addr /\ f.locals = Here[d].locals
        /\ f.act = Here[d].act
    BY <1>6 DEF Frame
  <1> HIDE DEF f
  <1> QED
    BY <1>1, <1>2, <1>5, <1>7, <1>8

LEMMA ResumeStep ==
  ASSUME Inv, UNCHANGED program, NEW exc \in Value, NEW rs, RegsOK(rs),
         NEW d \in Catching, ResumeIn(d, exc, rs)
  PROVE  Inv'
  <1>1. d \in 0 .. depth /\ depth \in Nat /\ 0 .. depth \subseteq Slots
    BY SlotFacts DEF Inv, Catching
  <1>2. stack[d] \in Frame
    BY <1>1 DEF Inv, Typed, StateOK, InStack, Slots
  <1>3. RegsOK(regs)' /\ status' \in {"running", "crashed"}
    BY <1>2, WriteFacts DEF ResumeIn, RegsOK, Frame
  <1>4. Typed'
    <2>1. stack' \in [Slots -> Frame]
      BY ResumeFrames DEF Inv
    <2>2. ip' \in Nat /\ codeFrame' \in Nat
      BY <1>1, <1>2 DEF ResumeIn, Frame
    <2>3. exception' = exc /\ UNCHANGED <<program, depth, globals, calls>>
      BY DEF ResumeIn
    <2> QED
      BY <1>3, <2>1, <2>2, <2>3 DEF Inv, Typed, StateOK, InStack, RegsOK, Slots
  <1>5. \A e \in 0 .. depth - 1 : e \in Slots \ {depth}
    BY <1>1
  <1>6. UNCHANGED <<program, depth>>
    BY DEF ResumeIn
  <1>7. \A e \in 0 .. depth : /\ stack'[e].return_addr = stack[e].return_addr
                              /\ stack'[e].return_register = stack[e].return_register
    BY <1>1, HereFacts, ResumeFrames DEF Inv
  <1>8. \A e \in 0 .. depth - 1 : stack'[e].current_addr = stack[e].current_addr
    BY <1>5, HereFacts, ResumeFrames DEF Inv
  <1>9. ReturnSites' /\ BacktraceLinks'
    BY <1>6, <1>7, <1>8, LinksKept DEF Inv, Frames
  <1>10. OwnState'
    BY <1>1, <1>6, HereFacts, ResumeFrames DEF Inv, Frames, OwnState, Typed, InStack
  <1> QED
    BY <1>4, <1>9, <1>10 DEF Inv, Frames

LEMMA RaiseStep ==
  ASSUME Inv, UNCHANGED program, NEW exc \in Value, NEW rs, RegsOK(rs), Raise(exc, rs)
  PROVE  Inv'
  BY GiveUpStep, ResumeStep DEF Raise

--------------------------------------------------------------------------------
\* One lemma for each action that changes frames.

LEMMA CatchStep ==
  ASSUME Inv, Catch \/ ClearCatch
  PROVE  Inv'
  <1>1. depth \in Slots /\ depth \in Nat /\ 0 .. depth \subseteq Slots
    BY SlotFacts DEF Inv
  <1>2. ip \in Addr /\ status = "running" /\ UNCHANGED program
    BY DEF Catch, ClearCatch, Executes, Executable
  <1>3. ip \in Nat /\ I.a \in Reg /\ I.dest \in Nat
    BY <1>2, Fetch DEF Inv
  <1>4. NoCatch \in Nat /\ NullReg \in Reg
    BY VMAssumption DEF VMAssumption, NoCatch, Reg
  <1>5. Here \in [Slots -> Frame] /\ Top \in Frame
    BY <1>1, HereFacts DEF Inv, Typed, StateOK, InStack, Top, Slots
  <1>6. PICK a \in Nat, r \in Reg, n \in Nat :
          /\ stack' = [Here EXCEPT ![depth].catch_addr = a, ![depth].catch_register = r,
                                   ![depth].catch_act = n]
          /\ a = NoCatch \/ n = Top.act
    <2>1. CASE Catch
      BY <2>1, <1>3, <1>5 DEF Catch, Frame
    <2>2. CASE ClearCatch
      BY <2>2, <1>4 DEF ClearCatch
    <2> QED
      BY <2>1, <2>2
  <1>7. /\ stack' \in [Slots -> Frame]
        /\ \A d \in Slots \ {depth} : stack'[d] = Here[d]
        /\ stack'[depth].return_addr = Here[depth].return_addr
        /\ stack'[depth].return_register = Here[depth].return_register
        /\ stack'[depth].locals = Here[depth].locals
        /\ stack'[depth].act = Here[depth].act
        /\ stack'[depth].catch_addr = a /\ stack'[depth].catch_act = n
    BY <1>1, <1>5, <1>6 DEF Frame
  <1>8. ip' = ip + 1 /\ UNCHANGED <<program, status, depth, regs, globals, exception, calls, codeFrame>>
    BY <1>2 DEF Catch, ClearCatch
  <1>9. Typed'
    BY <1>3, <1>7, <1>8 DEF Inv, Typed, StateOK, InStack, Slots
  <1>10. ReturnSites' /\ BacktraceLinks'
    <2>1. \A d \in 0 .. depth - 1 : d \in Slots \ {depth}
      BY <1>1
    <2> QED
      BY <1>1, <1>7, <1>8, <2>1, HereFacts, LinksKept DEF Inv, Frames
  <1>11. OwnState'
    BY <1>1, <1>6, <1>7, <1>8, HereFacts DEF Inv, Frames, OwnState, Top, NoCatch, Typed, InStack
  <1> QED
    BY <1>9, <1>10, <1>11 DEF Inv, Frames

LEMMA SetLocalStep ==
  ASSUME Inv, SetLocal
  PROVE  Inv'
  <1>1. depth \in Slots /\ depth \in Nat /\ 0 .. depth \subseteq Slots
    BY SlotFacts DEF Inv
  <1>2. ip \in Addr /\ status = "running" /\ UNCHANGED program /\ Is(I.a, "symbol")
    BY DEF SetLocal, Executes, Executable, BadOperand
  <1>3. ip \in Nat /\ Read(I.a) \in Value \cup {NULL} /\ Read(I.b) \in Value \cup {NULL}
    BY <1>2, Fetch DEF Inv
  <1>4. Read(I.a).v \in Syms
    BY <1>2, <1>3 DEF Is, Value
  <1>5. Here \in [Slots -> Frame] /\ Top \in Frame
    BY <1>1, HereFacts DEF Inv, Typed, StateOK, InStack, Top, Slots
  <1> DEFINE new == [val |-> Read(I.b), act |-> Top.act]
             k == Read(I.a).v
  <1>6. new \in Binding
    BY <1>3, <1>5 DEF Binding, Frame
  <1>7. stack' = [Here EXCEPT ![depth].locals[k] = @ \cup {new}]
    BY DEF SetLocal
  <1> HIDE DEF new, k
  <1>8. /\ stack' \in [Slots -> Frame]
        /\ \A d \in Slots \ {depth} : stack'[d] = Here[d]
        /\ stack'[depth].return_addr = Here[depth].return_addr
        /\ stack'[depth].return_register = Here[depth].return_register
        /\ stack'[depth].catch_addr = Here[depth].catch_addr
        /\ stack'[depth].catch_act = Here[depth].catch_act
        /\ stack'[depth].act = Here[depth].act
        /\ stack'[depth].locals = [Here[depth].locals EXCEPT ![k] = @ \cup {new}]
    <2>1. k \in Syms
      BY <1>4 DEF k
    <2> QED
      BY <1>1, <1>5, <1>6, <1>7, <2>1 DEF Frame
  <1>9. ip' = ip + 1 /\ UNCHANGED <<program, status, depth, regs, globals, exception, calls, codeFrame>>
    BY <1>2 DEF SetLocal
  <1>10. Typed'
    BY <1>3, <1>8, <1>9 DEF Inv, Typed, StateOK, InStack, Slots
  <1>11. ReturnSites' /\ BacktraceLinks'
    <2>1. \A d \in 0 .. depth - 1 : d \in Slots \ {depth}
      BY <1>1
    <2> QED
      BY <1>1, <1>8, <1>9, <2>1, HereFacts, LinksKept DEF Inv, Frames
  <1>12. OwnState'
    <2> SUFFICES ASSUME NEW d \in 0 .. depth
                 PROVE  /\ stack'[d].catch_addr # NoCatch => stack'[d].catch_act = stack'[d].act
                        /\ \A s \in Syms : \A bound \in stack'[d].locals[s] :
                             bound.act = stack'[d].act
      BY <1>9 DEF OwnState, NoCatch
    <2>1. CASE d # depth
      BY <2>1, <1>1, <1>8, HereFacts DEF Inv, Frames, OwnState, Typed, InStack
    <2>2. CASE d = depth
      <3>1. new.act = stack[depth].act
        BY DEF new, Top
      <3>2. Here[depth].locals \in [Syms -> SUBSET Binding]
        BY <1>1, <1>5 DEF Frame
      <3> QED
        BY <2>2, <3>1, <3>2, <1>1, <1>8, HereFacts DEF Inv, Frames, OwnState, Typed, InStack
    <2> QED
      BY <2>1, <2>2
  <1> QED
    BY <1>10, <1>11, <1>12 DEF Inv, Frames

\* A call instruction that is executed goes somewhere.
LEMMA TargetFacts ==
  ASSUME Inv, Executes(SubCalls)
  PROVE  Target \in Nat
  <1>1. ip \in Addr /\ ~BadOperand /\ I.op \in SubCalls
    BY DEF Executes, Executable
  <1>2. I.dest \in Nat /\ Read(I.a) \in Value \cup {NULL}
    BY <1>1, Fetch DEF Inv
  <1>3. CASE I.op = "callsymbolic"
    <2>1. I.dest \in DOMAIN ConstPool /\ ConstPool[I.dest].type = "symbol"
      BY <1>1, <1>3 DEF BadOperand, ReadsConst
    <2>2. ConstPool[I.dest] \in Value
      BY <2>1, VMAssumption DEF VMAssumption
    <2>3. ConstPool[I.dest].v \in Syms
      BY <2>1, <2>2 DEF Value
    <2>4. SymbolTable[ConstPool[I.dest].v] \in Addr
      BY <1>1, <1>3, <2>3, VMAssumption DEF VMAssumption, BadOperand
    <2> QED
      BY <1>3, <2>4 DEF Target, Addr
  <1>4. CASE I.op = "invokesymbolic"
    <2>1. Is(I.a, "symbol")
      BY <1>1, <1>4 DEF BadOperand
    <2>2. Read(I.a).v \in Syms
      BY <1>2, <2>1 DEF Is, Value
    <2>3. SymbolTable[Read(I.a).v] \in Addr
      BY <1>1, <1>4, <2>2, VMAssumption DEF VMAssumption, BadOperand
    <2> QED
      BY <1>4, <2>3 DEF Target, Addr
  <1>5. CASE I.op = "invokeaddress"
    <2>1. Is(I.a, "int")
      BY <1>1, <1>5 DEF BadOperand
    <2>2. Read(I.a).v \in Nat
      BY <1>2, <2>1 DEF Is, Value
    <2> QED
      BY <1>5, <2>2 DEF Target
  <1>6. CASE I.op = "call"
    BY <1>2, <1>6 DEF Target
  <1> QED
    BY <1>1, <1>3, <1>4, <1>5, <1>6 DEF SubCalls

LEMMA CallStep ==
  ASSUME Inv, Call
  PROVE  Inv'
  <1>1. depth \in Slots /\ depth \in Nat /\ 0 .. depth \subseteq Slots /\ StackSize \in Nat
    BY SlotFacts DEF Inv
  <1>2. ip \in Addr /\ status = "running" /\ I.op \in SubCalls /\ UNCHANGED program
    BY DEF Call, Executes, Executable
  <1>3. ip \in Nat /\ I.b \in Reg /\ calls \in Nat /\ codeFrame \in Nat
    BY <1>2, Fetch DEF Inv, Typed, StateOK, InStack
  <1>4. depth + 1 \in Slots
    BY <1>1, <1>2 DEF Call, Executes, Executable, Overruns, Slots
  <1> DEFINE new == NewFrame(ip + 1, I.b, calls + 1, codeFrame)
  <1>5. /\ new \in Frame /\ new.return_addr = ip + 1 /\ new.return_register = I.b
        /\ new.catch_addr = NoCatch /\ (\A s \in Syms : new.locals[s] = {})
    <2>1. ip + 1 \in Nat /\ calls + 1 \in Nat
      BY <1>3
    <2> QED
      BY <1>3, <2>1, NewFrameFacts
  <1>6. stack' = [Here EXCEPT ![depth + 1] = new]
    BY DEF Call
  <1> HIDE DEF new
  <1>7. /\ stack' \in [Slots -> Frame] /\ stack'[depth + 1] = new
        /\ \A d \in Slots \ {depth + 1} : stack'[d] = Here[d]
    BY <1>4, <1>5, <1>6, HereFacts DEF Inv
  <1>8. depth' = depth + 1 /\ UNCHANGED <<status, program, globals, exception>>
    BY <1>2 DEF Call
  <1>9. Typed'
    <2>1. RegsOK(regs)'
      BY CopiedRegsFacts DEF Inv, Call, RegsOK
    <2>2. ip' \in Nat /\ calls' \in Nat /\ codeFrame' \in Nat
      BY <1>1, <1>3, TargetFacts DEF Call
    <2> QED
      BY <1>4, <1>7, <1>8, <2>1, <2>2 DEF Inv, Typed, StateOK, InStack, RegsOK, Slots
  <1>10. \A d \in 0 .. depth : d \in Slots \ {depth + 1}
    BY <1>1
  <1>11. \A d \in 0 .. depth - 1 : d \in Slots \ {depth} /\ d + 1 \in 0 .. depth
    BY <1>1
  <1>12. ReturnSites'
    <2> SUFFICES ASSUME NEW d \in 1 .. depth + 1
                 PROVE  /\ stack'[d].return_addr - 1 \in Addr
                        /\ program[stack'[d].return_addr - 1].op \in SubCalls
                        /\ program[stack'[d].return_addr - 1].b = stack'[d].return_register
      BY <1>8 DEF ReturnSites
    <2>1. CASE d = depth + 1
      <3>1. stack'[d].return_addr - 1 = ip
        BY <2>1, <1>3, <1>5, <1>7
      <3> QED
        BY <3>1, <2>1, <1>2, <1>5, <1>7 DEF I
    <2>2. CASE d # depth + 1
      <3>1. d \in 1 .. depth /\ d \in 0 .. depth
        BY <2>2, <1>1
      <3> QED
        BY <3>1, <1>1, <1>7, <1>10, HereFacts DEF Inv, Frames, ReturnSites, Typed, InStack
    <2> QED
      BY <2>1, <2>2
  <1>13. BacktraceLinks'
    <2> SUFFICES ASSUME NEW d \in 0 .. depth
                 PROVE  stack'[d + 1].return_addr = stack'[d].current_addr + 1
      BY <1>1, <1>8 DEF BacktraceLinks
    <2>1. CASE d = depth
      BY <2>1, <1>1, <1>5, <1>7, <1>10, HereFacts DEF Inv
    <2>2. CASE d # depth
      <3>1. d \in 0 .. depth - 1
        BY <2>2, <1>1
      <3> QED
        BY <3>1, <1>1, <1>7, <1>10, <1>11, HereFacts DEF Inv, Frames, BacktraceLinks, Typed, InStack
    <2> QED
      BY <2>1, <2>2
  <1>14. OwnState'
    <2> SUFFICES ASSUME NEW d \in 0 .. depth + 1
                 PROVE  /\ stack'[d].catch_addr # NoCatch => stack'[d].catch_act = stack'[d].act
                        /\ \A s \in Syms : \A bound \in stack'[d].locals[s] :
                             bound.act = stack'[d].act
      BY <1>8 DEF OwnState, NoCatch
    <2>1. CASE d = depth + 1
      BY <2>1, <1>5, <1>7
    <2>2. CASE d # depth + 1
      <3>1. d \in 0 .. depth
        BY <2>2, <1>1
      <3> QED
        BY <3>1, <1>1, <1>7, <1>10, HereFacts DEF Inv, Frames, OwnState, Typed, InStack
    <2> QED
      BY <2>1, <2>2
  <1> QED
    BY <1>9, <1>12, <1>13, <1>14 DEF Inv, Frames

LEMMA TailCallStep ==
  ASSUME Inv, TailCall
  PROVE  Inv'
  <1>1. depth \in Slots /\ depth \in Nat /\ 0 .. depth \subseteq Slots
    BY SlotFacts DEF Inv
  <1>2. ip \in Addr /\ status = "running" /\ UNCHANGED program
    BY DEF TailCall, Executes, Executable
  <1>3. I.dest \in Nat /\ calls \in Nat /\ Top \in Frame
    BY <1>1, <1>2, Fetch DEF Inv, Typed, StateOK, InStack, Top, Slots
  <1> DEFINE new == NewFrame(Top.return_addr, Top.return_register, calls + 1, Top.caller)
  <1>4. /\ new \in Frame /\ new.return_addr = Top.return_addr
        /\ new.return_register = Top.return_register
        /\ new.catch_addr = NoCatch /\ (\A s \in Syms : new.locals[s] = {})
    <2>1. /\ Top.return_addr \in Nat /\ Top.return_register \in Reg /\ Top.caller \in Nat
          /\ calls + 1 \in Nat
      BY <1>3 DEF Frame
    <2> QED
      BY <2>1, NewFrameFacts
  <1>5. stack' = [stack EXCEPT ![depth] = new]
    BY DEF TailCall
  <1> HIDE DEF new
  <1>6. /\ stack' \in [Slots -> Frame] /\ stack'[depth] = new
        /\ \A d \in Slots \ {depth} : stack'[d] = stack[d]
    BY <1>1, <1>4, <1>5 DEF Inv, Typed, StateOK, InStack, Slots
  <1>7. UNCHANGED <<status, program, depth, globals, exception>>
    BY <1>2 DEF TailCall
  <1>8. Typed'
    <2>1. RegsOK(regs)'
      BY CopiedRegsFacts DEF Inv, TailCall, RegsOK
    <2>2. ip' \in Nat /\ calls' \in Nat /\ codeFrame' \in Nat
      BY <1>1, <1>3 DEF TailCall
    <2> QED
      BY <1>6, <1>7, <2>1, <2>2 DEF Inv, Typed, StateOK, InStack, RegsOK, Slots
  <1>9. \A d \in 0 .. depth - 1 : d \in Slots \ {depth}
    BY <1>1
  <1>10. ReturnSites' /\ BacktraceLinks'
    <2>1. \A d \in 0 .. depth : /\ stack'[d].return_addr = stack[d].return_addr
                                /\ stack'[d].return_register = stack[d].return_register
      BY <1>1, <1>4, <1>6 DEF Top
    <2> QED
      BY <1>6, <1>7, <1>9, <2>1, LinksKept DEF Inv, Frames
  <1>11. OwnState'
    BY <1>1, <1>4, <1>6, <1>7 DEF Inv, Frames, OwnState, NoCatch, Typed, InStack
  <1> QED
    BY <1>8, <1>10, <1>11 DEF Inv, Frames

LEMMA ReturnStep ==
  ASSUME Inv, Return
  PROVE  Inv'
  <1>1. depth \in Slots /\ depth \in Nat /\ 0 .. depth \subseteq Slots /\ StackSize \in Nat
    BY SlotFacts DEF Inv
  <1>2. ip \in Addr /\ status = "running" /\ UNCHANGED program
    BY DEF Return, Executes, Executable
  <1>3. StructAt(ip) \in Value /\ Read(I.a) \in Value \cup {NULL} /\ RegsOK(regs)
    BY <1>2, Fetch DEF Inv, Typed, StateOK, InStack, RegsOK
  <1>4. CASE depth = 0
    BY <1>2, <1>3, <1>4, RaiseStep DEF Return, RaiseNew
  <1>5. CASE depth # 0
    <2>1. Top \in Frame
      BY <1>1 DEF Inv, Typed, StateOK, InStack, Top, Slots
    <2>2. /\ ip' = Top.return_addr /\ depth' = depth - 1 /\ stack' = Here
          /\ Write(regs, Top.return_register, Read(I.a)) /\ codeFrame' = Top.caller
          /\ UNCHANGED <<globals, exception, calls>>
      BY <1>5 DEF Return
    <2>3. RegsOK(regs)' /\ status' \in {"running", "crashed"}
      BY <1>3, <2>1, <2>2, WriteFacts DEF RegsOK, Frame
    <2>4. depth' \in Slots /\ 0 .. depth' \subseteq Slots \ {depth} /\ depth' \in Nat
          /\ 0 .. depth' \subseteq 0 .. depth
          /\ 0 .. depth' - 1 \subseteq 0 .. depth - 1
          /\ 1 .. depth' \subseteq 1 .. depth
      BY <1>1, <1>5, <2>2 DEF Slots
    <2>5. Typed'
      <3>1. ip' \in Nat /\ codeFrame' \in Nat
        BY <2>1, <2>2 DEF Frame
      <3>2. stack' \in [Slots -> Frame]
        BY <2>2, HereFacts DEF Inv
      <3> QED
        BY <1>2, <2>2, <2>3, <2>4, <3>1, <3>2 DEF Inv, Typed, StateOK, InStack, RegsOK, Slots
    <2>6. \A d \in 0 .. depth' : stack'[d] = stack[d]
      BY <2>2, <2>4, HereFacts DEF Inv
    <2>7. ReturnSites'
      <3> SUFFICES ASSUME NEW d \in 1 .. depth'
                   PROVE  /\ stack'[d].return_addr - 1 \in Addr
                          /\ program[stack'[d].return_addr - 1].op \in SubCalls
                          /\ program[stack'[d].return_addr - 1].b = stack'[d].return_register
        BY <1>2 DEF ReturnSites
      <3>1. d \in 1 .. depth /\ d \in 0 .. depth'
        BY <2>4
      <3> QED
        BY <2>6, <3>1 DEF Inv, Frames, ReturnSites, Typed, InStack
    <2>8. BacktraceLinks'
      <3> SUFFICES ASSUME NEW d \in 0 .. depth' - 1
                   PROVE  stack'[d + 1].return_addr = stack'[d].current_addr + 1
        BY DEF BacktraceLinks
      <3>1. d \in 0 .. depth' /\ d + 1 \in 0 .. depth' /\ d \in 0 .. depth - 1
        BY <1>1, <1>5, <2>2
      <3> QED
        BY <2>6, <3>1 DEF Inv, Frames, BacktraceLinks, Typed, InStack
    <2>9. OwnState'
      BY <2>4, <2>6 DEF Inv, Frames, OwnState, NoCatch, Typed, InStack
    <2> QED
      BY <2>5, <2>7, <2>8, <2>9 DEF Inv, Frames
  <1> QED
    BY <1>4, <1>5

--------------------------------------------------------------------------------
LEMMA InitInv == Init => Inv
  <1> SUFFICES ASSUME Init PROVE Inv
    OBVIOUS
  <1>1. StackSize \in Nat /\ StackSize # 0 /\ NGen \in Nat \ {0}
    BY VMAssumption DEF VMAssumption
  <1>2. <<"gen", 0>> \in Reg /\ ZeroReg \in Reg /\ NullReg \in Reg
    BY <1>1 DEF Reg, GenRegs
  <1> DEFINE root == NewFrame(0, <<"gen", 0>>, 0, 0)
  <1>3. root \in Frame /\ root.catch_addr = NoCatch /\ (\A s \in Syms : root.locals[s] = {})
    <2>1. 0 \in Nat
      OBVIOUS
    <2> QED
      BY <1>2, <2>1, NewFrameFacts
  <1>4. stack = [d \in Slots |-> root]
    BY DEF Init, Slots
  <1> HIDE DEF root
  <1>5. regs \in [Reg -> Value \cup {NULL}] /\ regs[ZeroReg] = IntOf(0) /\ regs[NullReg] = Null
    <2>1. IntOf(0) \in Value /\ Null \in Value /\ NullReg # ZeroReg
      BY DEF IntOf, Null, Value, NullReg, ZeroReg
    <2> QED
      BY <1>2, <2>1 DEF Init
  <1>6. program \in [Addr -> Instruction]
    BY VMAssumption DEF VMAssumption, Init
  <1>7. Typed
    BY <1>1, <1>3, <1>4, <1>5, <1>6 DEF Init, Typed, StateOK, InStack, Slots
  <1>8. depth = 0 /\ 0 \in Slots
    BY <1>1 DEF Init, Slots
  <1>9. ReturnSites /\ BacktraceLinks
    BY <1>8 DEF ReturnSites, BacktraceLinks
  <1>10. OwnState
    BY <1>3, <1>4, <1>8 DEF OwnState
  <1> QED
    BY <1>7, <1>9, <1>10 DEF Init, Inv, Frames

LEMMA AnyObjectFacts ==
  ASSUME ip \in Nat
  PROVE  AnyObject \subseteq Value
  BY VMAssumption DEF VMAssumption, AnyObject, Null, StructAt, ArrayAt, StringAt, SymbolOf, IntOf, Value

\* An instruction that only writes a register or only jumps.
LEMMA PlainStep ==
  ASSUME Inv, Noop \/ Branch \/ Assign \/ Math \/ GetLocal \/ GetGlobal \/ CallPrimitive
  PROVE  Inv'
  <1>1. ip \in Addr /\ status = "running" /\ UNCHANGED program /\ ~BadOperand
    BY DEF Noop, Branch, Assign, Math, GetLocal, GetGlobal, CallPrimitive, Executes, Executable
  <1>2. /\ ip \in Nat /\ I.a \in Reg /\ I.b \in Reg /\ I.dest \in Nat
        /\ Read(I.a) \in Value \cup {NULL} /\ Read(I.b) \in Value \cup {NULL}
        /\ Read(I.c) \in Value \cup {NULL} /\ StructAt(ip) \in Value
    BY <1>1, Fetch DEF Inv
  <1>3. RegsOK(regs) /\ RegsOK(CopiedRegs)
    BY CopiedRegsFacts DEF Inv, Typed, StateOK, InStack, RegsOK
  <1>4. Null \in Value /\ \A n \in Nat : IntOf(n) \in Value
    BY DEF Null, IntOf, Value
  <1>5. Ints \subseteq Nat
    BY VMAssumption DEF VMAssumption
  <1>6. CASE Noop
    BY <1>1, <1>2, <1>6, GoToStep DEF Noop
  <1>7. CASE Branch
    <2>1. I.op = "gotoaddress" => Read(I.a).v \in Nat
      BY <1>1, <1>2 DEF BadOperand, Is, Value
    <2>2. ip + 1 \in Nat
      BY <1>2
    <2> QED
      BY <1>1, <1>2, <1>7, <2>1, <2>2, GoToStep DEF Branch, Executes
  <1>8. CASE Assign
    <2>1. I.op = "set" => ConstPool[I.dest] \in Value
      BY <1>1, VMAssumption DEF VMAssumption, BadOperand, ReadsConst
    <2>2. ArrayAt(ip) \in Value
      BY <1>2 DEF ArrayAt, Value
    <2>3. \E val \in Value \cup {NULL} : Continue(regs, I.a, val)
      BY <1>2, <1>4, <1>5, <1>8, <2>1, <2>2 DEF Assign, Executes
    <2> QED
      BY <1>1, <1>2, <1>3, <2>3, ContinueStep
  <1>9. CASE Math
    <2>1. CASE RaiseNew(regs)
      BY <1>1, <1>2, <1>3, <2>1, RaiseStep DEF RaiseNew
    <2>2. CASE \E n \in Ints : Continue(regs, I.a, IntOf(n))
      BY <1>1, <1>2, <1>3, <1>4, <1>5, <2>2, ContinueStep
    <2> QED
      BY <1>9, <2>1, <2>2 DEF Math
  <1>10. CASE GetLocal
    <2>1. CASE RaiseNew(regs)
      BY <1>1, <1>2, <1>3, <2>1, RaiseStep DEF RaiseNew
    <2>2. ASSUME NEW bound \in Top.locals[Read(I.b).v], bound.val # NULL,
                 Continue(regs, I.a, bound.val)
          PROVE  Inv'
      <3>1. Top \in Frame
        BY SlotFacts DEF Inv, Typed, StateOK, InStack, Top, Slots
      <3>2. Read(I.b).v \in Syms
        BY <1>1, <1>2, <1>10 DEF GetLocal, Executes, BadOperand, Is, Value
      <3>3. bound \in Binding
        BY <3>1, <3>2 DEF Frame
      <3>4. bound.val \in Value \cup {NULL}
        BY <3>3 DEF Binding
      <3> QED
        BY <1>1, <1>2, <1>3, <2>2, <3>4, ContinueStep
    <2> QED
      BY <1>10, <2>1, <2>2 DEF GetLocal
  <1>11. CASE GetGlobal
    <2>1. Read(I.b).v \in Syms
      BY <1>1, <1>2, <1>11 DEF GetGlobal, Executes, BadOperand, Is, Value
    <2>2. globals[Read(I.b).v] \subseteq Value \cup {NULL}
      BY <2>1 DEF Inv, Typed, StateOK, InStack
    <2> QED
      BY <1>1, <1>2, <1>3, <1>11, <2>2, ContinueStep DEF GetGlobal
  <1>12. CASE CallPrimitive
    <2> DEFINE ret == IF I.op = "callprimitive" THEN I.a ELSE I.b
    <2>1. ret \in Reg
      BY <1>2
    <2>2. CASE RaiseNew(CopiedRegs)
      BY <1>1, <1>2, <1>3, <2>2, RaiseStep DEF RaiseNew
    <2>3. ASSUME NEW val \in AnyObject, Continue(CopiedRegs, ret, val)
          PROVE  Inv'
      <3>1. val \in Value \cup {NULL}
        BY AnyObjectFacts, <1>2
      <3> QED
        BY <1>1, <1>3, <2>1, <2>3, <3>1, ContinueStep
    <2>4. CASE \E how \in {"ended", "crashed"} : Halt(how, CopiedRegs)
      BY <1>1, <1>3, <2>4, HaltStep
    <2> QED
      BY <1>12, <2>2, <2>3, <2>4 DEF CallPrimitive
  <1> QED
    BY <1>6, <1>7, <1>8, <1>9, <1>10, <1>11, <1>12

\* The instructions on structures, arrays and symbols.
LEMMA DataStep ==
  ASSUME Inv, Symbolicate \/ StoreElement \/ LoadElement
  PROVE  Inv'
  <1>1. ip \in Addr /\ status = "running" /\ UNCHANGED program
    BY DEF Symbolicate, StoreElement, LoadElement, Executes, Executable
  <1>2. ip \in Nat /\ ip + 1 \in Nat /\ I.a \in Reg /\ StructAt(ip) \in Value
    BY <1>1, Fetch DEF Inv
  <1>3. RegsOK(regs)
    BY DEF Inv, Typed, StateOK, InStack, RegsOK
  <1>4. CASE RaiseNew(regs)
    BY <1>1, <1>2, <1>3, <1>4, RaiseStep DEF RaiseNew
  <1>5. CASE Halt("crashed", regs)
    BY <1>1, <1>3, <1>5, HaltStep
  <1>6. CASE GoTo(ip + 1)
    BY <1>1, <1>2, <1>6, GoToStep
  <1>7. CASE \E val \in Value \cup {NULL} : Continue(regs, I.a, val)
    BY <1>1, <1>2, <1>3, <1>7, ContinueStep
  <1>8. AnyObject \subseteq Value /\ \A s \in Syms : SymbolOf(s) \in Value
    BY <1>2, AnyObjectFacts DEF Value, SymbolOf
  <1> QED
    BY <1>4, <1>5, <1>6, <1>7, <1>8 DEF Symbolicate, StoreElement, LoadElement

\* The instructions about exceptions, and the ones that end the program.
LEMMA ExceptionStep ==
  ASSUME Inv, Throw \/ SetException \/ ClearException \/ Die \/ Crash \/ SetGlobal
  PROVE  Inv'
  <1>1. RegsOK(regs)
    BY DEF Inv, Typed, StateOK, InStack, RegsOK
  <1>2. CASE Crash
    <2>1. Typed'
      BY <1>2 DEF Crash, Inv, Typed, StateOK, InStack
    <2>2. Frames'
      BY <1>2 DEF Crash, Inv, Frames, ReturnSites, BacktraceLinks, OwnState, NoCatch, Typed, InStack
    <2> QED
      BY <1>2, <2>1, <2>2 DEF Crash, Inv
  <1>3. CASE ~Crash
    <2>1. ip \in Addr /\ status = "running" /\ UNCHANGED program /\ ~BadOperand
      BY <1>3 DEF Throw, SetException, ClearException, Die, SetGlobal, Executes, Executable
    <2>2. /\ ip \in Nat /\ I.a \in Reg /\ StructAt(ip) \in Value
          /\ Read(I.a) \in Value \cup {NULL} /\ Read(I.b) \in Value \cup {NULL}
      BY <2>1, Fetch DEF Inv
    <2>3. CASE Throw
      BY <1>1, <2>1, <2>2, <2>3, RaiseStep, GiveUpStep DEF Throw, RaiseNew, RaiseOwn, Is
    <2>4. CASE SetException
      <3>1. exception \in Value \cup {NULL}
        BY DEF Inv, Typed, StateOK, InStack
      <3> QED
        BY <1>1, <2>1, <2>2, <2>4, <3>1, RaiseStep, ContinueStep DEF SetException, RaiseNew
    <2>5. CASE Die
      BY <1>1, <2>1, <2>5, HaltStep DEF Die
    <2>6. CASE ClearException \/ SetGlobal
      <3>1. stack' \in [Slots -> Frame] /\ Frames'
        BY <2>1, <2>6, HereStep DEF Inv, ClearException, SetGlobal
      <3>2. globals' \in [Syms -> SUBSET (Value \cup {NULL})]
        <4>1. SetGlobal => Read(I.a).v \in Syms
          BY <2>1, <2>2 DEF SetGlobal, Executes, BadOperand, Is, Value
        <4> QED
          BY <2>2, <2>6, <4>1 DEF ClearException, SetGlobal, Inv, Typed, StateOK, InStack
      <3>3. /\ UNCHANGED <<program, depth, regs, calls, codeFrame>>
            /\ ip' \in Nat /\ status' = "running"
            /\ exception' \in Value \cup {NULL}
        BY <2>1, <2>2, <2>6 DEF ClearException, SetGlobal, Inv, Typed, StateOK, InStack
      <3>4. Typed'
        BY <3>1, <3>2, <3>3 DEF Inv, Typed, StateOK, InStack, Slots
      <3> QED
        BY <3>1, <3>3, <3>4 DEF Inv
    <2> QED
      BY <1>3, <2>3, <2>4, <2>5, <2>6
  <1> QED
    BY <1>2, <1>3

LEMMA NextInv ==
  ASSUME Inv, [Next]_vars, ~Overrun
  PROVE  Inv'
  <1>1. CASE Next
    BY <1>1, CatchStep, SetLocalStep, CallStep, TailCallStep, ReturnStep, PlainStep,
       ExceptionStep, DataStep DEF Next
  <1>2. CASE UNCHANGED vars
    <2>1. Typed'
      BY <1>2 DEF Inv, Typed, StateOK, InStack, Slots, vars
    <2>2. Frames'
      BY <1>2 DEF Inv, Typed, InStack, Frames, ReturnSites, BacktraceLinks, OwnState, NoCatch, vars
    <2> QED
      BY <2>1, <2>2 DEF Inv
  <1> QED
    BY <1>1, <1>2

\* The inductive invariant: a call that overruns the stack ends the program as far as
\* anything is known of it.
IInv == TypeOK /\ (InStack => Inv)

LEMMA InvFacts == Inv => IInv
  BY VMAssumption DEF VMAssumption, Inv, IInv, Typed, TypeOK, Slots

LEMMA InitIInv == Init => IInv
  BY InitInv, InvFacts

LEMMA NextIInv == IInv /\ [Next]_vars => IInv'
  <1> SUFFICES ASSUME IInv, [Next]_vars PROVE IInv'
    OBVIOUS
  <1>1. CASE ~InStack
    <2>1. UNCHANGED vars
      <3>1. status # "running"
        BY <1>1 DEF InStack
      <3> QED
        BY <3>1 DEF Next, Crash, Overrun, Noop, Die, Branch, Assign, Math, Call, TailCall, Return,
           CallPrimitive, Catch, ClearCatch, ClearException, SetException, Throw, SetLocal,
           GetLocal, SetGlobal, GetGlobal, Symbolicate, StoreElement, LoadElement, Executes
    <2> QED
      BY <1>1, <2>1 DEF IInv, InStack, TypeOK, StateOK, vars
  <1>2. CASE Overrun
    <2>1. StateOK' /\ ~InStack'
      BY <1>2 DEF IInv, TypeOK, StateOK, InStack, Overrun
    <2>2. depth \in Slots /\ depth' = depth + 1 /\ depth + 1 >= StackSize /\ StackSize \in Nat
      BY <1>2, SlotFacts DEF IInv, Inv, InStack, Overrun, Overruns
    <2>3. depth' = StackSize
      BY <2>2 DEF Slots
    <2> QED
      BY <2>1, <2>2, <2>3 DEF IInv, TypeOK
  <1>3. CASE InStack /\ ~Overrun
    <2>1. Inv'
      BY <1>3, NextInv DEF IInv
    <2>2. TypeOK'
      BY <2>1, VMAssumption DEF VMAssumption, Inv, Typed, TypeOK, Slots
    <2> QED
      BY <2>1, <2>2 DEF IInv
  <1> QED
    BY <1>1, <1>2, <1>3

\* For every program: the interpreter's state stays well typed, $zero and $null keep
\* their values, and the depth stays between the root and the first frame beyond the
\* stack, which it reaches only by a call that overruns it.
THEOREM TypeCorrect == Spec => []TypeOK
  <1>1. IInv => TypeOK
    BY DEF IInv
  <1> QED
    BY <1>1, InitIInv, NextIInv, PTL DEF Spec

\* For every program and any nesting of calls, tail calls and exceptions: each
\* live frame returns after the call instruction that made it, into its register.
THEOREM ReturnsToCaller == Spec => []ReturnSites
  <1>1. IInv => ReturnSites
    BY DEF IInv, Inv, Frames, ReturnSites
  <1> QED
    BY <1>1, InitIInv, NextIInv, PTL DEF Spec

\* For every program: a backtrace reads, in each frame below the top, the address
\* of the call that frame is waiting for.
THEOREM BacktraceFollowsCalls == Spec => []BacktraceLinks
  <1>1. IInv => BacktraceLinks
    BY DEF IInv, Inv, Frames, BacktraceLinks
  <1> QED
    BY <1>1, InitIInv, NextIInv, PTL DEF Spec

\* For every program: no activation sees a handler or a local of an earlier one.
THEOREM FramesAreFresh == Spec => []OwnState
  <1>1. IInv => OwnState
    BY DEF IInv, Inv, Frames, OwnState
  <1> QED
    BY <1>1, InitIInv, NextIInv, PTL DEF Spec

--------------------------------------------------------------------------------
\* Entering a handler leaves none in its frame or above.
LEMMA RaiseUsesHandler ==
  ASSUME Typed, NEW exc, NEW rs, Raise(exc, rs), status' = "running"
  PROVE  \E d \in Catching :
           /\ ip' = stack[d].catch_addr
           /\ \A e \in d .. depth' : stack'[e].catch_addr = NoCatch
  <1>1. ~GiveUp("uncaught", exc, rs)
    BY DEF GiveUp
  <1>2. PICK d \in Catching : (\A e \in Catching : e <= d) /\ ResumeIn(d, exc, rs)
    BY <1>1 DEF Raise
  <1>3. ip' = stack[d].catch_addr /\ depth' = depth
    BY <1>2 DEF ResumeIn
  <1>4. d \in 0 .. depth /\ depth \in Nat /\ 0 .. depth \subseteq Slots
    BY SlotFacts DEF Catching
  <1>5. ASSUME NEW e \in d .. depth PROVE stack'[e].catch_addr = NoCatch
    <2>1. CASE e = d
      BY <1>2, <2>1, ResumeFrames
    <2>2. CASE e # d
      <3>1. e \in Slots \ {d} /\ e \in 0 .. depth /\ ~(e <= d)
        BY <1>4, <2>2
      <3>2. stack[e].catch_addr = NoCatch
        BY <1>2, <3>1 DEF Catching
      <3> QED
        BY <1>2, <3>1, <3>2, HereFacts, ResumeFrames
    <2> QED
      BY <2>1, <2>2
  <1> QED
    BY <1>3, <1>5

\* For every program: an exception resumes in the innermost handler and uses it up.
THEOREM HandlersUsedUp == Spec => HandlerUsedOnce
  <1>1. ASSUME IInv, Next, status = "running", status' = "running", Raises
        PROVE  \E d \in Catching :
                 /\ ip' = stack[d].catch_addr
                 /\ \A e \in d .. depth' : stack'[e].catch_addr = NoCatch
    <2>1. Typed
      BY <1>1 DEF IInv, Inv, InStack
    <2> SUFFICES \E exc, rs : Raise(exc, rs)
      BY <1>1, <2>1, RaiseUsesHandler
    <2>2. CASE Throw \/ Return
      BY <1>1, <2>2 DEF Throw, Return, RaiseNew, RaiseOwn, GiveUp, Raises, Executes
    <2>3. CASE SetException \/ Math \/ GetLocal \/ CallPrimitive
      BY <1>1, <2>3 DEF SetException, Math, GetLocal, CallPrimitive, RaiseNew, Continue, Halt,
                        Raises, Executes
    <2>4. CASE Symbolicate \/ StoreElement \/ LoadElement
      BY <1>1, <2>4 DEF Symbolicate, StoreElement, LoadElement, RaiseNew, Continue, GoTo, Halt,
                        Raises, Executes
    <2>5. CASE Crash \/ Overrun
      BY <1>1, <2>5 DEF Crash, Overrun
    <2>6. CASE Noop \/ Die \/ Branch \/ Assign \/ SetLocal \/ SetGlobal \/ GetGlobal
      BY <1>1, <2>6 DEF Noop, Die, Branch, Assign, SetLocal, SetGlobal, GetGlobal, Continue,
                        GoTo, Halt, Raises, Executes
    <2>7. CASE Call \/ TailCall \/ Catch \/ ClearCatch \/ ClearException
      BY <1>1, <2>7 DEF Call, TailCall, Catch, ClearCatch, ClearException, Raises, Executes,
                        SubCalls
    <2> QED
      BY <1>1, <2>2, <2>3, <2>4, <2>5, <2>6, <2>7 DEF Next
  <1>2. IInv /\ [Next]_vars =>
          [(status = "running" /\ status' = "running" /\ Raises) =>
             \E d \in Catching :
               /\ ip' = stack[d].catch_addr
               /\ \A e \in d .. depth' : stack'[e].catch_addr = NoCatch]_vars
    BY <1>1
  <1> QED
    BY <1>2, InitIInv, NextIInv, PTL DEF Spec, HandlerUsedOnce
================================================================================
