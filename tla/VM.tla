----------------------------------- MODULE VM -----------------------------------
(***************************************************************************)
(* The interpreter of vm.c and vm-dispatch.include.c: frames, subroutine   *)
(* calls and returns, exceptions and their handlers, registers and         *)
(* variables.  One action per group of opcodes that share their control    *)
(* flow; the program is arbitrary and an address is the index of an        *)
(* instruction (so the ip++ and the operand lengths are ip + 1).           *)
(*                                                                         *)
(* Data is kept to what control depends on: a value is its type with, for  *)
(* an integer its number, for a symbol its id, and for a structure the     *)
(* address of the instruction that made it.  A struct lookup is used by    *)
(* its contract (module ObjStruct, ResultStored): NULL or one of the       *)
(* objects stored under the id.                                            *)
(***************************************************************************)
EXTENDS Naturals

CONSTANTS
  Programs,     \* instruction memories, functions from addresses to instructions
  LastAddr,     \* addresses are 0 .. LastAddr
  NGen, NArgs,  \* HVM_GENERAL_REGISTERS, HVM_ARGUMENT_REGISTERS
  StackSize,    \* HVM_STACK_SIZE
  Syms,         \* symbol ids
  ConstPool,    \* the objects of vm->const_pool, by index
  SymbolTable,  \* where vm->symbol_table sends each symbol, NULL for none
  Ints,         \* integers arithmetic can produce
  NULL,         \* the C null pointer
  MaxCalls      \* bound of the model: subroutine activations in one run

Addr == 0 .. LastAddr
Value == [type : {"null", "int", "string", "struct", "array"}, v : Nat]
           \cup [type : {"symbol"}, v : Syms]
IntOf(n) == [type |-> "int", v |-> n]
Null == [type |-> "null", v |-> 0]              \* hvm_const_null
StructAt(a) == [type |-> "struct", v |-> a]
ArrayAt(a) == [type |-> "array", v |-> a]
StringAt(a) == [type |-> "string", v |-> a]
SymbolOf(s) == [type |-> "symbol", v |-> s]

\* REGISTER MAP of vm.c
GenRegs == {"gen"} \X (0 .. NGen - 1)
ArgRegs == {"arg"} \X (0 .. NArgs - 1)
ParamRegs == {"param"} \X (0 .. NArgs - 1)
Pn == <<"param", NArgs>>                        \* special parameter length register
ZeroReg == <<"zero", 0>>
NullReg == <<"null", 0>>
Reg == GenRegs \cup ArgRegs \cup ParamRegs \cup {Pn, ZeroReg, NullReg}

Ops == {"noop", "die", "goto", "gotoaddress", "if", "call", "callsymbolic", "tailcall",
        "invokesymbolic", "invokeaddress", "callprimitive", "invokeprimitive",
        "catch", "clearcatch", "clearexception", "setexception", "throw", "return",
        "litinteger", "set", "setnull", "move", "setlocal", "getlocal", "setglobal",
        "getglobal", "getclosure", "math", "div", "and", "symbolicate",
        "structnew", "structset", "structget", "structdelete",
        "arraynew", "arraypush", "arraypop", "arrayget", "arrayset", "arraylen"}
Instruction == [op : Ops, a : Reg, b : Reg, c : Reg, dest : Nat]

ASSUME VMAssumption ==
  /\ LastAddr \in Nat /\ NGen \in Nat \ {0} /\ NArgs \in Nat \ {0}
  /\ StackSize \in Nat \ {0} /\ MaxCalls \in Nat
  /\ Programs \subseteq [Addr -> Instruction]
  /\ Syms \subseteq Nat /\ Ints \subseteq Nat
  /\ SymbolTable \in [Syms -> Addr \cup {NULL}]
  /\ ConstPool \in [DOMAIN ConstPool -> Value]
  /\ NULL \notin Value /\ NULL \notin Nat

VARIABLES
  program,      \* vm->program, loaded before hvm_vm_run
  status,       \* "running", "ended" (DIE, exit), "uncaught", "crashed", "undefined"
  ip,           \* vm->ip
  depth,        \* vm->stack_depth; vm->top is always &vm->stack[depth]
  stack,        \* vm->stack: frames above depth keep what they held
  regs,         \* all registers
  globals,      \* what was stored under each symbol in vm->globals
  exception,    \* vm->exception
  calls,        \* history: activations so far
  codeFrame     \* history: the frame whose code ip is in

vars == <<program, status, ip, depth, stack, regs, globals, exception, calls, codeFrame>>

NoCatch == LastAddr + 1                         \* HVM_FRAME_EMPTY_CATCH
Binding == [val : Value \cup {NULL}, act : Nat]
\* act, catch_act, caller and a binding's act are history: the activation the
\* frame belongs to, the one that executed CATCH, the frame whose code made the
\* call and the activation that executed SETLOCAL.
Frame == [current_addr : Nat, return_addr : Nat, return_register : Reg,
          catch_addr : Nat, catch_register : Reg,
          locals : [Syms -> SUBSET Binding], act : Nat, catch_act : Nat, caller : Nat]

\* hvm_frame_initialize and hvm_frame_initialize_returning
NewFrame(return_addr, return_register, act, caller) ==
  [current_addr |-> 0, return_addr |-> return_addr, return_register |-> return_register,
   catch_addr |-> NoCatch, catch_register |-> NullReg,
   locals |-> [s \in Syms |-> {}], act |-> act, catch_act |-> 0,
   caller |-> caller]

\* hvm_new_vm
Init ==
  /\ program \in Programs
  /\ status = "running" /\ ip = 0 /\ depth = 0
  /\ stack = [d \in 0 .. StackSize - 1 |-> NewFrame(0, <<"gen", 0>>, 0, 0)]
  /\ regs = [r \in Reg |-> IF r = ZeroReg THEN IntOf(0) ELSE Null]
  /\ globals = [s \in Syms |-> {}]
  /\ exception = NULL
  /\ calls = 0 /\ codeFrame = 0

--------------------------------------------------------------------------------
I == program[ip]
Top == stack[depth]
\* The frames once EXECUTE has noted the current address.
Here_mAfterFetch == [stack EXCEPT ![depth].current_addr = ip + 1]
Here == [stack EXCEPT ![depth].current_addr = ip]

ReadsA == {"gotoaddress", "if", "invokesymbolic", "invokeaddress", "invokeprimitive",
           "throw", "return", "setlocal", "setglobal", "structset", "arraypush", "arrayset"}
ReadsB == {"move", "setlocal", "getlocal", "setglobal", "getglobal", "math", "div", "and",
           "symbolicate", "structset", "structget", "structdelete", "arraynew", "arraypush",
           "arraypop", "arrayget", "arrayset", "arraylen"}
ReadsC == {"math", "div", "and", "structset", "structget", "structdelete", "arrayget", "arrayset"}
ReadsConst == {"callsymbolic", "callprimitive", "set"}
SubCalls == {"call", "callsymbolic", "invokesymbolic", "invokeaddress"}

Read(r) == regs[r]                              \* _hvm_vm_register_read
Is(r, t) == Read(r) # NULL /\ Read(r).type = t

\* _hvm_obj_is_falsey
Falsey(val) == val.type = "null" \/ (val.type = "int" /\ val.v = 0)

\* Register operands _hvm_vm_register_read refuses.
BadRegister ==
  \/ I.op \in ReadsA /\ I.a \in ArgRegs /\ (I.op = "return" => depth > 0)
  \/ I.op \in ReadsB /\ I.b \in ArgRegs
  \/ I.op \in ReadsC /\ I.c \in ArgRegs

\* Operands an assertion of the instruction refuses, whose null pointer it
\* follows, or by which it divides by zero.
BadOperand ==
  \/ I.op \in {"if", "throw"} /\ Read(I.a) = NULL
  \/ I.op \in {"gotoaddress", "invokeaddress"} /\ ~Is(I.a, "int")
  \/ I.op \in {"invokesymbolic", "invokeprimitive", "setlocal", "setglobal"} /\ ~Is(I.a, "symbol")
  \/ I.op \in {"getlocal", "getglobal"} /\ ~Is(I.b, "symbol")
  \/ I.op \in ReadsConst /\ I.dest \notin DOMAIN ConstPool
  \/ I.op \in {"callsymbolic", "callprimitive"} /\ ConstPool[I.dest].type # "symbol"
  \/ I.op = "callsymbolic" /\ SymbolTable[ConstPool[I.dest].v] = NULL
  \/ I.op = "invokesymbolic" /\ SymbolTable[Read(I.a).v] = NULL
  \/ I.op \in {"math", "div", "and"} /\ Read(I.b) = NULL
  \/ I.op \in {"math", "div"} /\ Read(I.c) = NULL
  \/ I.op = "div" /\ Is(I.b, "int") /\ Read(I.c) = IntOf(0)
  \/ I.op = "and" /\ ~Falsey(Read(I.b)) /\ Read(I.c) = NULL
  \/ I.op \in {"structget", "symbolicate"} /\ Read(I.b) = NULL
  \/ I.op = "structset" /\ ~(Is(I.a, "struct") /\ Is(I.b, "symbol"))
  \/ I.op = "structdelete" /\ ~(Is(I.b, "struct") /\ Is(I.c, "symbol"))
  \/ I.op = "structget" /\ Is(I.b, "struct") /\ ~Is(I.c, "symbol")
  \/ I.op = "arraynew" /\ ~(Is(I.b, "int") \/ Is(I.b, "null"))
  \/ I.op \in {"arraypush", "arrayset"} /\ ~Is(I.a, "array")
  \/ I.op \in {"arraypop", "arrayget", "arraylen"} /\ ~Is(I.b, "array")
  \/ I.op = "arrayset" /\ ~Is(I.b, "int")
  \/ I.op = "arrayget" /\ ~Is(I.c, "int")

Executable == ip \in Addr /\ ~BadRegister /\ ~BadOperand

\* A failed assertion, an invalid access, or an ip that left the program.
Crash ==
  /\ status = "running" /\ ~Executable
  /\ status' = "crashed"
  /\ UNCHANGED <<program, ip, depth, stack, regs, globals, exception, calls, codeFrame>>

\* A call does not compare stack_depth with HVM_STACK_SIZE: the frame it makes may
\* lie beyond vm->stack, and what the program does from there on is undefined.
Overruns == I.op \in SubCalls /\ depth + 1 >= StackSize
Overrun ==
  /\ status = "running" /\ Executable /\ Overruns
  /\ status' = "undefined"
  /\ depth' = depth + 1
  /\ UNCHANGED <<program, ip, stack, regs, globals, exception, calls, codeFrame>>

Executes(ops) ==
  /\ status = "running" /\ ip \in Addr /\ I.op \in ops /\ Executable
  /\ UNCHANGED program

\* _hvm_vm_register_write to the registers rs: a no-op on $zero, $null and $pn,
\* a failed assertion on a parameter register.
Write(rs, r, val) ==
  /\ regs' = IF r \in GenRegs \cup ArgRegs THEN [rs EXCEPT ![r] = val] ELSE rs
  /\ status' = IF r \in ParamRegs THEN "crashed" ELSE "running"

\* hvm_vm_copy_regs: the copying loop never advances, so it moves the first
\* argument only and leaves one as the parameter count.
CopiedRegs ==
  [r \in Reg |->
     IF r = Pn THEN IntOf(1)
     ELSE IF r \in ParamRegs THEN (IF r[2] = 0 THEN regs[<<"arg", 0>>] ELSE NULL)
     ELSE IF r = <<"arg", 0>> THEN NULL
     ELSE regs[r]]

\* The end of most instructions: val goes to register r, and on to the next one.
Continue(rs, r, val) ==
  /\ Write(rs, r, val)
  /\ ip' = ip + 1
  /\ stack' = Here
  /\ UNCHANGED <<depth, globals, exception, calls, codeFrame>>

GoTo(dest) ==
  /\ ip' = dest
  /\ stack' = Here
  /\ UNCHANGED <<status, depth, regs, globals, exception, calls, codeFrame>>

\* Out of the dispatch loop, by DIE or exit or by a failed assertion.
Halt(how, rs) ==
  /\ status' = how
  /\ stack' = Here /\ regs' = rs
  /\ UNCHANGED <<ip, depth, globals, exception, calls, codeFrame>>

--------------------------------------------------------------------------------
\* EXCEPTION: climb the stack to a frame with a handler and resume there.  The
\* frames above it stay: stack_depth and top are not changed.
Catching == {d \in 0 .. depth : stack[d].catch_addr # NoCatch}

\* No handler, hvm_exception_print and out of the dispatch loop; or an assertion about
\* the exception fails.
GiveUp(how, exc, rs) ==
  /\ exception' = exc /\ status' = how
  /\ stack' = Here /\ regs' = rs
  /\ UNCHANGED <<ip, depth, globals, calls, codeFrame>>

ResumeIn_mKeepsHandler(d, exc, rs) ==
  /\ Write(rs, stack[d].catch_register, exc)
  /\ ip' = stack[d].catch_addr
  /\ stack' = Here
  /\ codeFrame' = d /\ exception' = exc
  /\ UNCHANGED <<depth, globals, calls>>
ResumeIn(d, exc, rs) ==
  /\ Write(rs, stack[d].catch_register, exc)
  /\ ip' = stack[d].catch_addr
  /\ stack' = [Here EXCEPT ![d].catch_addr = NoCatch, ![d].catch_register = NullReg,
                           ![d].catch_act = 0]
  /\ codeFrame' = d /\ exception' = exc
  /\ UNCHANGED <<depth, globals, calls>>

Raise(exc, rs) ==
  \/ Catching = {} /\ GiveUp("uncaught", exc, rs)
  \/ \E d \in Catching : (\A e \in Catching : e <= d) /\ ResumeIn(d, exc, rs)

\* hvm_exception_new: the structure of an exception the VM raises itself
RaiseNew(rs) == Raise(StructAt(ip), rs)

Catch ==
  /\ Executes({"catch"})
  /\ stack' = [Here EXCEPT ![depth].catch_addr = I.dest, ![depth].catch_register = I.a,
                           ![depth].catch_act = Top.act]
  /\ ip' = ip + 1
  /\ UNCHANGED <<status, depth, regs, globals, exception, calls, codeFrame>>

ClearCatch ==
  /\ Executes({"clearcatch"})
  /\ stack' = [Here EXCEPT ![depth].catch_addr = NoCatch, ![depth].catch_register = NullReg,
                           ![depth].catch_act = 0]
  /\ ip' = ip + 1
  /\ UNCHANGED <<status, depth, regs, globals, exception, calls, codeFrame>>

ClearException ==
  /\ Executes({"clearexception"})
  /\ exception' = NULL
  /\ ip' = ip + 1 /\ stack' = Here
  /\ UNCHANGED <<status, depth, regs, globals, calls, codeFrame>>

SetException ==
  /\ Executes({"setexception"})
  /\ IF exception = NULL THEN RaiseNew(regs) ELSE Continue(regs, I.a, exception)

\* A structure of the program's own: hvm_exception_build_backtrace asserts that its
\* "backtrace" is an array, hvm_exception_print that its "message" is a string.
RaiseOwn(exc) == Raise(exc, regs) \/ GiveUp("crashed", exc, regs)

\* Anything but a structure is replaced by an exception of the VM's own.
Throw ==
  /\ Executes({"throw"})
  /\ IF Is(I.a, "struct") THEN RaiseOwn(Read(I.a)) ELSE RaiseNew(regs)

--------------------------------------------------------------------------------
\* Where a call instruction goes.
Target ==
  CASE I.op = "callsymbolic" -> SymbolTable[ConstPool[I.dest].v]
    [] I.op = "invokesymbolic" -> SymbolTable[Read(I.a).v]
    [] I.op = "invokeaddress" -> Read(I.a).v
    [] OTHER -> I.dest

\* CALL, CALLSYMBOLIC, INVOKESYMBOLIC and INVOKEADDRESS; b is the return register.
Call ==
  /\ Executes(SubCalls) /\ ~Overruns /\ calls < MaxCalls
  /\ depth' = depth + 1
  /\ calls' = calls + 1
  /\ stack' = [Here EXCEPT ![depth + 1] = NewFrame(ip + 1, I.b, calls + 1, codeFrame)]
  /\ regs' = CopiedRegs
  /\ ip' = Target
  /\ codeFrame' = depth + 1
  /\ UNCHANGED <<status, globals, exception>>

\* TAILCALL: the current frame is made anew and keeps where it returns to.
TailCall_mReusesFrame ==
  /\ Executes({"tailcall"}) /\ calls < MaxCalls
  /\ calls' = calls + 1
  /\ stack' = [stack EXCEPT ![depth].act = calls + 1]
  /\ regs' = CopiedRegs
  /\ ip' = I.dest
  /\ codeFrame' = depth
  /\ UNCHANGED <<status, depth, globals, exception>>
TailCall_mReturnsHere ==
  /\ Executes({"tailcall"}) /\ calls < MaxCalls
  /\ calls' = calls + 1
  /\ stack' = [stack EXCEPT ![depth] =
                 NewFrame(ip + 1, Top.return_register, calls + 1, Top.caller)]
  /\ regs' = CopiedRegs
  /\ ip' = I.dest
  /\ codeFrame' = depth
  /\ UNCHANGED <<status, depth, globals, exception>>
TailCall ==
  /\ Executes({"tailcall"}) /\ calls < MaxCalls
  /\ calls' = calls + 1
  /\ stack' = [stack EXCEPT ![depth] =
                 NewFrame(Top.return_addr, Top.return_register, calls + 1, Top.caller)]
  /\ regs' = CopiedRegs
  /\ ip' = I.dest
  /\ codeFrame' = depth
  /\ UNCHANGED <<status, depth, globals, exception>>

Return_mFromRoot ==
  /\ Executes({"return"})
  /\ ip' = Top.return_addr
  /\ depth' = depth - 1
  /\ stack' = Here
  /\ Write(regs, Top.return_register, Read(I.a))
  /\ codeFrame' = Top.caller
  /\ UNCHANGED <<globals, exception, calls>>
Return ==
  /\ Executes({"return"})
  /\ IF depth = 0
     THEN RaiseNew(regs)                        \* return from stack root
     ELSE /\ ip' = Top.return_addr
          /\ depth' = depth - 1
          /\ stack' = Here
          /\ Write(regs, Top.return_register, Read(I.a))
          /\ codeFrame' = Top.caller
          /\ UNCHANGED <<globals, exception, calls>>

\* What may come out of a primitive or a container, whose contents are not kept.
AnyObject == {Null, StructAt(ip), ArrayAt(ip), StringAt(ip)}
               \cup {IntOf(n) : n \in Ints} \cup {SymbolOf(s) : s \in Syms}

\* CALLPRIMITIVE and INVOKEPRIMITIVE: a primitive returns an object, raises (as
\* hvm_vm_call_primitive does when there is no such primitive), exits or fails one
\* of its own assertions.
CallPrimitive ==
  /\ Executes({"callprimitive", "invokeprimitive"})
  /\ LET ret == IF I.op = "callprimitive" THEN I.a ELSE I.b
     IN \/ \E val \in AnyObject : Continue(CopiedRegs, ret, val)
        \/ RaiseNew(CopiedRegs)
        \/ \E how \in {"ended", "crashed"} : Halt(how, CopiedRegs)

--------------------------------------------------------------------------------
Noop == Executes({"noop"}) /\ GoTo(ip + 1)

Die == Executes({"die"}) /\ Halt("ended", regs)

\* JUMP, GOTO, GOTOADDRESS and the two ways out of IF
Branch ==
  \/ Executes({"goto"}) /\ GoTo(I.dest)
  \/ Executes({"gotoaddress"}) /\ GoTo(Read(I.a).v)
  \/ Executes({"if"}) /\ GoTo(IF Falsey(Read(I.a)) THEN ip + 1 ELSE I.dest)

\* MOVE, LITINTEGER, SETSTRING .. SETSYMBOL, SETNULL, STRUCTNEW, GETCLOSURE, ARRAYNEW,
\* ARRAYLEN, AND
Assign ==
  \/ Executes({"move"}) /\ Continue(regs, I.a, Read(I.b))
  \/ Executes({"litinteger"}) /\ Continue(regs, I.a, IntOf(I.dest))
  \/ Executes({"set"}) /\ Continue(regs, I.a, ConstPool[I.dest])
  \/ Executes({"setnull"}) /\ Continue(regs, I.a, Null)
  \/ Executes({"structnew", "getclosure"}) /\ Continue(regs, I.a, StructAt(ip))
  \/ Executes({"arraynew"}) /\ Continue(regs, I.a, ArrayAt(ip))
  \/ Executes({"arraylen"}) /\ \E n \in Ints : Continue(regs, I.a, IntOf(n))
  \/ /\ Executes({"and"})
     /\ Continue(regs, I.a,
          IntOf(IF Falsey(Read(I.b)) \/ Falsey(Read(I.c)) THEN 0 ELSE 1))

\* ADD .. MOD and LT .. EQ: operands that are not integers raise
Math ==
  /\ Executes({"math", "div"})
  /\ IF Is(I.b, "int") /\ Is(I.c, "int")
     THEN \E n \in Ints : Continue(regs, I.a, IntOf(n))
     ELSE RaiseNew(regs)

\* SYMBOLICATE raises on anything but a string.
Symbolicate ==
  /\ Executes({"symbolicate"})
  /\ IF Is(I.b, "string")
     THEN \E s \in Syms : Continue(regs, I.a, SymbolOf(s))
     ELSE RaiseNew(regs)

\* STRUCTSET, ARRAYPUSH and ARRAYUNSHIFT; ARRAYSET asserts that the index is in bounds.
StoreElement ==
  /\ Executes({"structset", "arraypush", "arrayset"})
  /\ \/ GoTo(ip + 1)
     \/ I.op = "arrayset" /\ Halt("crashed", regs)

\* STRUCTGET and STRUCTDELETE; ARRAYSHIFT and ARRAYPOP; ARRAYGET and ARRAYREMOVE.
\* STRUCTGET raises on anything but a structure and asserts that the key was found,
\* the array instructions need an element; the others may answer with NULL.
LoadElement ==
  /\ Executes({"structget", "structdelete", "arraypop", "arrayget"})
  /\ IF I.op = "structget" /\ ~Is(I.b, "struct")
     THEN RaiseNew(regs)
     ELSE \/ \E val \in AnyObject : Continue(regs, I.a, val)
          \/ I.op # "structget" /\ Continue(regs, I.a, NULL)
          \/ I.op # "structdelete" /\ Halt("crashed", regs)

SetLocal ==
  /\ Executes({"setlocal"})
  /\ stack' = [Here EXCEPT ![depth].locals[Read(I.a).v] =
                 @ \cup {[val |-> Read(I.b), act |-> Top.act]}]
  /\ ip' = ip + 1
  /\ UNCHANGED <<status, depth, regs, globals, exception, calls, codeFrame>>

\* A lookup that yields NULL is an undefined local.
GetLocal ==
  /\ Executes({"getlocal"})
  /\ \/ RaiseNew(regs)
     \/ \E bound \in Top.locals[Read(I.b).v] :
          bound.val # NULL /\ Continue(regs, I.a, bound.val)

SetGlobal ==
  /\ Executes({"setglobal"})
  /\ globals' = [globals EXCEPT ![Read(I.a).v] = @ \cup {Read(I.b)}]
  /\ ip' = ip + 1 /\ stack' = Here
  /\ UNCHANGED <<status, depth, regs, exception, calls, codeFrame>>

\* An undefined global is NULL in the register, with no exception.
GetGlobal ==
  /\ Executes({"getglobal"})
  /\ \E val \in globals[Read(I.b).v] \cup {NULL} : Continue(regs, I.a, val)

Next ==
  \/ Crash \/ Overrun \/ Noop \/ Die \/ Branch \/ Assign \/ Math
  \/ Call \/ TailCall \/ Return \/ CallPrimitive
  \/ Catch \/ ClearCatch \/ ClearException \/ SetException \/ Throw
  \/ SetLocal \/ GetLocal \/ SetGlobal \/ GetGlobal
  \/ Symbolicate \/ StoreElement \/ LoadElement

Spec == Init /\ [][Next]_vars

--------------------------------------------------------------------------------
\* A call has not overrun the stack.
InStack == status # "undefined"

StateOK ==
  /\ program \in [Addr -> Instruction]
  /\ status \in {"running", "ended", "uncaught", "crashed", "undefined"}
  /\ ip \in Nat /\ calls \in Nat /\ codeFrame \in Nat
  /\ stack \in [0 .. StackSize - 1 -> Frame]
  /\ regs \in [Reg -> Value \cup {NULL}]
  /\ regs[ZeroReg] = IntOf(0) /\ regs[NullReg] = Null
  /\ globals \in [Syms -> SUBSET (Value \cup {NULL})]
  /\ exception \in Value \cup {NULL}

\* Type invariant.  $zero and $null never change, whatever is written to them, and no
\* return or exception takes the depth below the root.  The code keeps no upper bound:
\* once a call has overrun the stack nothing is claimed, here or below.
TypeOK == StateOK /\ depth \in 0 .. StackSize /\ (InStack <=> depth < StackSize)

\* A frame returns to the instruction after the call that made it, into the
\* register that call names, through any mix of tail calls and exceptions.
ReturnSites ==
  InStack => \A d \in 1 .. depth :
    LET site == stack[d].return_addr - 1
    IN /\ site \in Addr
       /\ program[site].op \in SubCalls
       /\ program[site].b = stack[d].return_register

\* The address hvm_exception_build_backtrace reads in a frame below the top is
\* that of the call the frame is waiting for.
BacktraceLinks ==
  InStack => \A d \in 0 .. depth - 1 : stack[d + 1].return_addr = stack[d].current_addr + 1

\* A frame's handler was registered and its locals were set by the activation the
\* frame belongs to, never by an earlier one that used the same slot.
OwnState ==
  InStack => \A d \in 0 .. depth :
    /\ stack[d].catch_addr # NoCatch => stack[d].catch_act = stack[d].act
    /\ \A s \in Syms : \A bound \in stack[d].locals[s] : bound.act = stack[d].act

\* An exception continues in the handler of the innermost frame that has one and
\* uses it up: no handler is left in that frame or above it, so what a handler
\* throws is caught further out.  (The call instructions raise nothing themselves;
\* nothing looks at what compiled code leaves in vm->exception, module Tracer.)
Raises == I.op = "throw" \/ (I.op \notin SubCalls /\ exception' # exception /\ exception' # NULL)
HandlerUsedOnce ==
  [][(status = "running" /\ status' = "running" /\ Raises) =>
       \E d \in Catching :
         /\ ip' = stack[d].catch_addr
         /\ \A e \in d .. depth' : stack'[e].catch_addr = NoCatch]_vars

\* vm.h, "Top of call stack (current execution frame)", and the manual's handler
\* "for the current stack frame": code runs in the frame it belongs to.
TopIsCodeFrame == status = "running" => codeFrame = depth
================================================================================
