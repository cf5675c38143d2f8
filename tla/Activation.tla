------------------------------- MODULE Activation -------------------------------
(***************************************************************************)
(* One activation of a subroutine, as the interpreter carries it out and   *)
(* the trace recorder sees it.  Where module VM follows the control of the *)
(* whole interpreter, here the data is exact as well: arithmetic, arrays,  *)
(* the first parameter and the primitives called; there are no other       *)
(* frames.  The instructions are those jit-compiler.c compiles, one the    *)
(* recorder knows and the compiler refuses (LT, for ARRAYPUSH and globals  *)
(* as well) and two the recorder does not know (SUB, JUMP).                *)
(***************************************************************************)
EXTENDS Integers, Sequences

CONSTANTS
  NGen, NArgs,  \* HVM_GENERAL_REGISTERS, HVM_ARGUMENT_REGISTERS
  Syms,         \* symbol ids
  ConstPool,    \* the objects of vm->const_pool, by index
  IntMod,       \* integers are two's complement modulo IntMod, 2^64 in the code
  Answers,      \* objects primitives answer with
  NULL,         \* the C null pointer
  MaxOut        \* bound of the model: primitives called in one activation

VARIABLES
  body,         \* the instructions, by address
  entry         \* the address the subroutine is called at

IntOf(n) == [type |-> "int", v |-> n]
Null == [type |-> "null", v |-> 0]
GenRegs == {"gen"} \X (0 .. NGen - 1)
ArgRegs == {"arg"} \X (0 .. NArgs - 1)
ParamRegs == {"param"} \X (0 .. NArgs - 1)
ZeroReg == <<"zero", 0>>
NullReg == <<"null", 0>>
Reg == GenRegs \cup ArgRegs \cup ParamRegs \cup {ZeroReg, NullReg}

\* What hvm_jit_call_trace_push_instruction knows, and hvm_jit_compile_pass_emit.
Compilable == {"move", "litinteger", "set", "add", "eq", "gt", "and", "arrayget", "arrayset",
               "arraylen", "invokeprimitive", "setlocal", "getlocal", "if", "goto", "return"}
Recorded == Compilable \cup {"lt"}
IntOps == {"add", "sub", "eq", "gt", "lt"}

--------------------------------------------------------------------------------
\* The current instruction and its operands.
I(s) == body[s.ip]
A(s) == s.regs[I(s).a]
B(s) == s.regs[I(s).b]
C(s) == s.regs[I(s).c]

IsA(val, type) == val # NULL /\ val.type = type
Falsey(val) == val.type = "null" \/ (val.type = "int" /\ val.v = 0)
Bool(p) == IntOf(IF p THEN 1 ELSE 0)
Signed(n) == IF 2 * n < IntMod THEN n ELSE n - IntMod

\* Registers an instruction reads, and the one it writes.
Reads(i) ==
  CASE i.op \in IntOps \cup {"and", "arrayget"} -> {i.b, i.c}
    [] i.op = "arrayset" -> {i.a, i.b, i.c}
    [] i.op = "setlocal" -> {i.a, i.b}
    [] i.op \in {"move", "arraylen", "getlocal"} -> {i.b}
    [] i.op \in {"if", "return", "invokeprimitive"} -> {i.a}
    [] OTHER -> {}
Writes(i) ==
  CASE i.op \in {"if", "goto", "jump", "return", "setlocal", "arrayset"} -> NullReg
    [] i.op = "invokeprimitive" -> i.b
    [] OTHER -> i.a

InArray(s, arr, idx) == IsA(arr, "array") /\ IsA(idx, "int") /\ idx.v < Len(s.arrays[arr.v])

\* The interpreter carries out the instruction: no assertion fails, no null pointer
\* is followed and no operand makes it raise.
Sound(s) ==
  /\ s.result.status = "running" /\ s.ip \in DOMAIN body
  /\ Reads(I(s)) \cap ArgRegs = {} /\ Writes(I(s)) \notin ParamRegs
  /\ I(s).op \in IntOps => IsA(B(s), "int") /\ IsA(C(s), "int")
  /\ I(s).op = "and" => B(s) # NULL /\ (~Falsey(B(s)) => C(s) # NULL)
  /\ I(s).op = "arraylen" => IsA(B(s), "array")
  /\ I(s).op = "arrayget" => InArray(s, B(s), C(s))
  /\ I(s).op = "arrayset" => InArray(s, A(s), B(s))
  /\ I(s).op = "if" => A(s) # NULL
  /\ I(s).op = "setlocal" => IsA(A(s), "symbol")
  /\ I(s).op = "getlocal" => IsA(B(s), "symbol")
  /\ I(s).op = "invokeprimitive" => IsA(A(s), "symbol") /\ Len(s.out) < MaxOut

\* A local holds the values stored in it, each once, in the order first stored: a set
\* adds a pair and replaces none.
WithValue(vals, val) ==
  IF \E n \in DOMAIN vals : vals[n] = val THEN vals ELSE Append(vals, val)

\* hvm_obj_struct_internal_get, NULL when it finds nothing.  Pairs of one symbol stay in
\* the order they were stored and the leftmost is found.  With pairs of other symbols in
\* between it depends on all earlier sets which one is, and whether one is (ObjStruct).
Lookup(s, x) ==
  IF s.locals[x] # <<>> /\ \A y \in Syms \ {x} : s.locals[y] = <<>>
  THEN {s.locals[x][1]}
  ELSE {NULL} \cup {s.locals[x][n] : n \in DOMAIN s.locals[x]}

\* An undefined local raises, and a primitive may whatever the operands.
MayRaise(s) ==
  \/ I(s).op = "invokeprimitive"
  \/ I(s).op = "getlocal" /\ NULL \in Lookup(s, B(s).v)

\* What an instruction that computes leaves in its register.
Value(s) ==
  CASE I(s).op = "move" -> B(s)
    [] I(s).op = "litinteger" -> IntOf(I(s).dest)
    [] I(s).op = "set" -> ConstPool[I(s).dest]
    [] I(s).op = "add" -> IntOf((B(s).v + C(s).v) % IntMod)
    [] I(s).op = "sub" -> IntOf((B(s).v + IntMod - C(s).v) % IntMod)
    [] I(s).op = "eq" -> Bool(B(s).v = C(s).v)
    [] I(s).op = "gt" -> Bool(Signed(B(s).v) > Signed(C(s).v))
    [] I(s).op = "lt" -> Bool(Signed(B(s).v) < Signed(C(s).v))
    [] I(s).op = "and" -> Bool(~Falsey(B(s)) /\ ~Falsey(C(s)))
    [] I(s).op = "arraylen" -> IntOf(Len(s.arrays[B(s).v]))
    [] I(s).op = "arrayget" -> s.arrays[B(s).v][C(s).v + 1]

\* hvm_vm_register_write, and on to the next instruction.
Write(s, r, val) ==
  [s EXCEPT !.regs = IF r \in GenRegs \cup ArgRegs THEN [@ EXCEPT ![r] = val] ELSE @,
            !.wrote = @ \cup {s.ip},
            !.ip = @ + 1]

\* hvm_vm_copy_regs: the first argument becomes the first parameter.
CopyRegs(regs) ==
  [r \in Reg |-> IF r = <<"param", 0>> THEN regs[<<"arg", 0>>]
                 ELSE IF r \in ParamRegs \cup {<<"arg", 0>>} THEN NULL
                 ELSE regs[r]]

\* A primitive is called, with the first argument as its parameter.
CallPrimitive(s, sym) ==
  [s EXCEPT !.regs = CopyRegs(@), !.own = FALSE,
            !.out = Append(@, [sym |-> sym, param |-> s.regs[<<"arg", 0>>]])]

\* The states one instruction of the interpreter leads to.
Steps(s) ==
  CASE I(s).op \in {"goto", "jump"} -> {[s EXCEPT !.ip = I(s).dest]}
    [] I(s).op = "if" -> {[s EXCEPT !.ip = IF Falsey(A(s)) THEN @ + 1 ELSE I(s).dest]}
    [] I(s).op = "return" -> {[s EXCEPT !.result = [status |-> "returned", val |-> A(s)]]}
    [] I(s).op = "setlocal" ->
         {[s EXCEPT !.locals[A(s).v] = WithValue(@, B(s)), !.ip = @ + 1]}
    [] I(s).op = "getlocal" ->
         {Write(s, I(s).a, val) : val \in Lookup(s, B(s).v) \ {NULL}}
    [] I(s).op = "invokeprimitive" ->
         {Write(CallPrimitive(s, A(s).v), I(s).b, val) : val \in Answers}
    [] I(s).op = "arrayset" ->
         {[s EXCEPT !.arrays[A(s).v][B(s).v + 1] = C(s), !.ip = @ + 1]}
    [] OTHER -> {Write(s, I(s).a, Value(s))}

\* An activation that hvm_frame_initialize_returning and hvm_vm_copy_regs have set
\* up.  wrote, own and out are history: the instructions that have written a
\* register, whether the parameters are still those of the call, and the primitives
\* called.
Enter(regs, arrays) ==
  [ip |-> entry, regs |-> regs, arrays |-> arrays, locals |-> [x \in Syms |-> <<>>],
   out |-> <<>>, result |-> [status |-> "running", val |-> NULL], wrote |-> {}, own |-> TRUE]

Assigned(s) == {Writes(body[j]) : j \in s.wrote}
================================================================================
