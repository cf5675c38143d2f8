---------------------------------- MODULE JIT -----------------------------------
(***************************************************************************)
(* jit-compiler.c: from the trace of one activation to native code, pass   *)
(* by pass, and the calls that run the code.  The trace is recorded by     *)
(* interpreting a first call (module Tracer has the recorder's own state;  *)
(* the sequence here is large enough not to grow).                         *)
(*                                                                         *)
(* LLVM is external: a basic block is a sequence of instructions appended  *)
(* at the builder's position, a slot is a stack variable, and              *)
(* LLVMVerifyModule aborts the process unless every block ends in its only *)
(* terminator and none branches to the entry block.                        *)
(***************************************************************************)
EXTENDS Activation, FiniteSetsExt, SequencesExt

CONSTANTS
  Programs,     \* [entry, body]: the subroutines compiled
  Params,       \* objects passed as the first argument
  Arrays        \* the arrays there are at the first call

\* Objects, and the instructions a program is made of: a constant is in the pool, and an
\* array object is one of those there are.
Object == [type : {"int"}, v : Nat] \cup [type : {"null"}, v : {0}]
            \cup [type : {"symbol"}, v : Syms] \cup [type : {"array"}, v : DOMAIN Arrays]
Instruction ==
  {i \in [op : Recorded \cup {"sub", "jump"}, a : Reg, b : Reg, c : Reg, dest : Nat] :
     i.op = "set" => i.dest \in DOMAIN ConstPool}

\* What the compiler knows of a value: its type, and the object where it is constant.
Known == [type : {"int", "null", "symbol", "array", "unknown"}, constant : {NULL} \cup Object]

ASSUME JITAssumption ==
  /\ NArgs \in Nat \ {0} /\ IntMod \in Nat \ {0} /\ NULL \notin Object \cup Nat \cup Known
  /\ Range(ConstPool) \cup Answers \subseteq Object /\ Params \subseteq {NULL} \cup Object
  /\ Arrays \in [DOMAIN Arrays -> Seq({NULL} \cup Object)]
  /\ \A p \in Programs : /\ p.entry \in Nat /\ DOMAIN p.body \subseteq Nat
                          /\ p.body \in [DOMAIN p.body -> Instruction]

VARIABLES
  phase,        \* where hvm_jit_compile_trace and its caller are
  st,           \* the VM: registers, arrays and what the activation has done
  trace,        \* trace->sequence; an item is [ip, i, sym], sym its annotation
  blocks,       \* the list from bundle->blocks_head, each block by its address
  data,         \* bundle->data: where an IF or GOTO branches to, NULL for a bailout
  constant_regs,
  values,       \* context->values, NULL where it is not initialised
  k,            \* the item of the sequence to emit next
  code,         \* the basic blocks
  pc,           \* the native instruction to execute
  passed,       \* the native function's second argument
  slots,        \* the stack slots of the general registers
  locals,       \* the stack slots of the local variables
  owed          \* history: the run owes what the interpreter would do

compiled == <<trace, blocks, data, constant_regs, values, k, code>>
native == <<pc, passed, slots, locals, owed>>
vars == <<body, entry, phase, st, compiled, native>>

Objects == {NULL} \cup Answers                  \* what an undefined pointer may be
Unknown == [type |-> "unknown", constant |-> NULL]
IntValue == [type |-> "int", constant |-> NULL]
ConstValue(obj) == [type |-> obj.type, constant |-> obj]

--------------------------------------------------------------------------------
\* A call leaves its first argument in the first parameter register.
CallRegs(regs, param) == CopyRegs([regs EXCEPT ![<<"arg", 0>>] = param])
FreshRegs == [r \in Reg |-> IF r = ZeroReg THEN IntOf(0) ELSE Null]

Init ==
  /\ \E p \in Programs : body = p.body /\ entry = p.entry
  /\ \E param \in Params : st = Enter(CallRegs(FreshRegs, param), Arrays)
  /\ phase = "record"
  /\ trace = <<>> /\ blocks = <<>> /\ data = <<>> /\ k = 1
  /\ constant_regs = {} /\ values = [r \in Reg |-> NULL] /\ code = << >>
  /\ pc = [block |-> <<"block", 0>>, at |-> 1] /\ passed = NULL
  /\ slots = [r \in GenRegs |-> Null] /\ locals = [x \in Syms |-> NULL] /\ owed = FALSE

\* The annotation of SETLOCAL and GETLOCAL is the symbol they were last run with.
Annotation ==
  CASE I(st).op = "setlocal" -> A(st).v
    [] I(st).op = "getlocal" -> B(st).v
    [] OTHER -> NULL
Item == [ip |-> st.ip, i |-> I(st), sym |-> Annotation]
At(seq, ip) == {n \in DOMAIN seq : seq[n].ip = ip}

\* hvm_jit_call_trace_push_instruction: an address is recorded once, and what the
\* recorder does not know is left out.
Record ==
  /\ phase = "record" /\ Sound(st)
  /\ st' \in Steps(st)
  /\ trace' = IF I(st).op \notin Recorded THEN trace
              ELSE IF At(trace, st.ip) = {} THEN Append(trace, Item)
              ELSE [n \in DOMAIN trace |-> IF trace[n].ip = st.ip THEN Item ELSE trace[n]]
  /\ phase' = IF st'.result.status = "returned" THEN "sort" ELSE "record"
  /\ UNCHANGED <<body, entry, blocks, data, constant_regs, values, k, code, native>>

\* An exception or an assertion ends the activation, and the trace with it.
Abandon ==
  /\ phase = "record" /\ (Sound(st) => MayRaise(st))
  /\ phase' = "abandoned"
  /\ UNCHANGED <<body, entry, st, compiled, native>>

--------------------------------------------------------------------------------
\* An assertion of the compiler fails or LLVM refuses its code: the process aborts.
Abort ==
  /\ phase' = "aborted"
  /\ UNCHANGED <<body, entry, st, compiled, native>>

\* hvm_jit_sort_trace: qsort puts each item behind those with a lower address.
Sorted(seq, n) ==
  CHOOSE item \in Range(seq) : Cardinality({m \in DOMAIN seq : seq[m].ip < item.ip}) = n - 1
Sort ==
  /\ phase = "sort"
  /\ trace' = [n \in DOMAIN trace |-> Sorted(trace, n)]
  /\ phase' = "blocks"
  /\ UNCHANGED <<body, entry, st, blocks, data, constant_regs, values, k, code, native>>

InTrace(ip) == At(trace, ip) # {}               \* hvm_jit_trace_contains_ip
Traced(ip) == IF InTrace(ip) THEN ip ELSE NULL

\* hvm_jit_compile_find_or_insert_block: walk to the block itself, the last one, or
\* the one after which ip belongs.
FindOrInsertBlock_mAppends(list, ip) == IF ip \in Range(list) THEN list ELSE Append(list, ip)
FindOrInsertBlock(list, ip) ==
  LET at == Min({n \in DOMAIN list :
                   \/ list[n] = ip \/ n = Len(list)
                   \/ list[n] < ip /\ ip < list[n + 1]})
  IN IF list[at] = ip THEN list ELSE InsertAt(list, at + 1, ip)

\* Where an item branches to: an IF past itself when the register is falsey.
Branches(item) ==
  CASE item.i.op = "if" -> <<item.i.dest, item.ip + 1>>
    [] item.i.op = "goto" -> <<item.i.dest>>
    [] OTHER -> << >>

\* hvm_jit_compile_pass_identify_blocks, one item at a time: the first one begins the
\* entry block, and every destination in the trace a block.  A GOTO's has to be there.
WithBlock(list, ip) == IF InTrace(ip) THEN FindOrInsertBlock(list, ip) ELSE list
WithBlocks(list, item) ==
  CASE item.i.op = "if" -> WithBlock(WithBlock(list, item.i.dest), item.ip + 1)
    [] item.i.op = "goto" -> WithBlock(list, item.i.dest)
    [] OTHER -> list
IdentifyBlocks ==
  /\ phase = "blocks"
  /\ LET item == trace[Len(data) + 1]
         list == IF data = << >> THEN <<item.ip>> ELSE blocks
     IN IF item.i.op = "goto" /\ ~InTrace(item.i.dest)
        THEN Abort
        ELSE /\ blocks' = WithBlocks(list, item)
             /\ data' = Append(data, [d \in DOMAIN Branches(item) |-> Traced(Branches(item)[d])])
             /\ phase' = IF Len(data') = Len(trace) THEN "registers" ELSE "blocks"
             /\ UNCHANGED <<body, entry, st, trace, constant_regs, values, k, code, native>>

\* hvm_jit_get_current_block
CurrentBlock(ip) ==
  blocks[Min({n \in DOMAIN blocks : n = Len(blocks) \/ blocks[n + 1] > ip})]

Returning == {"set", "invokeprimitive", "add", "eq", "lt", "gt", "and", "arrayget", "arraylen",
              "move", "litinteger", "getlocal"}
Writers(r) == {n \in DOMAIN trace : trace[n].i.op \in Returning /\ Writes(trace[n].i) = r}

\* hvm_jit_compile_pass_identify_registers
IdentifyRegisters_mTwice ==
  /\ phase = "registers"
  /\ constant_regs' = {r \in Reg : Cardinality(Writers(r)) < 3}
  /\ phase' = "locals"
  /\ UNCHANGED <<body, entry, st, trace, blocks, data, values, k, code, native>>
IdentifyRegisters ==
  /\ phase = "registers"
  /\ constant_regs' = {r \in Reg : Cardinality(Writers(r)) < 2}
  /\ phase' = "locals"
  /\ UNCHANGED <<body, entry, st, trace, blocks, data, values, k, code, native>>

\* hvm_jit_compile_pass_identify_locals: SETLOCAL makes the slot of its symbol,
\* GETLOCAL has to find one.  The slots are in a structure: a lookup among two symbols
\* finds them (ObjStruct; with three it may miss).  The blocks are there and empty.
IdentifyLocals ==
  /\ phase = "locals"
  /\ IF \A n \in DOMAIN trace : trace[n].i.op = "getlocal" =>
          \E m \in 1 .. n - 1 : trace[m].i.op = "setlocal" /\ trace[m].sym = trace[n].sym
     THEN /\ phase' = "emit"
          /\ code' = [b \in {"block"} \X Range(blocks) |-> << >>]
          /\ UNCHANGED <<body, entry, st, trace, blocks, data, constant_regs, values, k, native>>
     ELSE Abort

--------------------------------------------------------------------------------
\* hvm_jit_compile_pass_emit, one item at a time.
Cur == trace[k]
Emits(ops) == phase = "emit" /\ k <= Len(trace) /\ Cur.i.op \in ops
Block(ip) == <<"block", CurrentBlock(ip)>>

Slot(r) == [kind |-> "slot", reg |-> r, obj |-> NULL]
Const(r, obj) == [kind |-> "const", reg |-> r, obj |-> obj]
Param(r) == [kind |-> "param", reg |-> r, obj |-> NULL]
Inst(op, src) == [op |-> op, ip |-> Cur.ip, src |-> src, ret |-> Writes(Cur.i), sym |-> Cur.sym,
                  to |-> << >>]
Br(ip, to) == [op |-> "br", ip |-> ip, src |-> << >>, ret |-> NullReg, sym |-> NULL, to |-> <<to>>]

\* An item that does not branch is followed by a branch when the next one is in
\* another block.
Continuation_mNone == << >>
Continuation ==
  IF k < Len(trace) /\ Block(trace[k + 1].ip) # Block(Cur.ip)
  THEN <<Br(trace[k + 1].ip, Block(trace[k + 1].ip))>>
  ELSE << >>

\* hvm_jit_load_general_reg_value and hvm_jit_store_reg_value refuse other registers.
Usable(inst) ==
  /\ \A n \in DOMAIN inst.src : inst.src[n].kind = "slot" => inst.src[n].reg \in GenRegs
  /\ inst.ret \in GenRegs \cup ArgRegs \cup {NullReg}

Put(block, insts) == [code EXCEPT ![block] = @ \o insts]
Advance ==
  /\ k' = k + 1
  /\ UNCHANGED <<body, entry, phase, st, trace, blocks, data, constant_regs, native>>

\* The item's code, and what is known of the value it stores (NULL if it has none).
EmitPlain(inst, value) ==
  IF Usable(inst)
  THEN /\ code' = Put(Block(Cur.ip), <<inst>> \o Continuation)
       /\ values' = IF value = NULL THEN values ELSE [values EXCEPT ![inst.ret] = value]
       /\ Advance
  ELSE Abort

\* The registers an item loads.
Loads(i) ==
  CASE i.op \in {"add", "eq", "gt", "and", "arrayget"} -> <<i.b, i.c>>
    [] i.op = "arrayset" -> <<i.a, i.b, i.c>>
    [] i.op \in {"move", "setlocal", "arraylen"} -> <<i.b>>
    [] i.op \in {"if", "return", "invokeprimitive"} -> <<i.a>>
    [] OTHER -> << >>
Load(r) == IF Cur.i.op = "move" /\ r \in ParamRegs THEN Param(r) ELSE Slot(r)
Loaded == [n \in DOMAIN Loads(Cur.i) |-> Load(Loads(Cur.i)[n])]

EmitMove == Emits({"move", "arrayget", "invokeprimitive", "getlocal"})
              /\ EmitPlain(Inst(Cur.i.op, Loaded), Unknown)
EmitCompare == Emits({"eq", "gt", "and", "arraylen"}) /\ EmitPlain(Inst(Cur.i.op, Loaded), IntValue)
EmitArraySet == Emits({"arrayset"}) /\ EmitPlain(Inst("arrayset", Loaded), NULL)

\* SETSTRING, SETSYMBOL and LITINTEGER
EmitConstant ==
  /\ Emits({"set", "litinteger"})
  /\ LET obj == IF Cur.i.op = "set" THEN ConstPool[Cur.i.dest] ELSE IntOf(Cur.i.dest)
     IN EmitPlain(Inst("const", <<Const(Cur.i.a, obj)>>), ConstValue(obj))

\* context->values is not initialised: where no item above wrote the register the
\* compiler follows some pointer, or crashes.
Meta(r) == IF values[r] # NULL THEN {values[r]}
           ELSE {NULL, Unknown, IntValue} \cup {ConstValue(obj) : obj \in Answers}

\* hvm_jit_obj_int_add_direct when both values are known to be integers
AddOperand(r, value) ==
  IF r \in constant_regs /\ value.constant # NULL THEN Const(r, value.constant) ELSE Slot(r)
EmitAdd ==
  /\ Emits({"add"})
  /\ \E v1 \in Meta(Cur.i.b), v2 \in Meta(Cur.i.c) :
       /\ Cur.i.b = Cur.i.c => v1 = v2
       /\ IF v1 = NULL \/ v2 = NULL THEN Abort
          ELSE IF v1.type = "int" /\ v2.type = "int"
          THEN EmitPlain(Inst("add_direct", <<AddOperand(Cur.i.b, v1), AddOperand(Cur.i.c, v2)>>),
                         IntValue)
          ELSE EmitPlain(Inst("add", Loaded), IntValue)

EmitSetLocal ==
  /\ Emits({"setlocal"})
  /\ \E v \in Meta(Cur.i.a) :
       IF v # NULL /\ v.type = "symbol" /\ v.constant # NULL
       THEN EmitPlain(Inst("setlocal", Loaded), NULL)
       ELSE Abort

EmitGoto ==
  /\ Emits({"goto"})
  /\ code' = Put(Block(Cur.ip), <<[Inst("goto", << >>) EXCEPT !.to = <<<<"block", data[k][1]>>>>]>>)
  /\ UNCHANGED values /\ Advance

\* hvm_jit_build_bailout_block moves the builder to the block it makes: the branch
\* of the IF goes to the end of the last one made.
Bailout(side) == <<side, Cur.ip>>
CondBr_mSwapped(inst, truthy, falsey) == [inst EXCEPT !.to = <<falsey, truthy>>]
CondBr(inst, truthy, falsey) == [inst EXCEPT !.to = <<truthy, falsey>>]
EmitIf ==
  /\ Emits({"if"})
  /\ LET inst == Inst("condbr", Loaded)
         truthy == IF data[k][1] # NULL THEN <<"block", data[k][1]>> ELSE Bailout("truthy")
         falsey == IF data[k][2] # NULL THEN <<"block", data[k][2]>> ELSE Bailout("falsey")
         bailouts == {truthy, falsey} \ DOMAIN code
         builder == IF falsey \in bailouts THEN falsey
                    ELSE IF truthy \in bailouts THEN truthy ELSE Block(Cur.ip)
         blank == [b \in DOMAIN code \cup bailouts |->
                     IF b \in bailouts THEN <<Inst("bailout", << >>)>> ELSE code[b]]
     IN IF Usable(inst)
        THEN /\ code' = [blank EXCEPT ![builder] = Append(@, CondBr(inst, truthy, falsey))]
             /\ UNCHANGED values /\ Advance
        ELSE Abort

EmitReturn ==
  /\ Emits({"return"})
  /\ IF Usable(Inst("ret", Loaded))
     THEN /\ code' = Put(Block(Cur.ip), <<Inst("ret", Loaded)>>)
          /\ UNCHANGED values /\ Advance
     ELSE Abort

\* LT, ARRAYPUSH, GETGLOBAL and SETGLOBAL are recorded and not compiled.
EmitUnknown == Emits(Recorded \ Compilable) /\ Abort

\* LLVMVerifyModule
Terminators == {"br", "goto", "condbr", "ret", "bailout"}
WellFormed ==
  \A b \in DOMAIN code :
    /\ code[b] # << >>
    /\ \A n \in DOMAIN code[b] : code[b][n].op \in Terminators <=> n = Len(code[b])
    /\ \A n \in DOMAIN code[b] : <<"block", blocks[1]>> \notin Range(code[b][n].to)
Verify ==
  /\ phase = "emit" /\ k > Len(trace)
  /\ IF WellFormed
     THEN phase' = "compiled" /\ UNCHANGED <<body, entry, st, compiled, native>>
     ELSE Abort

--------------------------------------------------------------------------------
\* hvm_jit_run_compiled_trace: the function gets the first parameter itself for the
\* array of parameters, and starts with every general register null.
Run ==
  /\ phase = "compiled"
  /\ \E param \in Params : st' = Enter(CallRegs(st.regs, param), st.arrays)
  /\ passed' = st'.regs[<<"param", 0>>]
  /\ pc' = [block |-> <<"block", blocks[1]>>, at |-> 1]
  /\ slots' = [r \in GenRegs |-> Null] /\ locals' = [x \in Syms |-> NULL]
  /\ owed' = (blocks[1] = entry)
  /\ phase' = "running"
  /\ UNCHANGED <<body, entry, compiled>>

Here == code[pc.block][pc.at]

\* What the interpreter's registers would hold: those of the activation are in slots.
Mapped ==
  [st EXCEPT
     !.ip = IF phase = "running" THEN Here.ip ELSE @,
     !.regs = [r \in Reg |-> IF owed /\ r \in GenRegs \cap Assigned(st) THEN slots[r] ELSE @[r]]]
Interpreted == INSTANCE Subroutine WITH act <- Mapped

V(n) ==
  LET src == Here.src[n]
  IN CASE src.kind = "slot" -> slots[src.reg]
       [] src.kind = "const" -> src.obj
       [] src.kind = "param" -> passed
Ints == IsA(V(1), "int") /\ IsA(V(2), "int")

\* A null pointer is followed or an assertion of the called function fails.
Faults ==
  CASE Here.op \in {"add", "add_direct", "eq", "gt", "and"} -> V(1) = NULL \/ V(2) = NULL
    [] Here.op = "arraylen" -> ~IsA(V(1), "array")
    [] Here.op = "arrayget" -> ~InArray(st, V(1), V(2))
    [] Here.op = "arrayset" -> ~InArray(st, V(1), V(2))
    [] Here.op = "invokeprimitive" -> ~IsA(V(1), "symbol")
    [] Here.op = "condbr" -> V(1) = NULL
    [] OTHER -> FALSE

\* What an instruction may store: hvm_obj_int_* answer NULL unless both operands are
\* integers, a primitive that raised NULL as well, and nothing looks.
Results ==
  IF Here.op = "move" /\ Here.src[1].kind = "param" /\ Here.src[1].reg # <<"param", 0>> THEN Objects
  ELSE IF Here.op \in {"add", "eq", "gt"} /\ ~Ints THEN {NULL}
  ELSE CASE Here.op \in {"move", "const"} -> {V(1)}
         [] Here.op \in {"add", "add_direct"} -> {IntOf((V(1).v + V(2).v) % IntMod)}
         [] Here.op = "eq" -> {Bool(V(1).v = V(2).v)}
         [] Here.op = "gt" -> {Bool(Signed(V(1).v) > Signed(V(2).v))}
         [] Here.op = "and" -> {Bool(~Falsey(V(1)) /\ ~Falsey(V(2)))}
         [] Here.op = "arraylen" -> {IntOf(Len(st.arrays[V(1).v]))}
         [] Here.op = "arrayget" -> {st.arrays[V(1).v][V(2).v + 1]}
         [] Here.op = "invokeprimitive" -> Objects
         [] Here.op = "getlocal" ->
              IF st.locals[Here.sym] = <<>> THEN Objects ELSE {locals[Here.sym]}

Raises(val) ==
  Here.op \in {"invokeprimitive", "getlocal"}
    /\ (val = NULL \/ (Here.op = "getlocal" /\ st.locals[Here.sym] = <<>>))

Executes(ops) ==
  /\ phase = "running" /\ Here.op \in ops /\ ~Faults
  /\ Len(st.out) < MaxOut \/ Here.op # "invokeprimitive"
  /\ UNCHANGED <<body, entry, compiled, passed>>
Owes == owed /\ Interpreted!InScope(Mapped)
NextInst_mSkips == [pc EXCEPT !.at = @ + 2]
NextInst == [pc EXCEPT !.at = @ + 1]

RunPlain ==
  /\ Executes({"move", "const", "add", "add_direct", "eq", "gt", "and", "arraylen", "arrayget",
               "invokeprimitive", "getlocal"})
  /\ \E val \in Results :
       LET vm == IF Here.op = "invokeprimitive" THEN CallPrimitive(st, V(1).v) ELSE st
       IN /\ slots' = IF Here.ret \in GenRegs THEN [slots EXCEPT ![Here.ret] = val] ELSE slots
          /\ st' = [vm EXCEPT
                      !.regs = IF Here.ret \in ArgRegs THEN [@ EXCEPT ![Here.ret] = val] ELSE @,
                      !.wrote = @ \cup {Here.ip}]
          /\ owed' = (Owes /\ ~Raises(val))
  /\ pc' = NextInst
  /\ UNCHANGED <<phase, locals>>

RunArraySet ==
  /\ Executes({"arrayset"})
  /\ st' = [st EXCEPT !.arrays[V(1).v][V(2).v + 1] = V(3)]
  /\ pc' = NextInst /\ owed' = Owes
  /\ UNCHANGED <<phase, slots, locals>>

RunSetLocal ==
  /\ Executes({"setlocal"})
  /\ locals' = [locals EXCEPT ![Here.sym] = V(1)]
  /\ st' = [st EXCEPT !.locals[Here.sym] = WithValue(@, V(1))]
  /\ pc' = NextInst /\ owed' = Owes
  /\ UNCHANGED <<phase, slots>>

\* A continuation is no instruction of the interpreter's.
RunBranch ==
  /\ Executes({"br", "goto", "condbr"})
  /\ LET to == IF Here.op = "condbr" /\ Falsey(V(1)) THEN Here.to[2] ELSE Here.to[1]
     IN pc' = [block |-> to, at |-> 1]
  /\ owed' = IF Here.op = "br" THEN owed ELSE Owes
  /\ UNCHANGED <<phase, st, slots, locals>>

RunReturn ==
  /\ Executes({"ret"})
  /\ st' = [st EXCEPT !.ip = Here.ip, !.result = [status |-> "returned", val |-> V(1)]]
  /\ owed' = Owes /\ phase' = "compiled"
  /\ UNCHANGED <<pc, slots, locals>>

RunFaults ==
  /\ phase = "running" /\ Faults
  /\ st' = [st EXCEPT !.result.status = "crashed"]
  /\ owed' = Owes /\ phase' = "crashed"
  /\ UNCHANGED <<body, entry, compiled, pc, passed, slots, locals>>

Next ==
  \/ Record \/ Abandon
  \/ Sort \/ IdentifyBlocks \/ IdentifyRegisters \/ IdentifyLocals
  \/ EmitMove \/ EmitCompare \/ EmitArraySet \/ EmitConstant \/ EmitAdd \/ EmitSetLocal
  \/ EmitGoto \/ EmitIf \/ EmitReturn \/ EmitUnknown \/ Verify
  \/ Run \/ RunPlain \/ RunArraySet \/ RunSetLocal \/ RunBranch \/ RunReturn \/ RunFaults

Spec == Init /\ [][Next]_vars

--------------------------------------------------------------------------------
\* Type invariant.
TypeOK ==
  /\ phase \in {"record", "abandoned", "sort", "blocks", "registers", "locals", "emit", "aborted",
                "compiled", "running", "crashed"}
  /\ k \in 1 .. Len(trace) + 1 /\ constant_regs \subseteq Reg
  /\ \A n \in DOMAIN trace : trace[n].i.op \in Recorded /\ trace[n].sym \in Syms \cup {NULL}
  /\ DOMAIN slots = GenRegs /\ DOMAIN locals = Syms /\ owed \in BOOLEAN
  /\ phase = "running" => pc.block \in DOMAIN code /\ pc.at \in DOMAIN code[pc.block]

\* The list of blocks is ascending and holds the lowest address recorded and every
\* recorded address one of the items looked at branches to, once: what hvm_jit_get_current_block,
\* which stops at the first block beyond an address, relies on.
BlocksExact ==
  blocks # << >> =>
    /\ \A m, n \in DOMAIN blocks : m < n => blocks[m] < blocks[n]
    /\ Range(blocks) =
         {Min({trace[n].ip : n \in DOMAIN trace})}
           \cup {ip \in UNION {Range(Branches(trace[n])) : n \in DOMAIN data} : InTrace(ip)}

\* The direct addition uses the object a register held when it was compiled: whichever
\* way the code got there, if the activation has written the register further up then
\* it still holds that object.
ConstantsAgree ==
  (phase = "running" /\ Here.op = "add_direct") =>
    \A n \in DOMAIN Here.src :
      LET src == Here.src[n]
      IN (src.kind = "const" /\ \E j \in st.wrote : j < Here.ip /\ Writes(body[j]) = src.reg)
           => slots[src.reg] = src.obj

\* The items a trace has to hold for its code to be closed, and those it may lack
\* with a bailout in their place.
After(item) ==
  CASE item.i.op \in {"if", "goto"} -> Range(Branches(item))
    [] item.i.op = "return" -> {}
    [] OTHER -> {item.ip + 1}
Ips == {trace[n].ip : n \in DOMAIN trace}
Below(n) == {m \in DOMAIN trace : trace[m].ip < trace[n].ip}
WritersBelow(n, r) == Below(n) \cap Writers(r)
LastWriter(n, r) ==
  CHOOSE m \in WritersBelow(n, r) : \A j \in WritersBelow(n, r) : trace[j].ip <= trace[m].ip

Translatable(n) ==
  LET i == trace[n].i
  IN /\ i.op \in Compilable
     /\ \A r \in Range(Loads(i)) : r \in GenRegs \/ (i.op = "move" /\ r \in ParamRegs)
     /\ Writes(i) \in GenRegs \cup ArgRegs \cup {NullReg}
     /\ i.op = "add" => \A r \in {i.b, i.c} : WritersBelow(n, r) # {}
     /\ i.op = "setlocal" =>
          /\ WritersBelow(n, i.a) # {} /\ trace[LastWriter(n, i.a)].i.op = "set"
          /\ ConstPool[trace[LastWriter(n, i.a)].i.dest].type = "symbol"
     /\ i.op = "getlocal" =>
          \E m \in Below(n) : trace[m].i.op = "setlocal" /\ trace[m].sym = trace[n].sym

\* Straight-line code goes on inside the trace, every item is reached from another
\* one and none goes back to the first.
Linked ==
  /\ \A n \in DOMAIN trace : trace[n].i.op # "if" => After(trace[n]) \subseteq Ips
  /\ \A ip \in Ips \ {Min(Ips)} : \E n \in DOMAIN trace : ip \in After(trace[n])
  /\ \A n \in DOMAIN trace : Min(Ips) \notin After(trace[n])
BothSides == \A n \in DOMAIN trace : After(trace[n]) \subseteq Ips

\* The compiler gets through every trace that holds both sides of its branches and
\* only instructions it translates: no block of it is left without its terminator,
\* or with two.
ClosedTracesCompile ==
  phase = "aborted" => ~(Linked /\ BothSides /\ \A n \in DOMAIN trace : Translatable(n))

\* jit-compiler.h, "Set up a bailout from the current JIT state back to the normal VM
\* state": a trace that lacks a side of a branch compiles too.
BailoutsCompile == phase = "aborted" => ~(Linked /\ \A n \in DOMAIN trace : Translatable(n))

\* Compiled code does what the interpreter does, call after call, whatever path the
\* recorded activation took: same primitives in the same order with the same
\* parameter, same arrays, same result.
Implements == Interpreted!Spec
================================================================================
