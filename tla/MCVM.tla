---------------------------------- MODULE MCVM ----------------------------------
(* Programs for model checking VM, also under the recorder (MCTracer): every      *)
(* program of four instructions over the alphabet of calls and exceptions, and   *)
(* programs that use the other opcodes.                                          *)
EXTENDS VM, Sequences, TLC

r0 == <<"gen", 0>>
r1 == <<"gen", 1>>
a0 == <<"arg", 0>>
a1 == <<"arg", 1>>
p0 == <<"param", 0>>
p1 == <<"param", 1>>

Ins(op, a, b, c, dest) == [op |-> op, a |-> a, b |-> b, c |-> c, dest |-> dest]
Ins0(op) == Ins(op, r0, r0, r0, 0)
InsTo(op, dest) == Ins(op, r0, r0, r0, dest)
InsA(op, a) == Ins(op, a, r0, r0, 0)
InsAB(op, a, b) == Ins(op, a, b, r0, 0)

Alphabet ==
  {Ins0(op) : op \in {"throw", "return", "structnew", "clearcatch", "setexception"}}
  \cup {InsTo("catch", d) : d \in {1, 3}}
  \cup {InsTo("call", d) : d \in {1, 2}}
  \cup {InsTo("tailcall", d) : d \in {0, 2}}

\* A program from a sequence of instructions, with DIE after its end.
Load(seq) == [i \in Addr |-> IF i < Len(seq) THEN seq[i + 1] ELSE Ins0("die")]

Small == {Load(seq) : seq \in [1 .. 4 -> Alphabet]}

Others == {
  \* locals and globals of a symbol, in a frame and in the one it calls
  Load(<<InsTo("set", 0), InsAB("setlocal", r0, r1), InsAB("setglobal", r0, r1),
         InsTo("call", 4), InsAB("getlocal", r1, r0), InsAB("getglobal", r1, r0)>>),
  Load(<<InsTo("set", 0), InsTo("catch", 3), InsAB("setlocal", r0, r1),
         InsAB("getlocal", r1, r0), InsTo("tailcall", 2)>>),
  Load(<<InsTo("set", 0), InsAB("getglobal", r1, r0), InsAB("setglobal", r0, r1),
         InsA("if", r1)>>),
  \* calls by symbol and by address, with a return value
  Load(<<InsTo("callsymbolic", 0), InsTo("set", 0), InsA("invokesymbolic", r0),
         InsTo("goto", 5), InsTo("litinteger", 1), Ins0("return")>>),
  Load(<<InsTo("litinteger", 2), InsAB("invokeaddress", r0, r1), InsA("gotoaddress", r0)>>),
  Load(<<InsTo("callsymbolic", 1)>>), Load(<<InsTo("callsymbolic", 2)>>),
  Load(<<InsTo("set", 1), InsA("invokesymbolic", r0)>>),
  \* primitives, arguments and parameters
  Load(<<InsAB("move", a0, <<"zero", 0>>), InsTo("callprimitive", 0), InsAB("move", r1, p0),
         InsA("if", r1), InsTo("set", 0), InsAB("invokeprimitive", r0, r1)>>),
  Load(<<Ins("litinteger", a0, r0, r0, 1), Ins("litinteger", a1, r0, r0, 1),
         InsTo("call", 3), Ins0("noop"), InsAB("move", r0, p1), InsA("throw", r0)>>),
  Load(<<InsAB("move", p0, r0)>>), Load(<<InsAB("move", r0, a0)>>),
  Load(<<InsTo("call", 2), Ins0("die"), InsAB("move", NullReg, r0), InsA("return", p1)>>),
  Load(<<Ins("catch", p0, r0, r0, 0), Ins0("throw")>>),
  \* arithmetic on integers and on something else, division by zero
  Load(<<InsTo("litinteger", 1), Ins("math", r1, r0, r0, 0), Ins("div", r1, r1, r0, 0),
         Ins("and", r1, r0, r1, 0), InsTo("catch", 5), Ins("math", r1, r0, NullReg, 0)>>),
  Load(<<Ins("div", r0, ZeroReg, ZeroReg, 0)>>),
  \* handlers: null values, clearing the exception, closures
  Load(<<InsTo("catch", 3), Ins0("getclosure"), Ins0("throw"), Ins0("clearexception"),
         Ins0("setexception"), Ins0("setnull")>>),
  Load(<<InsA("setnull", r1), InsA("throw", r1)>>),
  \* structures and arrays; what is no structure, no array or no string
  Load(<<InsTo("set", 0), InsA("structnew", r1), Ins("structset", r1, r0, r0, 0),
         Ins("structget", r1, r1, r0, 0), Ins("structget", r1, r1, r0, 0),
         Ins("structdelete", r1, r1, r0, 0)>>),
  Load(<<InsTo("catch", 2), Ins("structget", r1, NullReg, r0, 0), Ins("structdelete", r1, r0, r0, 0)>>),
  Load(<<InsAB("arraynew", r0, NullReg), InsAB("arraypush", r0, r1), InsAB("arraypop", r1, r0),
         Ins("arrayset", r0, ZeroReg, r1, 0), Ins("arrayget", r1, r0, ZeroReg, 0),
         InsAB("arraylen", r1, r0)>>),
  Load(<<InsTo("set", 2), InsAB("symbolicate", r1, r0), InsTo("catch", 4),
         InsAB("symbolicate", r1, NullReg), InsAB("arraylen", r1, r0)>>),
  \* unbounded recursion
  Load(<<InsTo("call", 0)>>)
}

MCPrograms == Small \cup Others
MCConstPool == 0 :> [type |-> "symbol", v |-> 1] @@ 1 :> [type |-> "symbol", v |-> 2]
                @@ 2 :> [type |-> "string", v |-> 0]
MCSymbolTable == 1 :> 4 @@ 2 :> NULL
================================================================================
