--------------------------------- MODULE MCJIT ----------------------------------
(* Subroutines to compile: every body of six instructions that moves its parameter  *)
(* to $0 and 1 to $1, goes on with three of Letters and returns $0, and other ones. *)
EXTENDS JIT

MCSyms == {0, 1}
MCConstPool == [n \in {0, 1} |-> [type |-> "symbol", v |-> n]]
MCAnswers == {IntOf(0), IntOf(1)}
\* A caller that sets no argument passes a null pointer.
MCParams == {NULL, IntOf(0), IntOf(1), [type |-> "array", v |-> 0]}
MCArrays == [n \in {0} |-> <<IntOf(1), IntOf(0)>>]

G(n) == <<"gen", n>>
P(n) == <<"param", n>>
X == NullReg
Ins(op, a, b, c, dest) == [op |-> op, a |-> a, b |-> b, c |-> c, dest |-> dest]
Lit(r, n) == Ins("litinteger", r, X, X, n)
Set(r, n) == Ins("set", r, X, X, n)
Mov(r, b) == Ins("move", r, b, X, 0)
Op(op, r, b, c) == Ins(op, r, b, c, 0)
If(r, dest) == Ins("if", r, X, X, dest)
Goto(dest) == Ins("goto", X, X, X, dest)
Ret(r) == Ins("return", r, X, X, 0)
Prim(r, b) == Ins("invokeprimitive", r, b, X, 0)

Letters ==
  {Lit(G(0), 1), Lit(G(1), 1), Set(G(1), 0), Mov(G(1), G(0)), Mov(<<"arg", 0>>, G(0)),
   Mov(G(1), P(1)), Op("add", G(0), G(0), G(1)), Op("add", G(1), G(1), G(1)),
   Op("eq", G(1), G(0), G(1)), Op("lt", G(0), G(0), G(1)), Op("sub", G(0), G(0), G(0)),
   If(G(0), 5), If(G(1), 3), Goto(2), Goto(5), Prim(G(1), G(0)),
   Ins("setlocal", G(1), G(0), X, 0), Ins("getlocal", G(0), G(1), X, 0)}

Seqs(s) == [n \in 0 .. Len(s) - 1 |-> s[n + 1]]
Short == {[entry |-> 0, body |-> Seqs(<<Mov(G(0), P(0)), Lit(G(1), 1), x, y, z, Ret(G(0))>>)] :
            x \in Letters, y \in Letters, z \in Letters}

\* A loop that counts its parameter up to the wrap-around; array instructions; a local
\* set in a loop, to a new value or to the same, and read after it; a loop back to the first instruction and a test of
\* a register nothing assigned; two symbols in the register that names a local; an
\* entry and a jump the recorder does not know; a register read before it is assigned; a
\* parameter read after a primitive call; a null pointer that AND need not look at; an
\* operand of ADD assigned further down.
Long ==
  {<<Mov(G(0), P(0)), Lit(G(1), 1), Lit(G(2), 0), If(G(0), 5), Ret(G(2)),
     Op("add", G(2), G(2), G(1)), Op("add", G(0), G(0), G(1)), Goto(3)>>,
   <<Mov(G(0), P(0)), Lit(G(1), 1), Op("arraylen", G(2), G(0), X), Op("gt", G(2), G(2), G(1)),
     Op("arrayset", G(0), G(1), G(2)), Op("arrayget", G(2), G(0), G(2)),
     Op("and", G(2), G(2), G(1)), Ret(G(2))>>,
   <<Mov(G(0), P(0)), Set(G(1), 0), Op("setlocal", G(1), G(0), X), If(G(0), 6), Lit(G(0), 1), Goto(2),
     Op("getlocal", G(2), G(1), X), Mov(<<"arg", 0>>, G(2)), Prim(G(1), G(2)), Ret(G(2))>>,
   <<Mov(G(0), P(0)), Set(G(1), 0), Lit(G(2), 1), Op("setlocal", G(1), G(2), X), If(G(0), 7),
     Lit(G(0), 1), Goto(3), Op("getlocal", G(0), G(1), X), Ret(G(0))>>,
   <<Mov(G(0), P(0)), If(G(1), 3), Goto(0), Ret(G(0))>>,
   <<Mov(G(0), P(0)), Set(G(1), 0), Op("setlocal", G(1), G(0), X), If(G(0), 7),
     Set(G(1), 1), Lit(G(0), 1), Goto(2), Op("getlocal", G(0), G(1), X), Ret(G(0))>>,
   <<Op("sub", G(0), ZeroReg, ZeroReg), Lit(G(0), 1), Ret(G(0))>>,
   <<Ins("jump", X, X, X, 1), Lit(G(0), 1), Ret(G(0))>>,
   <<Mov(G(0), P(0)), Ins("jump", X, X, X, 3), Lit(G(0), 1), Mov(ZeroReg, G(0)), Ret(G(0))>>,
   <<Mov(G(0), G(2)), Mov(G(2), P(0)), Ret(G(0))>>,
   <<Lit(<<"arg", 0>>, 1), Set(G(1), 0), Prim(G(1), G(2)), Mov(G(0), P(0)), Ret(G(0))>>,
   <<Mov(G(0), P(0)), Lit(G(1), 0), Op("and", G(2), G(1), G(0)), Ret(G(2))>>,
   <<Lit(G(0), 1), Goto(4), Op("add", G(0), G(0), G(1)), Ret(G(0)), Lit(G(1), 1), Goto(2)>>}
MCPrograms == Short \cup {[entry |-> 0, body |-> Seqs(s)] : s \in Long}
================================================================================
