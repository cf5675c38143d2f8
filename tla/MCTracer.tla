-------------------------------- MODULE MCTracer --------------------------------
(* The programs of MCVM, and a main program that calls a subroutine again and    *)
(* again: every subroutine of three instructions over an alphabet of recorded,   *)
(* annotated and unrecorded instructions, branches, calls and exceptions.        *)
EXTENDS Tracer, MCVM

Letters ==
  {InsTo("set", d) : d \in {0, 1}} \cup {InsAB("setlocal", r0, r1), InsAB("getlocal", r1, r0)}
  \cup {Ins("if", r1, r0, r0, d) : d \in {4, 7}} \cup {InsTo("goto", 4), InsTo("tailcall", 4)}
  \cup {InsAB("invokeprimitive", r0, r1), InsAB("callsymbolic", r0, r1)}
  \cup {Ins0("throw"), Ins0("noop"), InsA("return", r1), InsA("return", p1)}

\* 0: a handler for the main program; 1: the call; 4: the subroutine
Caller(i, j, k) ==
  Load(<<Ins("catch", r1, r0, r0, 1), InsAB("callsymbolic", r0, r1), InsTo("goto", 1),
         Ins0("die"), i, j, k, InsA("return", r1)>>)

TracedPrograms == {Caller(i, j, k) : i, j, k \in Letters}
AllPrograms == MCPrograms \cup TracedPrograms
================================================================================
