------------------------------- MODULE Subroutine -------------------------------
(***************************************************************************)
(* What calling a subroutine promises, however it is run: each activation  *)
(* does what the interpreter does, one instruction after the other.        *)
(*                                                                         *)
(* Code compiled from a trace owes this only while the activation stays in *)
(* the part of the language the compiler translates (InScope); from the    *)
(* first instruction outside it nothing is owed until the next call.       *)
(***************************************************************************)
EXTENDS Activation

VARIABLES
  act,          \* the activation
  owed          \* the interpreter's behaviour is owed

vars == <<body, entry, act, owed>>

\* Outside the scope: a general register read before the activation assigned it
\* (compiled code starts them all at null), a parameter but the first, or the first
\* after a primitive call replaced it; an AND whose second operand is a null pointer;
\* a register added that no instruction further up assigned; a local named by a
\* register that more than one instruction assigns or one that is not SETSYMBOL; a local
\* set again with another value (the interpreter goes on reading the first one, compiled
\* code the last); an instruction the recorder does not know.
InScope(s) ==
  LET i == I(s)
      sym == IF i.op = "setlocal" THEN i.a ELSE i.b
  IN /\ Sound(s) /\ i.op \in Compilable
     /\ Reads(i) \cap GenRegs \subseteq Assigned(s)
     /\ Reads(i) \cap ParamRegs \subseteq {<<"param", 0>>}
     /\ Reads(i) \cap ParamRegs # {} => s.own
     /\ i.op = "and" => C(s) # NULL
     /\ i.op = "add" => \A r \in Reads(i) : \E j \in s.wrote : j < s.ip /\ Writes(body[j]) = r
     /\ i.op \in {"setlocal", "getlocal"} =>
          \E j \in s.wrote :
            /\ body[j].op = "set"
            /\ \A k \in DOMAIN body : Writes(body[k]) = sym <=> k = j
     /\ i.op = "setlocal" => s.locals[A(s).v] \in {<<>>, <<B(s)>>}
     /\ \A t \in Steps(s) :
          t.result.status = "running" =>
            t.ip \in DOMAIN body /\ body[t.ip].op \in Recorded

Init == ~owed

\* The subroutine is called.
Call ==
  /\ ~owed \/ act.result.status = "returned"
  /\ owed' /\ act' = Enter(act'.regs, act'.arrays)

Execute ==
  /\ owed /\ owed' /\ Sound(act)
  /\ act' \in Steps(act)

\* An exception, or an instruction out of scope.
Leave == owed /\ ~owed' /\ (~InScope(act) \/ MayRaise(act))
Left == ~owed /\ ~owed'

Next == (Call \/ Execute \/ Leave \/ Left) /\ UNCHANGED <<body, entry>>

Spec == Init /\ [][Next]_vars
================================================================================
