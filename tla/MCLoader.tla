--------------------------------- MODULE MCLoader ---------------------------------
(* Chunk sources for model checking Loader.  Every source is loaded twice, so that  *)
(* its second copy is relocated, shares names with the first and makes the arrays   *)
(* grow.                                                                            *)
EXTENDS Loader, FiniteSets

CONSTANTS lbl, subr, print   \* names

C(b, regs, name, n) == [b |-> b, regs |-> regs, name |-> name, n |-> n]
C0(b) == C(b, <<>>, NULL, 0)
CName(b, name) == C(b, <<>>, name, 0)

\* One call of every builder with a layout of its own, and all that name a label.
Alphabet == {
  C0("die"), C("throw", <<7>>, NULL, 0), C("move", <<7, 8>>, NULL, 0),
  C("arrayset", <<7, 8, 9>>, NULL, 0), C("jump", <<>>, NULL, 5), C("goto", <<>>, NULL, 3),
  C("call", <<7>>, NULL, 2), C("litinteger", <<7>>, NULL, 300),
  C("invokeaddress", <<7, 8>>, NULL, 0), C("invokeprimitive", <<7, 8>>, NULL, 0),
  C("callsymbolic", <<7>>, subr, 0), C("callprimitive", <<7>>, print, 0),
  C("set_symbol", <<7>>, lbl, 0), C("set_string", <<7>>, lbl, 0), C("set_integer", <<7>>, NULL, 9),
  CName("label", lbl), CName("sub", subr), CName("goto_label", lbl), C("catch_label", <<7>>, lbl, 0),
  C("if_label", <<7>>, lbl, 0), C("litinteger_label", <<7>>, lbl, 0), C("call_label", <<7>>, subr, 0),
  C0("block"), C("set_debug_entry", <<>>, lbl, 1), C("set_debug_line", <<>>, NULL, 2),
  C("set_debug_flags", <<>>, NULL, 1), C0("invokesymbolic")}

\* Labels, blocks and debug entries, in longer sources.
Nesting == {C0("die"), CName("label", lbl), CName("goto_label", lbl), C0("block"), C0("end"),
            C("set_debug_entry", <<>>, lbl, 1), C("set_debug_line", <<>>, NULL, 2)}

\* A block ends only where one is open.
WellNested(src) ==
  \A i \in DOMAIN src :
    LET Calls(b) == Cardinality({j \in 1 .. i : src[j].b = b})
    IN Calls("end") <= Calls("block")

Sources == UNION {[1 .. n -> Alphabet] : n \in 1 .. 3}
            \cup {src \in [1 .. 5 -> Nesting] : WellNested(src)}

\* Sources long enough for the chunk to grow, for labels on both sides of their uses
\* and for subroutines of the same name in two chunks
Long == {
  <<C("call_label", <<7>>, subr, 0), C("arrayset", <<7, 8, 9>>, NULL, 0), CName("sub", subr), C0("die")>>,
  <<CName("sub", subr), C("return", <<7>>, NULL, 0), C("call_label", <<8>>, subr, 0),
    C("callsymbolic", <<9>>, subr, 0), C("if_label", <<7>>, lbl, 0), C("litinteger_label", <<7>>, lbl, 0),
    CName("label", lbl), C("catch_label", <<7>>, lbl, 0), CName("goto_label", lbl)>>,
  <<C("if", <<7>>, NULL, 3), C0("noop")>>}

MCPrograms == {<<src, src>> : src \in Sources \cup Long}
MCPrimitives == <<print>>
================================================================================
