---------------------------- MODULE MCIntelBoard ----------------------------
(***************************************************************************)
(* A small IntelBoard for TLC: a gate system of ours and a neighbour that  *)
(* share a prefix, and messages that name them in full, by an unambiguous  *)
(* and by an ambiguous abbreviation.                                       *)
(***************************************************************************)
EXTENDS IntelBoard

MCPrefixed == [t \in {"j9a", "j9", "hi"} |->
                 CASE t = "j9a" -> {"J9A-BH"} [] t = "j9" -> {"J9A-BH", "J9X-1"} [] t = "hi" -> {}]

MCMessages == {
    [tokens |-> <<"hi", "J9A-BH">>, count |-> 3, clear |-> FALSE, chars |-> {"ann"}],
    [tokens |-> <<"j9a", "J9X-1">>, count |-> 0, clear |-> TRUE, chars |-> {}],
    [tokens |-> <<"j9", "J9X-1">>, count |-> 1, clear |-> FALSE, chars |-> {"ann", "bob"}],
    [tokens |-> <<"hi", "j9">>, count |-> 1, clear |-> FALSE, chars |-> {"bob"}]}
=============================================================================
