------------------------------ MODULE MCEntosis ------------------------------
(***************************************************************************)
(* Two pages on one board: the fleet commander, who manages and may claim, *)
(* and a pilot; one campaign, in a constellation of one system, and one    *)
(* primary system elsewhere.                                               *)
(***************************************************************************)
EXTENDS Entosis

CONSTANTS fc, pilot, camp

MCSystemsOf == [c \in {camp} |-> {"J9A-BH"}]
MCMaxReplies == (fc :> 2 @@ pilot :> 1)
=============================================================================
