----------------------------- MODULE MCWarPage -----------------------------
(***************************************************************************)
(* A small WarPage for TLC: two processes, two ranges, one alliance.       *)
(***************************************************************************)
EXTENDS WarPage

CONSTANTS p1, p2
=============================================================================
