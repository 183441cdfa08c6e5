----------------------------- MODULE MCWarIngest -----------------------------
(***************************************************************************)
(* A small instance of WarIngest.                                          *)
(***************************************************************************)
EXTENDS WarIngest, TLC

\* The worker processes are interchangeable.
Sym == Permutations(Worker)
=============================================================================
