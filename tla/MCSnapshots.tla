---------------------------- MODULE MCSnapshots ----------------------------
(***************************************************************************)
(* A small instance of Snapshots.                                          *)
(***************************************************************************)
EXTENDS Snapshots, TLC

CONSTANTS w1, w2, adm1, adm2

MCSymmetry == Permutations({w1, w2}) \cup Permutations({adm1, adm2})
=============================================================================
