--------------------------- MODULE MCSovChanges ---------------------------
(***************************************************************************)
(* A small instance of SovChanges: three threads, two of one process.      *)
(***************************************************************************)
EXTENDS SovChanges, TLC

CONSTANTS p1, p2, t1, t2, t3, s1, s2, ours, theirs

MCProcessOf == (t1 :> p1) @@ (t2 :> p1) @@ (t3 :> p2)
MCSymmetry == Permutations({s1, s2}) \cup Permutations({t1, t2})
=============================================================================
