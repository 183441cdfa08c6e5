---------------------------- MODULE MCEsiClient ----------------------------
(***************************************************************************)
(* A small instance of EsiClient: two keys of ESI's and one of             *)
(* zKillboard's in a cache of two entries, two threads of one process.     *)
(***************************************************************************)
EXTENDS EsiClient, TLC

CONSTANTS p1, t1, t2, sov, name, zkill

MCProcessOf == [t \in {t1, t2} |-> p1]
MCTTL == (sov :> 1) @@ (name :> 2) @@ (zkill :> 1)
MCSymmetry == Permutations({t1, t2})
=============================================================================
