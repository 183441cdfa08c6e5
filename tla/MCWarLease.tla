----------------------------- MODULE MCWarLease -----------------------------
(***************************************************************************)
(* A small instance of WarLease: three worker processes over the life of   *)
(* the service, a TTL of two intervals as poll_war asks for, and a write   *)
(* lock that can be waited for.                                            *)
(***************************************************************************)
EXTENDS WarLease
=============================================================================
