------------------------------ MODULE MCAccess ------------------------------
(***************************************************************************)
(* A small Access for TLC: one board, inputs that pass through half a      *)
(* password, and a session that changes elsewhere.                         *)
(***************************************************************************)
EXTENDS Access

MCHooks == {"timers", "reader", "operator"}
=============================================================================
