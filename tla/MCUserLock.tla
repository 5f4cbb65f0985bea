----------------------------- MODULE MCUserLock -----------------------------
(* An instance of UserLock for TLC. *)
EXTENDS UserLock
=============================================================================
