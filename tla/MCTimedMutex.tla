---------------------------- MODULE MCTimedMutex ----------------------------
(* An instance of TimedMutex for TLC. *)
EXTENDS TimedMutex
=============================================================================
