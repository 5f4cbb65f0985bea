------------------------- MODULE MCLockFileManager --------------------------
(* Instances of LockFileManager for TLC.                                   *)
EXTENDS LockFileManager

OneHost == [p \in Procs |-> "host"]

AllFaults == {"absolute", "create", "write", "link", "remove", "read", "access"}
=============================================================================
