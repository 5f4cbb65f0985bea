----------------------------- MODULE MCStdLock -----------------------------
(* An instance of StdLock for TLC: lists of two and of four locks in different    *)
(* orders, and one lock alone.                                                  *)
EXTENDS StdLock

CONSTANTS a, b, c, d

MCLocks == {a, b, c, d}
MCLists == {<<a, b, c, d>>, <<d, a>>, <<b>>}
=============================================================================
