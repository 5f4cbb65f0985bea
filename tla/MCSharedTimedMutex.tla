------------------------- MODULE MCSharedTimedMutex -------------------------
(* Instances of SharedTimedMutex for TLC.                                  *)
EXTENDS SharedTimedMutex, TLC

AllCalls == ExclusiveCalls \cup SharedCalls

Symmetry == Permutations(Threads)
=============================================================================
