-------------------------- MODULE ReadersWriterLock --------------------------
(***************************************************************************)
(* What a shared mutex promises, with no word about how: at any time       *)
(* either one thread holds the lock exclusively, or at most MaxReaders     *)
(* threads hold it shared.  SharedTimedMutex is shown to implement it.     *)
(***************************************************************************)
EXTENDS Naturals, FiniteSets

CONSTANTS Threads,      \* the threads that use the lock
          MaxReaders    \* how many of them may hold it shared at once

VARIABLE holds          \* how each thread holds the lock

Modes == {"none", "shared", "exclusive"}

Holders(mode) == {t \in Threads : holds[t] = mode}

Init == holds = [t \in Threads |-> "none"]

AcquireExclusive(t) ==
    /\ Holders("none") = Threads
    /\ holds' = [holds EXCEPT ![t] = "exclusive"]

AcquireShared(t) ==
    /\ holds[t] = "none"
    /\ Holders("exclusive") = {}
    /\ Cardinality(Holders("shared")) < MaxReaders
    /\ holds' = [holds EXCEPT ![t] = "shared"]

Release(t) ==
    /\ holds[t] # "none"
    /\ holds' = [holds EXCEPT ![t] = "none"]

Next == \E t \in Threads : AcquireExclusive(t) \/ AcquireShared(t) \/ Release(t)

Spec == Init /\ [][Next]_holds
=============================================================================
