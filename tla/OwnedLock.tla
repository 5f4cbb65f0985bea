------------------------------ MODULE OwnedLock ------------------------------
(***************************************************************************)
(* What a mutex promises: one thread at a time holds it, as often as it    *)
(* has locked it and not unlocked it, and at most Limit times.             *)
(* TimedMutex, TasLock and FutexLock are shown to implement it.            *)
(***************************************************************************)
EXTENDS Naturals

CONSTANTS Threads,      \* the threads that use the mutex
          Limit         \* how often a thread can hold it

VARIABLE holds          \* how often each thread holds it

Init == holds = [t \in Threads |-> 0]

Acquire(t) ==
    /\ \A u \in Threads \ {t} : holds[u] = 0
    /\ holds[t] < Limit
    /\ holds' = [holds EXCEPT ![t] = @ + 1]

Release(t) ==
    /\ holds[t] > 0
    /\ holds' = [holds EXCEPT ![t] = @ - 1]

Next == \E t \in Threads : Acquire(t) \/ Release(t)

Spec == Init /\ [][Next]_holds
=============================================================================
