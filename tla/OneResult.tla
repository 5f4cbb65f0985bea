----------------------------- MODULE OneResult -----------------------------
(***************************************************************************)
(* What the shared state of promises and futures promises: it gets at most *)
(* one result, and whoever is told a result is told that one.              *)
(* AssocState is shown to implement it.                                    *)
(***************************************************************************)
CONSTANTS Threads,      \* the threads that share the state
          None          \* no result

VARIABLES result,       \* the result, or None
          got           \* the result each thread has been told, or None

Init ==
    /\ result = None
    /\ got = [t \in Threads |-> None]

Provide ==
    /\ result = None
    /\ result' # None
    /\ UNCHANGED got

Tell(t) ==
    /\ result # None
    /\ got' = [got EXCEPT ![t] = result]
    /\ UNCHANGED result

Next == Provide \/ \E t \in Threads : Tell(t)

Spec == Init /\ [][Next]_<<result, got>>
=============================================================================
