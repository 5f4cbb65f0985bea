------------------------------ MODULE OnceInit ------------------------------
(***************************************************************************)
(* What one-time initialization promises: the initializer of an object is  *)
(* run by one thread at a time, again only if it has failed, and a thread  *)
(* that is told that the object is ready is told so after an initializer   *)
(* has completed.  CallOnce and CxaGuard are shown to implement it.        *)
(***************************************************************************)
CONSTANTS Threads,      \* the threads that use the objects
          Objects       \* the objects to be initialized once

VARIABLES runs,         \* the thread that runs the initializer of each object,
                        \* or "nobody", or "done" for good
          ready         \* the objects each thread has been told are ready

Init ==
    /\ runs = [o \in Objects |-> "nobody"]
    /\ ready = [t \in Threads |-> {}]

Start(t, o) ==
    /\ runs[o] = "nobody"
    /\ runs' = [runs EXCEPT ![o] = t]
    /\ UNCHANGED ready

Complete(t, o) ==
    /\ runs[o] = t
    /\ runs' = [runs EXCEPT ![o] = "done"]
    /\ ready' = [ready EXCEPT ![t] = @ \cup {o}]

Fail(t, o) ==
    /\ runs[o] = t
    /\ runs' = [runs EXCEPT ![o] = "nobody"]
    /\ UNCHANGED ready

Tell(t, o) ==
    /\ runs[o] = "done"
    /\ ready' = [ready EXCEPT ![t] = @ \cup {o}]
    /\ UNCHANGED runs

Next == \E t \in Threads, o \in Objects :
            Start(t, o) \/ Complete(t, o) \/ Fail(t, o) \/ Tell(t, o)

Spec == Init /\ [][Next]_<<runs, ready>>
=============================================================================
