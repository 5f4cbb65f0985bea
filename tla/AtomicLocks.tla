----------------------------- MODULE AtomicLocks -----------------------------
(***************************************************************************)
(* What std::lock promises: a call takes all the locks of its list, as if  *)
(* in one step, or none of them.  StdLock is shown to implement it.        *)
(***************************************************************************)
CONSTANTS Threads, Locks, None,
          Sets          \* the sets of locks that threads lock

VARIABLE owner          \* who has each lock, or None

Init == owner = [l \in Locks |-> None]

LockAll(t, S) ==
    /\ \A l \in S : owner[l] = None
    /\ owner' = [l \in Locks |-> IF l \in S THEN t ELSE owner[l]]

Unlock(t, l) ==
    /\ owner[l] = t
    /\ owner' = [owner EXCEPT ![l] = None]

Next == \E t \in Threads :
    \/ \E S \in Sets : LockAll(t, S)
    \/ \E l \in Locks : Unlock(t, l)

Spec == Init /\ [][Next]_owner
=============================================================================
