------------------------------- MODULE StdLock -------------------------------
(***************************************************************************)
(* std::lock and std::try_lock of libc++ for a list of locks.              *)
(*                                                                         *)
(* lock blocks on one lock, then tries the others in cyclic order.  When   *)
(* one of them is taken it gives back all it has and blocks on that one.   *)
(* __lock_first keeps the list and the place __i where to begin; for a     *)
(* place after the second it calls itself with the list rotated by two.    *)
(* lock of two locks, which takes turns, is the same with places 0 and 1.  *)
(*                                                                         *)
(* Each lock, try_lock and unlock of one lock is a step.  Locks may throw. *)
(* A list of one lock stands for a lock of that lock alone.                *)
(***************************************************************************)
EXTENDS MutexThreads, Integers, Sequences, FiniteSets

CONSTANTS Locks,
          Lists         \* the lists of locks that threads lock

ASSUME ListsAssumption ==
    /\ None \notin Threads
    /\ \A s \in Lists :
        /\ s \in Seq(Locks) /\ Len(s) > 0
        /\ \A j, k \in 1 .. Len(s) : s[j] = s[k] => j = k

VARIABLES owner,        \* who has each lock, or None
          list,         \* the arguments of the call of __lock_first or try_lock
          place,        \* __i: where in the list it begins
          has,          \* how many locks, from there on, it has
          failed,       \* the lock that was found taken, until t tries again
          thrown        \* an exception leaves the call

allVars == <<owner, list, place, has, pc, failed, thrown>>

Rotate(s, n) == SubSeq(s, n + 1, Len(s)) \o SubSeq(s, 1, n)

\* The locks in the order in which the thread takes them, from its place on.
Order(t) == Rotate(list[t], place[t])

Held(t) == {Order(t)[j] : j \in 1 .. has[t]}

AllTypeOK ==
    /\ owner \in [Locks -> Threads \cup {None}]
    /\ list \in [Threads -> Seq(Locks)]
    /\ place \in [Threads -> {0, 1}]
    /\ has \in [Threads -> Nat] /\ \A t \in Threads : has[t] <= Len(list[t])
    /\ pc \in [Threads -> {"program", "first", "try", "undo", "try_lock", "fail", "locked"}]
    /\ failed \in [Threads -> Locks \cup {None}]
    /\ thrown \in [Threads -> BOOLEAN]

AllInit ==
    /\ owner = [l \in Locks |-> None]
    /\ list = [t \in Threads |-> << >>]
    /\ place = [t \in Threads |-> 0]
    /\ has = [t \in Threads |-> 0]
    /\ pc = [t \in Threads |-> "program"]
    /\ failed = [t \in Threads |-> None]
    /\ thrown = [t \in Threads |-> FALSE]

-----------------------------------------------------------------------------
\* lock(...) or try_lock(...) of a list is called.
Call(t) ==
    /\ pc[t] = "program"
    /\ \E s \in Lists, p \in {"first", "try_lock"} :
        /\ list' = [list EXCEPT ![t] = s]
        /\ pc' = [pc EXCEPT ![t] = p]
    /\ UNCHANGED <<owner, place, has, failed, thrown>>

\* The next lock is free, and t takes it.
TakeNext(t) ==
    LET l == Order(t)[has[t] + 1] IN
    /\ owner[l] = None
    /\ owner' = [owner EXCEPT ![l] = t]
    /\ has' = [has EXCEPT ![t] = @ + 1]
    /\ failed' = [failed EXCEPT ![t] = None]
    /\ UNCHANGED <<list, place, thrown>>

\* Mutant: the last lock is not tried.
TakenEarly(t, p) == pc' = [pc EXCEPT ![t] = IF has'[t] + 1 >= Len(list[t]) THEN "locked" ELSE p]

\* Where a call goes on that has taken one more lock.
Taken(t, p) == pc' = [pc EXCEPT ![t] = IF has'[t] = Len(list[t]) THEN "locked" ELSE p]

\* unique_lock<_L0> __u0(__l0) or unique_lock<_L1> __u1(__l1): t waits for the lock.
LockFirst(t) == pc[t] = "first" /\ TakeNext(t) /\ Taken(t, "try")

\* try_lock of the next lock, which is free, or taken.
TryNext(t) ==
    \/ pc[t] \in {"try", "try_lock"} /\ TakeNext(t) /\ Taken(t, pc[t])
    \/ LET l == Order(t)[has[t] + 1] IN
       /\ pc[t] \in {"try", "try_lock"}
       /\ owner[l] # None
       /\ failed' = [failed EXCEPT ![t] = l]
       /\ pc' = [pc EXCEPT ![t] = IF pc[t] = "try" THEN "undo" ELSE "fail"]
       /\ UNCHANGED <<owner, list, place, has, thrown>>

\* The place of the lock that try_lock found taken, its r-th, after a call for place i.
NextPlace(i, r, n) == IF i = 0 THEN r + 1 ELSE IF r = n - 2 THEN 0 ELSE r + 2

\* The place of the failed lock among those that try_lock was given.
Result(t) == CHOOSE r \in 0 .. Len(list[t]) - 2 : Order(t)[r + 2] = failed[t]

\* __lock_first(__i - 2, __l2, __l3..., __l0, __l1), as often as it takes.
Recall(t, i) ==
    /\ list' = [list EXCEPT ![t] = Rotate(@, 2 * (i \div 2))]
    /\ place' = [place EXCEPT ![t] = i % 2]

\* The call has nothing left to give back: lock begins again, or it returns or throws.
Restart(t) ==
    IF pc[t] = "undo" /\ ~thrown[t]
    THEN /\ Recall(t, NextPlace(place[t], Result(t), Len(list[t])))
         /\ pc' = [pc EXCEPT ![t] = "first"]
         /\ UNCHANGED <<failed, thrown>>
    ELSE /\ list' = [list EXCEPT ![t] = << >>]
         /\ place' = [place EXCEPT ![t] = 0]
         /\ pc' = [pc EXCEPT ![t] = "program"]
         /\ failed' = [failed EXCEPT ![t] = None]
         /\ thrown' = [thrown EXCEPT ![t] = FALSE]

\* Mutant: the unique_locks let go of the locks without unlocking them.
UndoReleased(t) ==
    /\ pc[t] \in {"undo", "fail"}
    /\ IF has[t] = 0
       THEN Restart(t) /\ UNCHANGED <<owner, has>>
       ELSE /\ has' = [has EXCEPT ![t] = @ - 1]
            /\ UNCHANGED <<owner, list, place, pc, failed, thrown>>

\* The unique_locks unlock what they have, the last one first.
Undo(t) ==
    /\ pc[t] \in {"undo", "fail"}
    /\ IF has[t] = 0
       THEN Restart(t) /\ UNCHANGED <<owner, has>>
       ELSE /\ owner' = [owner EXCEPT ![Order(t)[has[t]]] = None]
            /\ has' = [has EXCEPT ![t] = @ - 1]
            /\ UNCHANGED <<list, place, pc, failed, thrown>>

\* lock or try_lock of a lock throws.
Throw(t) ==
    /\ pc[t] \in {"first", "try", "try_lock"}
    /\ pc' = [pc EXCEPT ![t] = "undo"]
    /\ thrown' = [thrown EXCEPT ![t] = TRUE]
    /\ UNCHANGED <<owner, list, place, has, failed>>

\* The caller, which has all the locks, unlocks them one by one.
UnlockNext(t) ==
    /\ pc[t] = "locked"
    /\ owner' = [owner EXCEPT ![Order(t)[has[t]]] = None]
    /\ has' = [has EXCEPT ![t] = @ - 1]
    /\ IF has[t] = 1 THEN Restart(t) ELSE UNCHANGED <<list, place, pc, failed, thrown>>

-----------------------------------------------------------------------------
Step(t) == LockFirst(t) \/ TryNext(t) \/ Undo(t)

AllNext == \E t \in Threads : Call(t) \/ Step(t) \/ Throw(t) \/ UnlockNext(t)

AllSpec == AllInit /\ [][AllNext]_allVars

(* A call goes on when it can, and a caller unlocks what it has locked.  Nobody *)
(* has to call, and a lock that is contended need not go to the thread that     *)
(* has waited longest.                                                          *)
AllFairSpec == AllSpec /\ \A t \in Threads : WF_allVars(Step(t)) /\ WF_allVars(UnlockNext(t))

-----------------------------------------------------------------------------
(* Properties.                                                             *)

\* Every lock is owned by the thread whose unique_locks have it.
OwnerHasIt == \A l \in Locks, t \in Threads : owner[l] = t <=> l \in Held(t)

\* A thread that blocks has no lock of its list, whatever it had tried: so that calls
\* with lists in different orders cannot wait for each other in a circle; one that
\* has returned without success or thrown has none either.
NoHoldAndWait == \A t \in Threads : pc[t] \in {"first", "program"} => has[t] = 0

\* lock blocks on the lock that it has found taken, also after rotations: it does not
\* spin on locks that are free while another one is held.
BlocksOnFailed == \A t \in Threads :
    pc[t] = "first" /\ failed[t] # None => Order(t)[1] = failed[t]

\* Not all calls wait: one of them can go on, or a caller has all its locks.
NoDeadlock ==
    (\E t \in Threads : pc[t] # "program") =>
        \E t \in Threads :
            \/ pc[t] \notin {"program", "first"}
            \/ pc[t] = "first" /\ owner[Order(t)[1]] = None

AllInv == AllTypeOK /\ OwnerHasIt /\ NoHoldAndWait /\ BlocksOnFailed /\ NoDeadlock

\* lock and try_lock take all the locks of a list in one step, or none.
Atomically == INSTANCE AtomicLocks WITH
    Sets <- {{s[j] : j \in DOMAIN s} : s \in Lists},
    owner <- [l \in Locks |->
                IF owner[l] # None /\ pc[owner[l]] = "locked" THEN owner[l] ELSE None]

ImplementsAtomic == Atomically!Spec

\* A call that is left alone returns.
LoneCallReturns == \A t \in Threads :
    <>[](\A u \in Threads \ {t} : pc[u] = "program") => []<>(pc[t] \in {"program", "locked"})
=============================================================================
