------------------------ MODULE ConditionVariableAny ------------------------
(***************************************************************************)
(* std::condition_variable_any of libc++, which makes a condition variable *)
(* for any lock out of one for std::mutex.                                 *)
(*                                                                         *)
(* wait gives the lock of the caller back while it keeps a mutex of its    *)
(* own, *__mut_, locked until it blocks; a notification locks that mutex   *)
(* for a moment first.  The mutex is shared, so that a thread may still    *)
(* unlock it when the condition variable is gone.  Each step on one of the *)
(* two locks is an action.                                                 *)
(*                                                                         *)
(* The program is one that the class is for: threads wait, with or without *)
(* a deadline, until there is a token or the program is closed; others     *)
(* post a token and notify one, or close, notify all and then destroy the  *)
(* condition variable.  They notify with or without the lock.              *)
(***************************************************************************)
EXTENDS Naturals, FiniteSets

CONSTANTS Threads, None,
          MaxTokens     \* bounds the tokens that are there at a time

ASSUME ConstantsAssumption ==
    IsFiniteSet(Threads) /\ None \notin Threads /\ MaxTokens \in Nat

VARIABLES lock,         \* who has the lock of the program, or None
          mut,          \* who has *__mut_, or None
          cv,           \* the threads blocked on __cv_
          copies,       \* the threads that have a copy of __mut_
          alive,        \* the condition variable has not been destroyed
          pc,           \* where each thread is
          deadline,     \* of its wait: none, ahead, or past
          tokens,       \* what the threads wait for
          closed        \* the program is closed

program == <<tokens, closed>>
vars == <<lock, mut, cv, copies, alive, pc, deadline, tokens, closed>>

\* In wait or wait_until: before and after the thread blocks.
Before == {"copied", "locked", "unlocked"}
After  == {"waiting", "woken", "relock", "leave"}
Notifying == {"notify_one", "notify_all", "signal_one", "signal_all"}

TypeOK ==
    /\ lock \in Threads \cup {None}
    /\ mut \in Threads \cup {None}
    /\ cv \subseteq {t \in Threads : pc[t] = "waiting"}
    /\ copies \subseteq Threads
    /\ alive \in BOOLEAN /\ closed \in BOOLEAN
    /\ pc \in [Threads -> {"program", "test", "closed"} \cup Before \cup After \cup Notifying]
    /\ deadline \in [Threads -> {"none", "ahead", "past"}]
    /\ tokens \in 0 .. MaxTokens

Init ==
    /\ lock = None /\ mut = None /\ cv = {} /\ copies = {}
    /\ alive = TRUE /\ closed = FALSE /\ tokens = 0
    /\ pc = [t \in Threads |-> "program"]
    /\ deadline = [t \in Threads |-> "none"]

Go(t, from, to) == pc[t] = from /\ pc' = [pc EXCEPT ![t] = to]

-----------------------------------------------------------------------------
(* The loops of wait and wait_until with a predicate, and their caller.    *)

\* A thread locks the lock and calls one of them.
Enter(t) ==
    /\ lock = None /\ lock' = t
    /\ Go(t, "program", "test")
    /\ \E d \in {"none", "ahead"} : deadline' = [deadline EXCEPT ![t] = d]
    /\ UNCHANGED <<mut, cv, copies, alive, program>>

\* The call returns, and the caller takes a token if there is one.
Leave(t) ==
    /\ Go(t, "test", "program")
    /\ lock' = None
    /\ tokens' = IF tokens > 0 THEN tokens - 1 ELSE 0
    /\ UNCHANGED <<mut, cv, copies, alive, deadline, closed>>

\* wait copies __mut_.
Copy(t) ==
    /\ Go(t, "test", "copied")
    /\ copies' = copies \cup {t}
    /\ UNCHANGED <<lock, mut, cv, alive, deadline, program>>

\* Mutant: a wait that has timed out does not look at the predicate.
TestInTime(t) ==
    IF deadline[t] = "past"
    THEN /\ Go(t, "test", "program")
         /\ lock' = None
         /\ UNCHANGED <<mut, cv, copies, alive, deadline, program>>
    ELSE IF tokens > 0 \/ closed THEN Leave(t) ELSE Copy(t)

\* The predicate is evaluated, for the last time after a time-out.
Test(t) == IF tokens > 0 \/ closed \/ deadline[t] = "past" THEN Leave(t) ELSE Copy(t)

-----------------------------------------------------------------------------
(* wait and wait_until.                                                    *)

LockMutex(t) ==
    /\ Go(t, "copied", "locked")
    /\ mut = None /\ mut' = t
    /\ UNCHANGED <<lock, cv, copies, alive, deadline, program>>

Unlock(t) ==
    /\ Go(t, "locked", "unlocked")
    /\ lock' = None
    /\ UNCHANGED <<mut, cv, copies, alive, deadline, program>>

\* __cv_.wait, which gives *__mut_ back; __cv_.wait_until returns at once if it is
\* called late.
Block(t) ==
    \/ /\ Go(t, "unlocked", "waiting")
       /\ mut' = None
       /\ cv' = cv \cup {t}
       /\ UNCHANGED <<lock, copies, alive, deadline, program>>
    \/ /\ deadline[t] = "ahead" /\ deadline' = [deadline EXCEPT ![t] = "past"]
       /\ Go(t, "unlocked", "woken")
       /\ UNCHANGED <<lock, mut, cv, copies, alive, program>>

\* The thread stops waiting without a notification.
Wake(t) ==
    /\ t \in cv /\ cv' = cv \ {t}
    /\ UNCHANGED <<lock, mut, copies, alive, pc, deadline, program>>

\* __cv_.wait has *__mut_ back, and wait_until looks at the clock.
Return(t) ==
    /\ t \notin cv
    /\ Go(t, "waiting", "woken")
    /\ mut = None /\ mut' = t
    /\ \E d \in {deadline[t]} \cup (IF deadline[t] = "ahead" THEN {"past"} ELSE {}) :
          deadline' = [deadline EXCEPT ![t] = d]
    /\ UNCHANGED <<lock, cv, copies, alive, program>>

\* Mutant: the lock is taken before *__mut_ is given back.
UnlockMutexLast(t) ==
    /\ Go(t, "woken", "leave")
    /\ lock = None /\ lock' = t
    /\ mut' = None
    /\ UNCHANGED <<cv, copies, alive, deadline, program>>

\* The local objects are destroyed in turn: __lx unlocks *__mut_,
UnlockMutex(t) ==
    /\ Go(t, "woken", "relock")
    /\ mut' = None
    /\ UNCHANGED <<lock, cv, copies, alive, deadline, program>>

\* __lxx locks the lock,
Relock(t) ==
    /\ Go(t, "relock", "leave")
    /\ lock = None /\ lock' = t
    /\ UNCHANGED <<mut, cv, copies, alive, deadline, program>>

\* and the copy of __mut_ goes.
DropCopy(t) ==
    /\ Go(t, "leave", "test")
    /\ copies' = copies \ {t}
    /\ UNCHANGED <<lock, mut, cv, alive, deadline, program>>

-----------------------------------------------------------------------------
(* notify_one and notify_all, and their callers.                           *)

\* The caller locks the lock for its change; it may keep it.
Keep(t) == lock = None /\ lock' \in {None, t}

Post(t) ==
    /\ ~closed /\ tokens < MaxTokens
    /\ Keep(t)
    /\ tokens' = tokens + 1
    /\ Go(t, "program", "notify_one")
    /\ UNCHANGED <<mut, cv, copies, alive, deadline, closed>>

Close(t) ==
    /\ ~closed
    /\ Keep(t)
    /\ closed' = TRUE
    /\ Go(t, "program", "notify_all")
    /\ UNCHANGED <<mut, cv, copies, alive, deadline, tokens>>

\* Mutant: the notification does not lock the mutex.
PassMutexFree(t) ==
    /\ Go(t, "notify_one", "signal_one") \/ Go(t, "notify_all", "signal_all")
    /\ UNCHANGED <<lock, mut, cv, copies, alive, deadline, program>>

\* *__mut_ is locked and unlocked.
PassMutex(t) ==
    /\ mut = None
    /\ Go(t, "notify_one", "signal_one") \/ Go(t, "notify_all", "signal_all")
    /\ UNCHANGED <<lock, mut, cv, copies, alive, deadline, program>>

\* The notification; the lock, if it has been kept, goes now, or after ~.
SignalOne(t) ==
    /\ Go(t, "signal_one", "program")
    /\ IF cv = {} THEN UNCHANGED cv ELSE \E u \in cv : cv' = cv \ {u}
    /\ lock' = IF lock = t THEN None ELSE lock
    /\ UNCHANGED <<mut, copies, alive, deadline, program>>

SignalAll(t) ==
    /\ Go(t, "signal_all", "closed")
    /\ cv' = {}
    /\ UNCHANGED <<lock, mut, copies, alive, deadline, program>>

\* The thread that has closed the program destroys the condition variable: all
\* threads that wait have been notified, and nobody else is about to notify.
Destroy(t) ==
    /\ \A u \in Threads : pc[u] \notin Notifying
    /\ Go(t, "closed", "program")
    /\ alive' = FALSE
    /\ lock' = IF lock = t THEN None ELSE lock
    /\ UNCHANGED <<mut, cv, copies, deadline, program>>

-----------------------------------------------------------------------------
\* What takes a lock, and what does not.
Locking(t) == LockMutex(t) \/ Return(t) \/ Relock(t) \/ PassMutex(t)
Going(t) == Test(t) \/ Unlock(t) \/ Block(t) \/ UnlockMutex(t) \/ DropCopy(t)
                \/ SignalOne(t) \/ SignalAll(t) \/ Destroy(t)

Next == \E t \in Threads :
    \/ Enter(t) \/ Wake(t) \/ Post(t) \/ Close(t)
    \/ Locking(t) \/ Going(t)

Spec == Init /\ [][Next]_vars

(* A thread goes on when it can, and gets a lock that is free again and again. *)
(* Nobody has to call, to post or to close.                                    *)
FairSpec == Spec /\ \A t \in Threads : WF_vars(Going(t)) /\ SF_vars(Locking(t))

-----------------------------------------------------------------------------
(* Properties.                                                             *)

\* Who has the locks.
LocksAreHeld == \A t \in Threads :
    /\ pc[t] \in {"test", "copied", "locked", "leave"} => lock = t
    /\ pc[t] \in {"locked", "unlocked", "woken"} <=> mut = t
    /\ pc[t] \in Before \cup After <=> t \in copies
    /\ lock = t => pc[t] \in {"test", "copied", "locked", "leave", "closed"} \cup Notifying

\* Once the program is closed nobody is about to wait, except one that has given the
\* lock back and not blocked, for which the notification waits; and nobody sleeps
\* past it.
CloseReachesAll == closed =>
    /\ \A t \in Threads : pc[t] \notin {"copied", "locked"}
    /\ (\E t \in Threads : pc[t] = "unlocked") => \E u \in Threads : pc[u] = "notify_all"
    /\ cv # {} => \E u \in Threads : pc[u] \in {"notify_all", "signal_all"}

\* Only a thread that has closed the program notifies all and destroys.
CloserHasClosed ==
    /\ \A t \in Threads : pc[t] \in {"notify_all", "signal_all", "closed"} => closed
    /\ ~alive => closed

\* Nobody uses the condition variable after its destruction, and a thread that is
\* still on its way out of wait has a mutex to unlock: what the lock of *__mut_ in
\* notify_all and the copy of __mut_ in wait are for.
NoUseAfterDestroy == ~alive =>
    /\ cv = {} /\ \A t \in Threads : pc[t] \notin Before \cup Notifying
    /\ mut # None => mut \in copies

\* The threads that are about to notify one, and those that will look at the tokens
\* or make another look before they sleep.
Notifiers == {t \in Threads : pc[t] = "notify_one"}
Active == {t \in Threads :
    \/ pc[t] \in {"notify_one", "signal_one", "woken", "relock", "leave", "test"}
    \/ pc[t] = "waiting" /\ t \notin cv}

\* While threads sleep there is somebody on the way for each of the tokens: none is
\* posted between the look at the predicate and the sleep without a notification
\* that waits for *__mut_.
TokensAreAnnounced == ~closed =>
    /\ (\E t \in Threads : pc[t] \in {"copied", "locked"}) => tokens = 0
    /\ (\E t \in Threads : pc[t] = "unlocked") => tokens <= Cardinality(Notifiers)
    /\ cv # {} => tokens <= Cardinality(Active)

\* The inductive invariant.
Inv ==
    /\ TypeOK /\ LocksAreHeld /\ CloserHasClosed /\ CloseReachesAll
    /\ NoUseAfterDestroy /\ TokensAreAnnounced

\* A wait ends when the program is closed, whatever the threads hold and wait for.
EveryWaitEnds == \A t \in Threads :
    (closed /\ pc[t] \in Before \cup After) ~> pc[t] = "program"

\* A token is not left to lie while threads wait, though notify_one wakes one thread
\* and that one may come late.
TokenIsTaken ==
    [](~closed) => ((tokens > 0 /\ cv # {}) ~> (tokens = 0 \/ cv = {}))
=============================================================================
