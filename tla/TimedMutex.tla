------------------------------ MODULE TimedMutex ------------------------------
(***************************************************************************)
(* std::timed_mutex and std::recursive_timed_mutex of libc++: a flag, or a *)
(* count and an owner, under a mutex __m_ with a condition variable.       *)
(*                                                                         *)
(* What runs between a lock of __m_, or the return of a wait, and the next *)
(* wait or unlock is one step.  unlock is two: timed_mutex notifies before *)
(* it unlocks __m_, recursive_timed_mutex after.                           *)
(*                                                                         *)
(* The mutex may be destroyed as soon as nobody owns it or waits for it,   *)
(* though a call of unlock may not have returned: a thread that has got    *)
(* the mutex and given it back cannot know of that call.                   *)
(***************************************************************************)
EXTENDS MutexThreads, Naturals

CONSTANT MaxCount       \* numeric_limits<size_t>::max()

ASSUME ConstantsAssumption ==
    /\ MaxCount \in Nat \ {0}
    /\ None \notin Threads

VARIABLES recursive,    \* whether it is a recursive_timed_mutex
          count,        \* __count_, or __locked_ as 0 or 1
          id,           \* __id_ of a recursive_timed_mutex, or None
          mutex,        \* who keeps __m_ locked between two steps, or None
          cv,           \* the threads blocked on __cv_
          call,         \* the member function it is in
          late,         \* whether the deadline of its call has passed
          holds,        \* how often each thread owns the mutex
          destroyed     \* the destructor has run

vars == <<recursive, count, id, mutex, cv, pc, call, late, holds, destroyed>>

TypeOK ==
    /\ recursive \in BOOLEAN
    /\ count \in 0 .. MaxCount
    /\ id \in Threads \cup {None}
    /\ mutex \in Threads \cup {None}
    /\ cv \subseteq {t \in Threads : pc[t] = "locking"}
    /\ pc \in [Threads -> {"program", "locking", "notify"}]
    /\ call \in [Threads -> {"none", "lock", "try_lock_until"}]
    /\ late \in [Threads -> BOOLEAN]
    /\ holds \in [Threads -> 0 .. MaxCount]
    /\ destroyed \in BOOLEAN

Init ==
    /\ recursive \in BOOLEAN
    /\ count = 0 /\ id = None /\ mutex = None /\ cv = {}
    /\ pc = [t \in Threads |-> "program"]
    /\ call = [t \in Threads |-> "none"]
    /\ late = [t \in Threads |-> FALSE]
    /\ holds = [t \in Threads |-> 0]
    /\ destroyed = FALSE

-----------------------------------------------------------------------------
(* lock, try_lock_until and try_lock.                                      *)

\* A thread may call what locks the mutex: not a timed_mutex that it owns.
MayLock(t) == pc[t] = "program" /\ ~destroyed /\ (recursive \/ holds[t] = 0)

\* A call begins; a timed one may get a deadline already past.
Begin(t) ==
    /\ MayLock(t)
    /\ \E c \in {"lock", "try_lock_until"}, l \in BOOLEAN :
         /\ l => c = "try_lock_until"
         /\ call' = [call EXCEPT ![t] = c]
         /\ late' = [late EXCEPT ![t] = l]
    /\ pc' = [pc EXCEPT ![t] = "locking"]
    /\ UNCHANGED <<recursive, count, id, mutex, cv, holds, destroyed>>

\* The call of t returns, throws, or gives up.
Return(t) ==
    /\ pc' = [pc EXCEPT ![t] = "program"]
    /\ call' = [call EXCEPT ![t] = "none"]
    /\ late' = [late EXCEPT ![t] = FALSE]
    /\ UNCHANGED <<recursive, mutex, cv, destroyed>>

\* The mutex is locked once more; a timed_mutex keeps no owner.
Take(t) ==
    /\ count' = count + 1
    /\ id' = IF recursive THEN t ELSE id
    /\ holds' = [holds EXCEPT ![t] = @ + 1]

Fail == UNCHANGED <<count, id, holds>>

Block(t) ==
    /\ cv' = cv \cup {t}
    /\ UNCHANGED <<recursive, count, id, mutex, pc, call, late, holds, destroyed>>

\* Mutant: a call whose deadline has passed does not look at the flag again.
LockInTime(t) ==
    /\ pc[t] = "locking" /\ t \notin cv /\ mutex = None
    /\ IF recursive /\ id = t
       THEN Return(t) /\ IF count = MaxCount THEN Fail ELSE Take(t)
       ELSE IF late[t] THEN Return(t) /\ Fail
       ELSE IF count = 0 THEN Return(t) /\ Take(t)
       ELSE Block(t)

\* From the lock of __m_, or the return of a wait, to the next wait or the return:
\* an owner counts up to the limit, another thread waits for the count to be 0, and
\* looks at it once more when its deadline has passed.
Lock(t) ==
    /\ pc[t] = "locking" /\ t \notin cv /\ mutex = None
    /\ IF recursive /\ id = t
       THEN Return(t) /\ IF count = MaxCount THEN Fail ELSE Take(t)
       ELSE IF count = 0 THEN Return(t) /\ Take(t)
       ELSE IF late[t] THEN Return(t) /\ Fail
       ELSE Block(t)

\* Mutant: try_lock of a recursive mutex does not look whose it is.
TryLockAny(t) ==
    /\ MayLock(t) /\ mutex = None
    /\ recursive \/ count = 0
    /\ count < MaxCount
    /\ Take(t)
    /\ UNCHANGED <<recursive, mutex, cv, pc, call, late, destroyed>>

\* try_lock; when it fails, also because it finds __m_ locked, it changes nothing.
TryLock(t) ==
    /\ MayLock(t) /\ mutex = None
    /\ count = 0 \/ (recursive /\ id = t)
    /\ count < MaxCount
    /\ Take(t)
    /\ UNCHANGED <<recursive, mutex, cv, pc, call, late, destroyed>>

DeadlinePasses(t) ==
    /\ call[t] = "try_lock_until"
    /\ ~late[t]
    /\ late' = [late EXCEPT ![t] = TRUE]
    /\ UNCHANGED <<recursive, count, id, mutex, cv, pc, call, holds, destroyed>>

\* A wait ends without a notification, for no reason or because it is late.
Wake(t) ==
    /\ t \in cv
    /\ cv' = cv \ {t}
    /\ UNCHANGED <<recursive, count, id, mutex, pc, call, late, holds, destroyed>>

-----------------------------------------------------------------------------
(* unlock and the destructor.                                              *)

\* Mutant: unlock of a timed_mutex unlocks __m_ before it notifies.
UnlockBeforeNotify(t) ==
    /\ pc[t] = "program" /\ holds[t] > 0 /\ mutex = None
    /\ count' = count - 1
    /\ holds' = [holds EXCEPT ![t] = @ - 1]
    /\ id' = IF count' = 0 THEN None ELSE id
    /\ pc' = [pc EXCEPT ![t] = IF count' = 0 THEN "notify" ELSE "program"]
    /\ UNCHANGED <<recursive, mutex, cv, call, late, destroyed>>

\* unlock up to the notification.
Unlock(t) ==
    /\ pc[t] = "program" /\ holds[t] > 0 /\ mutex = None
    /\ count' = count - 1
    /\ holds' = [holds EXCEPT ![t] = @ - 1]
    /\ id' = IF count' = 0 THEN None ELSE id
    /\ pc' = [pc EXCEPT ![t] = IF count' = 0 THEN "notify" ELSE "program"]
    /\ mutex' = IF recursive THEN None ELSE t
    /\ UNCHANGED <<recursive, cv, call, late, destroyed>>

\* Mutant: nobody is notified while __m_ is locked.
NotifyUnlocked(t) ==
    /\ pc[t] = "notify"
    /\ IF cv = {} \/ ~recursive THEN UNCHANGED cv
       ELSE \E u \in cv : cv' = cv \ {u}
    /\ mutex' = None
    /\ pc' = [pc EXCEPT ![t] = "program"]
    /\ UNCHANGED <<recursive, count, id, call, late, holds, destroyed>>

\* __cv_.notify_one(), and for a timed_mutex the unlock of __m_.
Notify(t) ==
    /\ pc[t] = "notify"
    /\ IF cv = {} THEN UNCHANGED cv ELSE \E u \in cv : cv' = cv \ {u}
    /\ mutex' = IF recursive THEN mutex ELSE None
    /\ pc' = [pc EXCEPT ![t] = "program"]
    /\ UNCHANGED <<recursive, count, id, call, late, holds, destroyed>>

\* The destructor, which locks __m_.
Destroy ==
    /\ ~destroyed
    /\ \A t \in Threads : holds[t] = 0 /\ pc[t] # "locking"
    /\ mutex = None
    /\ destroyed' = TRUE
    /\ UNCHANGED <<recursive, count, id, mutex, cv, pc, call, late, holds>>

-----------------------------------------------------------------------------
Next ==
    \/ Destroy
    \/ \E t \in Threads :
        \/ Begin(t) \/ Lock(t) \/ TryLock(t) \/ DeadlinePasses(t) \/ Wake(t)
        \/ Unlock(t) \/ Notify(t)

Spec == Init /\ [][Next]_vars

(* A call goes on when it can.  Nobody has to call or to unlock, no deadline *)
(* has to pass and no wait has to end without a notification.               *)
FairSpec == Spec /\ \A t \in Threads : WF_vars(Lock(t)) /\ WF_vars(Notify(t))

-----------------------------------------------------------------------------
(* Properties.                                                             *)

\* The flag or count says how often the owner owns the mutex, and __id_ who it is.
StateIsAccurate ==
    /\ \A t \in Threads : holds[t] > 0 =>
        /\ holds[t] = count
        /\ recursive => id = t
        /\ \A u \in Threads \ {t} : holds[u] = 0
    /\ count > 0 => \E t \in Threads : holds[t] > 0
    /\ id # None => recursive /\ holds[id] > 0
    /\ ~recursive => count <= 1

\* The notifications are made: unlock of a timed_mutex with __m_ locked.
MutexIsHeld ==
    /\ \A t \in Threads : pc[t] = "notify" => recursive \/ mutex = t
    /\ mutex # None => ~recursive /\ pc[mutex] = "notify"

\* While the mutex is free no waiter sleeps unless somebody runs that will take it
\* or notify: one notification at a time is enough, also when the waiter that gets
\* it is late or another thread is faster (unlock, try_lock_until).
NoLostWakeup ==
    count = 0 /\ cv # {} =>
        \E t \in Threads : pc[t] = "notify" \/ (pc[t] = "locking" /\ t \notin cv)

\* A timed_mutex is not used after its destruction, though the thread that destroys
\* it may have got it while unlock was still running: the destructor locks __m_.
NoUseAfterDestroy ==
    destroyed => \A t \in Threads : pc[t] # "locking" /\ (pc[t] = "notify" => recursive)

\* The inductive invariant.
Inv == TypeOK /\ StateIsAccurate /\ MutexIsHeld /\ NoLostWakeup /\ NoUseAfterDestroy
             /\ (destroyed => count = 0)

\* Both classes implement a mutex.
Owned == INSTANCE OwnedLock WITH Limit <- MaxCount

ImplementsLock == Owned!Spec

\* A mutex for which threads wait does not stay free.
FreeIsTaken ==
    (count = 0 /\ \E t \in Threads : pc[t] = "locking")
        ~> (count > 0 \/ \A t \in Threads : pc[t] # "locking")
=============================================================================
