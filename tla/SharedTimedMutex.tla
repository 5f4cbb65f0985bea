-------------------------- MODULE SharedTimedMutex --------------------------
(***************************************************************************)
(* std::shared_timed_mutex of libc++.                                      *)
(*                                                                         *)
(* __state_ packs a write-entered bit (entered) and a count of readers     *)
(* (readers).  Threads that find a writer entered, or the count at its     *)
(* maximum, wait at __gate1_; a thread that has set the bit waits at       *)
(* __gate2_ for the readers to leave.  Every access to __state_ and every  *)
(* notification is made with __mut_ held, so that the code between two     *)
(* waits is one step here: a waiting thread is in the set of its gate, a   *)
(* notified one has left the set and takes the step of its loop when it    *)
(* has got __mut_ back.                                                    *)
(*                                                                         *)
(* A deadline that passes is an event of its own (DeadlinePasses); wait_   *)
(* until reads the clock after it has __mut_ again, so that the status it  *)
(* returns depends on the deadline alone and not on what woke the thread.  *)
(***************************************************************************)
EXTENDS Naturals, FiniteSets

CONSTANTS Threads,      \* the threads that use the mutex
          MaxReaders,   \* __n_readers_, the largest count the state can hold
          Calls         \* the blocking member functions the threads call

TimedCalls     == {"try_lock_until", "try_lock_shared_until"}
ExclusiveCalls == {"lock", "try_lock_until"}
SharedCalls    == {"lock_shared", "try_lock_shared_until"}

ASSUME ConstantsAssumption ==
    /\ IsFiniteSet(Threads)
    /\ MaxReaders \in Nat \ {0}
    /\ Calls \subseteq ExclusiveCalls \cup SharedCalls

VARIABLES entered,      \* __state_ & __write_entered_
          readers,      \* __state_ & __n_readers_
          gate1,        \* the threads blocked in __gate1_.wait
          gate2,        \* the threads blocked in __gate2_.wait
          pc,           \* where each thread is
          call,         \* the member function it is in
          late          \* whether the deadline of its timed call has passed

vars == <<entered, readers, gate1, gate2, pc, call, late>>

Locations == {"idle", "gate1", "gate2", "write", "read"}

At(loc) == {t \in Threads : pc[t] = loc}

TypeOK ==
    /\ entered \in BOOLEAN
    /\ readers \in 0 .. MaxReaders
    /\ gate1 \subseteq At("gate1")
    /\ gate2 \subseteq At("gate2")
    /\ pc \in [Threads -> Locations]
    /\ call \in [Threads -> Calls \cup {"none"}]
    /\ late \in [Threads -> BOOLEAN]

Init ==
    /\ entered = FALSE
    /\ readers = 0
    /\ gate1 = {}
    /\ gate2 = {}
    /\ pc = [t \in Threads |-> "idle"]
    /\ call = [t \in Threads |-> "none"]
    /\ late = [t \in Threads |-> FALSE]

-----------------------------------------------------------------------------
(* The condition variable, and how a call ends.                            *)

\* The thread is in a loop at a gate and has, or is about to get, __mut_.
Runs(t, gate) == pc[t] = gate /\ t \notin gate1 \cup gate2

\* wait_until returns cv_status::timeout: after a wait, or at once, with __mut_
\* held throughout, when the deadline has passed before the wait begins.
TimedOut(t) == call[t] \in TimedCalls /\ late[t]

\* The call of t ends and leaves the thread at loc: the owner of the mutex, or
\* idle when a timed call gives up.
Return(t, loc) ==
    /\ pc' = [pc EXCEPT ![t] = loc]
    /\ call' = [call EXCEPT ![t] = "none"]
    /\ late' = [late EXCEPT ![t] = FALSE]

NotifyOne(waiting, waitingNext) ==
    IF waiting = {} THEN waitingNext = {}
    ELSE \E t \in waiting : waitingNext = waiting \ {t}

\* A member function is called; a timed one may get a deadline already past.
Begin(t) ==
    /\ pc[t] = "idle"
    /\ \E c \in Calls :
         /\ call' = [call EXCEPT ![t] = c]
         /\ \/ UNCHANGED late
            \/ c \in TimedCalls /\ late' = [late EXCEPT ![t] = TRUE]
    /\ pc' = [pc EXCEPT ![t] = "gate1"]
    /\ UNCHANGED <<entered, readers, gate1, gate2>>

DeadlinePasses(t) ==
    /\ call[t] \in TimedCalls
    /\ ~late[t]
    /\ late' = [late EXCEPT ![t] = TRUE]
    /\ UNCHANGED <<entered, readers, gate1, gate2, pc, call>>

\* pthread_cond_wait returns; it may do so for no reason.
Wake(t) ==
    /\ t \in gate1 \cup gate2
    /\ gate1' = gate1 \ {t}
    /\ gate2' = gate2 \ {t}
    /\ UNCHANGED <<entered, readers, pc, call, late>>

\* pthread_cond_timedwait returns because the deadline has passed.
TimeoutWake(t) == TimedOut(t) /\ Wake(t)

-----------------------------------------------------------------------------
(* Exclusive ownership: lock, try_lock_until, try_lock, unlock.            *)

\* A timed writer that gives up at __gate2_ clears the bit it has set.
AbandonEntry(t) ==
    /\ entered' = FALSE
    /\ Return(t, "idle")
    /\ UNCHANGED <<readers, gate1, gate2>>

\* The write-entered bit is set, and while there are readers the thread waits.
EnterWriter(t) ==
    /\ entered' = TRUE
    /\ IF readers = 0
       THEN /\ Return(t, "write")
            /\ UNCHANGED gate2
       ELSE /\ gate2' = gate2 \cup {t}
            /\ pc' = [pc EXCEPT ![t] = "gate2"]
            /\ UNCHANGED <<call, late>>
    /\ UNCHANGED <<readers, gate1>>

\* From the open __gate1_ on, and again when __gate2_.wait returns.
AwaitReaders(t) ==
    IF readers # 0 /\ TimedOut(t) THEN AbandonEntry(t) ELSE EnterWriter(t)

\* A thread that still finds __gate1_ closed: it gives up or waits again.
StayAtGate1(t) ==
    /\ IF TimedOut(t)
       THEN /\ Return(t, "idle")
            /\ UNCHANGED gate1
       ELSE /\ gate1' = gate1 \cup {t}
            /\ UNCHANGED <<pc, call, late>>
    /\ UNCHANGED <<entered, readers, gate2>>

\* Mutant: __gate1_ does not look at the write-entered bit.
WriterGate1Open(t) ==
    /\ Runs(t, "gate1")
    /\ call[t] \in ExclusiveCalls
    /\ AwaitReaders(t)

WriterGate1(t) ==
    /\ Runs(t, "gate1")
    /\ call[t] \in ExclusiveCalls
    /\ IF entered THEN StayAtGate1(t) ELSE AwaitReaders(t)

WriterGate2(t) ==
    /\ Runs(t, "gate2")
    /\ AwaitReaders(t)

\* try_lock; when it fails it changes nothing.
TryLock(t) ==
    /\ pc[t] = "idle"
    /\ ~entered
    /\ readers = 0
    /\ entered' = TRUE
    /\ pc' = [pc EXCEPT ![t] = "write"]
    /\ UNCHANGED <<readers, gate1, gate2, call, late>>

\* Mutant: one waiter of __gate1_ is notified where all should be.
UnlockNotifyOne(t) ==
    /\ pc[t] = "write"
    /\ entered' = FALSE
    /\ readers' = 0
    /\ NotifyOne(gate1, gate1')
    /\ pc' = [pc EXCEPT ![t] = "idle"]
    /\ UNCHANGED <<gate2, call, late>>

Unlock(t) ==
    /\ pc[t] = "write"
    /\ entered' = FALSE
    /\ readers' = 0
    /\ gate1' = {}
    /\ pc' = [pc EXCEPT ![t] = "idle"]
    /\ UNCHANGED <<gate2, call, late>>

-----------------------------------------------------------------------------
(* Shared ownership: lock_shared, try_lock_shared_until, try_lock_shared,  *)
(* unlock_shared.                                                          *)

\* Mutant: the count alone decides, a waiting writer is overtaken.
SharedClosedByCount == readers = MaxReaders

SharedClosed == entered \/ readers = MaxReaders

ReaderGate1(t) ==
    /\ Runs(t, "gate1")
    /\ call[t] \in SharedCalls
    /\ IF SharedClosed
       THEN StayAtGate1(t)
       ELSE /\ readers' = readers + 1
            /\ Return(t, "read")
            /\ UNCHANGED <<entered, gate1, gate2>>

\* try_lock_shared; when it fails it changes nothing.
TryLockShared(t) ==
    /\ pc[t] = "idle"
    /\ ~SharedClosed
    /\ readers' = readers + 1
    /\ pc' = [pc EXCEPT ![t] = "read"]
    /\ UNCHANGED <<entered, gate1, gate2, call, late>>

\* Mutant: the last reader out wakes __gate1_, where no writer waits.
UnlockSharedWrongGate(t) ==
    /\ pc[t] = "read"
    /\ readers' = readers - 1
    /\ NotifyOne(gate1, gate1')
    /\ pc' = [pc EXCEPT ![t] = "idle"]
    /\ UNCHANGED <<entered, gate2, call, late>>

UnlockShared(t) ==
    /\ pc[t] = "read"
    /\ readers' = readers - 1
    /\ IF entered
       THEN /\ IF readers' = 0 THEN NotifyOne(gate2, gate2') ELSE UNCHANGED gate2
            /\ UNCHANGED gate1
       ELSE /\ IF readers' = MaxReaders - 1
               THEN NotifyOne(gate1, gate1') ELSE UNCHANGED gate1
            /\ UNCHANGED gate2
    /\ pc' = [pc EXCEPT ![t] = "idle"]
    /\ UNCHANGED <<entered, call, late>>

-----------------------------------------------------------------------------
\* What the code does by itself once a call has begun or its owner is done.
Progress(t) ==
    \/ WriterGate1(t) \/ WriterGate2(t) \/ ReaderGate1(t)
    \/ Unlock(t) \/ UnlockShared(t) \/ TimeoutWake(t)

Next ==
    \E t \in Threads :
        \/ Begin(t) \/ TryLock(t) \/ TryLockShared(t)
        \/ DeadlinePasses(t) \/ Wake(t)
        \/ Progress(t)

Spec == Init /\ [][Next]_vars

(* A thread that runs gets __mut_ and takes its step; an owner gives the   *)
(* mutex back.  Nobody has to call, no deadline has to pass and no wait    *)
(* has to return without a notification.                                   *)
FairSpec == Spec /\ \A t \in Threads : WF_vars(Progress(t))

-----------------------------------------------------------------------------
(* Properties.                                                             *)

\* A thread that owns the mutex exclusively is its only owner, whatever mix of
\* timed, shared and try calls led there (lock, try_lock_until, lock_shared).
MutualExclusion ==
    \A t, u \in Threads :
        t # u /\ pc[t] = "write" => pc[u] \notin {"read", "write"}

\* The count in __state_ is the number of threads that hold the mutex shared,
\* and the write-entered bit is set exactly while one thread is past __gate1_:
\* unlock, which stores 0, and the masking in unlock_shared lose nothing.
StateIsAccurate ==
    /\ readers = Cardinality(At("read"))
    /\ entered <=> \E t \in Threads : pc[t] \in {"gate2", "write"}
    /\ \A t, u \in Threads :
          pc[t] \in {"gate2", "write"} /\ pc[u] \in {"gate2", "write"} => t = u

\* A writer sleeps at __gate2_ only while there are readers: the last of them to leave
\* wakes it, though others have left before and did not (unlock_shared).
WriterSleepsOnReaders == gate2 # {} => readers # 0

\* The inductive invariant: a thread that owns the mutex exclusively has seen
\* the count at 0 with the bit set, and nobody can come in while it is set.
Inv ==
    /\ TypeOK
    /\ StateIsAccurate
    /\ At("write") # {} => readers = 0
    /\ WriterSleepsOnReaders

\* While a writer is past __gate1_ no thread becomes a shared owner: readers
\* cannot starve a writer (lock_shared, try_lock_shared).
NoOvertaking ==
    [][entered /\ entered' => \A t \in Threads : pc'[t] = "read" => pc[t] = "read"]_vars

\* The calls implement the abstract lock.
Holds == [t \in Threads |-> CASE pc[t] = "write" -> "exclusive"
                              [] pc[t] = "read"  -> "shared"
                              [] OTHER           -> "none"]

RWLock == INSTANCE ReadersWriterLock WITH holds <- Holds

ImplementsLock == RWLock!Spec

\* As long as no timed writer takes part, a thread blocked in __gate1_.wait is
\* notified some day: lock_shared and lock do not sleep for ever on a mutex its
\* owners give back.
Gate1Notified == \A t \in Threads :
    [](\A u \in Threads : call[u] # "try_lock_until") => (t \in gate1 ~> t \notin gate1)

\* No thread is left asleep in __gate1_.wait on a mutex that nobody holds and
\* nobody is about to take: what lock and lock_shared, which block until the
\* owner unlocks, are tested for.
NoSleeperOnFreeMutex ==
    ~entered /\ readers = 0 /\ gate1 # {} =>
        \E t \in Threads : Runs(t, "gate1")

\* A writer that waits for the readers to leave gets the mutex, or gives up.
Gate2Drains == \A t \in Threads : pc[t] = "gate2" ~> pc[t] # "gate2"
=============================================================================
