----------------------------- MODULE FutexLock -----------------------------
(***************************************************************************)
(* The futex locks of the OpenMP runtime, simple and nestable.             *)
(*                                                                         *)
(* One word, poll, holds the owner and a bit that tells it to wake a       *)
(* thread when it releases the lock.  A release wakes one thread and       *)
(* forgets the bit: the thread that it wakes sets the bit again when it    *)
(* gets the lock, because it cannot know who else sleeps.                  *)
(***************************************************************************)
EXTENDS Naturals

CONSTANTS Threads,
          MaxDepth,     \* bound of the nesting in the model
          None

VARIABLES poll,         \* the owner and the bit
          depth,        \* depth_locked of a nestable lock
          asleep,       \* the threads in the queue of the kernel
          pc,           \* where each thread is
          bit,          \* the bit in gtid_code of each thread
          poll_val      \* poll_val of each thread

vars == <<poll, depth, asleep, pc, bit, poll_val>>

Free == [owner |-> None, bit |-> FALSE]
Polls == [owner : Threads, bit : BOOLEAN] \cup {Free}

TypeOK ==
    /\ poll \in Polls
    /\ depth \in 0 .. MaxDepth
    /\ asleep \subseteq {t \in Threads : pc[t] = "asleep"}
    /\ pc \in [Threads -> {"program", "try", "mark", "wait", "asleep", "wake"}]
    /\ bit \in [Threads -> BOOLEAN]
    /\ poll_val \in [Threads -> Polls]

Init ==
    /\ poll = Free
    /\ depth = 0
    /\ asleep = {}
    /\ pc = [t \in Threads |-> "program"]
    /\ bit = [t \in Threads |-> FALSE]
    /\ poll_val = [t \in Threads |-> Free]

Go(t, from, to) == pc[t] = from /\ pc' = [pc EXCEPT ![t] = to]

\* What the thread has read is not used again.
Forget(t) == poll_val' = [poll_val EXCEPT ![t] = Free]

-----------------------------------------------------------------------------
\* A thread that has the lock locks it once more, or finds it its own.
Nest(t) ==
    /\ pc[t] = "program" /\ poll.owner = t
    /\ depth < MaxDepth /\ depth' = depth + 1
    /\ UNCHANGED <<poll, asleep, pc, bit, poll_val>>

\* A thread that has not got the lock calls omp_set_lock or omp_set_nest_lock.
Set(t) ==
    /\ poll.owner # t
    /\ Go(t, "program", "try")
    /\ UNCHANGED <<poll, depth, asleep, bit, poll_val>>

\* The word is set if it is 0, with the bit b.
Take(t, b) ==
    /\ poll = Free
    /\ poll' = [owner |-> t, bit |-> b]
    /\ depth' = 1

\* omp_test_lock or omp_test_nest_lock gets the lock; otherwise it changes nothing.
Test(t) ==
    /\ pc[t] = "program"
    /\ Take(t, FALSE)
    /\ UNCHANGED <<asleep, pc, bit, poll_val>>

\* The compare-and-store of the loop.
Try(t) ==
    \/ /\ Take(t, bit[t])
       /\ Go(t, "try", "program")
       /\ bit' = [bit EXCEPT ![t] = FALSE]
       /\ UNCHANGED <<asleep, poll_val>>
    \/ /\ poll # Free
       /\ Go(t, "try", IF poll.bit THEN "wait" ELSE "mark")
       /\ poll_val' = [poll_val EXCEPT ![t] = poll]
       /\ UNCHANGED <<poll, depth, asleep, bit>>

\* Mutant: the bit is set without a look at what the word is now.
MarkBlindly(t) ==
    /\ Go(t, "mark", "wait")
    /\ poll' = [poll_val[t] EXCEPT !.bit = TRUE]
    /\ poll_val' = [poll_val EXCEPT ![t] = poll']
    /\ UNCHANGED <<depth, asleep, bit>>

\* The bit is set, if the word is still what it was.
Mark(t) ==
    \/ /\ poll = poll_val[t]
       /\ poll' = [poll EXCEPT !.bit = TRUE]
       /\ poll_val' = [poll_val EXCEPT ![t] = poll']
       /\ Go(t, "mark", "wait")
       /\ UNCHANGED <<depth, asleep, bit>>
    \/ /\ poll # poll_val[t]
       /\ Go(t, "mark", "try")
       /\ Forget(t)
       /\ UNCHANGED <<poll, depth, asleep, bit>>

\* FUTEX_WAIT: the kernel lets the thread sleep if the word is still what it was.
Wait(t) ==
    \/ /\ poll = poll_val[t]
       /\ Go(t, "wait", "asleep")
       /\ asleep' = asleep \cup {t}
       /\ Forget(t)
       /\ UNCHANGED <<poll, depth, bit>>
    \/ /\ poll # poll_val[t]
       /\ Go(t, "wait", "try")
       /\ Forget(t)
       /\ UNCHANGED <<poll, depth, asleep, bit>>

\* Mutant: a thread that has been woken does not ask to wake the next one.
ResumeUnmarked(t) ==
    /\ t \notin asleep
    /\ Go(t, "asleep", "try")
    /\ UNCHANGED <<poll, depth, asleep, bit, poll_val>>

\* FUTEX_WAIT returns 0.
Resume(t) ==
    /\ t \notin asleep
    /\ Go(t, "asleep", "try")
    /\ bit' = [bit EXCEPT ![t] = TRUE]
    /\ UNCHANGED <<poll, depth, asleep, poll_val>>

\* FUTEX_WAIT is interrupted by a signal.
Interrupt(t) ==
    /\ t \in asleep
    /\ Go(t, "asleep", "try")
    /\ asleep' = asleep \ {t}
    /\ UNCHANGED <<poll, depth, bit, poll_val>>

\* omp_unset_lock or omp_unset_nest_lock; the last one exchanges the word for 0.
Unset(t) ==
    /\ pc[t] = "program" /\ poll.owner = t
    /\ depth' = depth - 1
    /\ IF depth > 1 THEN UNCHANGED <<poll, pc>>
       ELSE /\ poll' = Free
            /\ pc' = [pc EXCEPT ![t] = IF poll.bit THEN "wake" ELSE "program"]
    /\ UNCHANGED <<asleep, bit, poll_val>>

\* FUTEX_WAKE of one thread.
Wake(t) ==
    /\ Go(t, "wake", "program")
    /\ IF asleep = {} THEN UNCHANGED asleep
       ELSE \E u \in asleep : asleep' = asleep \ {u}
    /\ UNCHANGED <<poll, depth, bit, poll_val>>

-----------------------------------------------------------------------------
Step(t) == Try(t) \/ Mark(t) \/ Wait(t) \/ Resume(t) \/ Wake(t)

Next == \E t \in Threads :
    Nest(t) \/ Set(t) \/ Test(t) \/ Step(t) \/ Interrupt(t) \/ Unset(t)

Spec == Init /\ [][Next]_vars

-----------------------------------------------------------------------------
(* Properties.                                                             *)

\* Somebody is about to see to it that a sleeping thread is woken: the owner, who
\* finds the bit, a releasing thread, or one that has been woken and not slept since.
SleepersAreKnown == asleep # {} =>
    \/ poll.bit
    \/ \E t \in Threads : \/ pc[t] = "wake"
                          \/ pc[t] = "asleep" /\ t \notin asleep
                          \/ pc[t] \in {"try", "mark", "wait"} /\ bit[t]

\* Who has the lock, and how often, what a thread knows of the word before it marks
\* it or sleeps, and that no thread sleeps that nobody will wake.
Inv ==
    /\ TypeOK
    /\ poll = Free <=> depth = 0
    /\ poll # Free => pc[poll.owner] = "program"
    /\ \A t \in Threads : /\ pc[t] = "mark" => poll_val[t] # Free
                          /\ pc[t] = "wait" => poll_val[t].bit
    /\ SleepersAreKnown

\* A mutex that its owner may lock again.
Owned == INSTANCE OwnedLock WITH
    Limit <- MaxDepth, holds <- [t \in Threads |-> IF poll.owner = t THEN depth ELSE 0]

ImplementsOwned == Owned!Spec

\* The lock is free and a thread sleeps.
Idle == poll = Free /\ asleep # {}
=============================================================================
