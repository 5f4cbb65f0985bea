------------------------------ MODULE CxaGuard ------------------------------
(***************************************************************************)
(* __cxa_guard_acquire, __cxa_guard_release and __cxa_guard_abort of       *)
(* libc++abi: the guards of the local static variables.                    *)
(*                                                                         *)
(* A guard has an initialized byte and a lock, the identity of the locking *)
(* thread on Apple systems and a bool on others.  All guards share one     *)
(* mutex, guard_mut, and one condition variable, guard_cv, so that a       *)
(* release wakes the waiters of every guard.  What runs between a lock and *)
(* an unlock of guard_mut, or a wait, is one step.  The broadcast comes    *)
(* after the unlock and is a step of its own.                              *)
(*                                                                         *)
(* The initializer of a variable may use other local statics: a thread has *)
(* a stack of the guards it has acquired.                                  *)
(***************************************************************************)
EXTENDS Initializers

VARIABLES apple,        \* whether the lock is the identity of the thread
          initialized,  \* the first byte of each guard
          lock,         \* the lock in each guard: free, or who has set it
          guard_cv,     \* the threads blocked in pthread_cond_wait
          aborted       \* abort_message has ended the program

vars == <<apple, initialized, lock, guard_cv, pc, want, stack, ready, aborted>>

Free == "free"

TypeOK ==
    /\ apple \in BOOLEAN
    /\ initialized \in [Objects -> BOOLEAN]
    /\ lock \in [Objects -> Threads \cup {Free}]
    /\ guard_cv \subseteq {t \in Threads : pc[t] = "acquire"}
    /\ pc \in [Threads -> {"program", "acquire", "broadcast"}]
    /\ want \in [Threads -> Objects]
    /\ stack \in [Threads -> Seq(Objects)]
    /\ ready \in [Threads -> SUBSET Objects]
    /\ aborted \in BOOLEAN

Init ==
    /\ apple \in BOOLEAN
    /\ initialized = [o \in Objects |-> FALSE]
    /\ lock = [o \in Objects |-> Free]
    /\ guard_cv = {}
    /\ pc = [t \in Threads |-> "program"]
    /\ want \in [Threads -> Objects]
    /\ stack = [t \in Threads |-> <<>>]
    /\ ready = [t \in Threads |-> {}]
    /\ aborted = FALSE

-----------------------------------------------------------------------------
\* The code of t, or of the initializer it runs, reaches a local static o.
Reach(t, o) ==
    /\ ~aborted
    /\ pc[t] = "program"
    /\ stack[t] # <<>> => <<Head(stack[t]), o>> \in Uses
    /\ pc' = [pc EXCEPT ![t] = "acquire"]
    /\ want' = [want EXCEPT ![t] = o]
    /\ UNCHANGED <<apple, initialized, lock, guard_cv, stack, ready, aborted>>

\* pthread_cond_wait returns without a broadcast.
SpuriousWake(t) ==
    /\ ~aborted
    /\ t \in guard_cv
    /\ guard_cv' = guard_cv \ {t}
    /\ UNCHANGED <<apple, initialized, lock, pc, want, stack, ready, aborted>>

Runs(t) == ~aborted /\ pc[t] = "acquire" /\ t \notin guard_cv

\* The call returns 0: the variable is ready.
ReturnReady(t, o) ==
    /\ ready' = [ready EXCEPT ![t] = @ \cup {o}]
    /\ pc' = [pc EXCEPT ![t] = "program"]
    /\ UNCHANGED <<apple, initialized, lock, guard_cv, want, stack, aborted>>

\* The call sets the lock and returns 1: the caller runs the initializer.
ReturnLocked(t, o) ==
    /\ lock' = [lock EXCEPT ![o] = t]
    /\ stack' = [stack EXCEPT ![t] = <<o>> \o @]
    /\ pc' = [pc EXCEPT ![t] = "program"]
    /\ UNCHANGED <<apple, initialized, guard_cv, want, ready, aborted>>

\* A thread that has locked the guard itself is found out only where the lock
\* tells who has set it.
WaitOrAbort(t, o) ==
    IF apple /\ lock[o] = t
    THEN /\ aborted' = TRUE
         /\ UNCHANGED <<apple, initialized, lock, guard_cv, pc, want, stack, ready>>
    ELSE /\ guard_cv' = guard_cv \cup {t}
         /\ UNCHANGED <<apple, initialized, lock, pc, want, stack, ready, aborted>>

\* Mutant: the initialized byte is not looked at again after a wait.
AcquireUnlocked(t) ==
    LET o == want[t] IN
    /\ Runs(t)
    /\ IF lock[o] # Free THEN WaitOrAbort(t, o) ELSE ReturnLocked(t, o)

\* The body of __cxa_guard_acquire, from the lock of guard_mut or the return of
\* a wait to the next wait or the unlock.
Acquire(t) ==
    LET o == want[t] IN
    /\ Runs(t)
    /\ IF initialized[o] THEN ReturnReady(t, o)
       ELSE IF lock[o] # Free THEN WaitOrAbort(t, o)
       ELSE ReturnLocked(t, o)

\* The initializer that t runs ends; the guard is written as a whole.
Finish(t, o, done) ==
    /\ ~aborted
    /\ pc[t] = "program"
    /\ stack[t] # <<>>
    /\ o = Head(stack[t])
    /\ initialized' = [initialized EXCEPT ![o] = done]
    /\ lock' = [lock EXCEPT ![o] = Free]
    /\ stack' = [stack EXCEPT ![t] = Tail(@)]
    /\ ready' = [ready EXCEPT ![t] = IF done THEN @ \cup {o} ELSE @]
    /\ pc' = [pc EXCEPT ![t] = "broadcast"]
    /\ UNCHANGED <<apple, guard_cv, want, aborted>>

Release(t) == \E o \in Objects : Finish(t, o, TRUE)

Abort(t) == \E o \in Throws : Finish(t, o, FALSE)

\* Mutant: one of the waiters is notified, whichever guard it waits for.
Signal(t) ==
    /\ ~aborted
    /\ pc[t] = "broadcast"
    /\ IF guard_cv = {} THEN UNCHANGED guard_cv
       ELSE \E u \in guard_cv : guard_cv' = guard_cv \ {u}
    /\ pc' = [pc EXCEPT ![t] = "program"]
    /\ UNCHANGED <<apple, initialized, lock, want, stack, ready, aborted>>

Broadcast(t) ==
    /\ ~aborted
    /\ pc[t] = "broadcast"
    /\ guard_cv' = {}
    /\ pc' = [pc EXCEPT ![t] = "program"]
    /\ UNCHANGED <<apple, initialized, lock, want, stack, ready, aborted>>

Next == \E t \in Threads :
    \/ \E o \in Objects : Reach(t, o)
    \/ SpuriousWake(t) \/ Acquire(t) \/ Release(t) \/ Abort(t) \/ Broadcast(t)

Spec == Init /\ [][Next]_vars

(* A call of the library goes on when it can; an initializer that is run *)
(* again and again completes some day.  Nobody has to reach a variable.     *)
FairSpec == Spec /\ \A t \in Threads :
                WF_vars(Acquire(t) \/ Broadcast(t)) /\ SF_vars(Release(t))

-----------------------------------------------------------------------------
(* Properties.                                                             *)

\* A thread sleeps only while the guard it waits for is locked, or somebody is about
\* to broadcast: whatever other guards are released, locked again or given up.
WaitersAreKnown == \A t \in guard_cv :
    lock[want[t]] # Free \/ \E u \in Threads : pc[u] = "broadcast"

\* The inductive invariant: the lock in a guard says which thread runs the
\* initializer, and an initialized guard is not locked.  Release and abort, which
\* write the whole word, and the waits on one condition variable keep them so,
\* however initializers nest and fail.
Inv ==
    /\ TypeOK
    /\ \A o \in Objects : initialized[o] => lock[o] = Free
    /\ \A o \in Objects : lock[o] # Free =>
            \E i \in 1 .. Len(stack[lock[o]]) : stack[lock[o]][i] = o
    /\ \A t \in Threads : \A i \in 1 .. Len(stack[t]) : lock[stack[t][i]] = t
    /\ \A t \in Threads : \A i, j \in 1 .. Len(stack[t]) :
            stack[t][i] = stack[t][j] => i = j
    /\ WaitersAreKnown

\* The guards implement one-time initialization.
Once == INSTANCE OnceInit WITH
    runs <- [o \in Objects |-> IF initialized[o] THEN "done"
                               ELSE IF lock[o] = Free THEN "nobody" ELSE lock[o]]

ImplementsOnce == Once!Spec

\* Where the lock tells who has set it no thread waits for itself: recursive
\* initialization ends the program instead of hanging it.
NoSelfWait == apple => \A t \in guard_cv : lock[want[t]] # t

\* The threads of S wait for initializers that threads of S run: for each other in a
\* circle, or for those who do.  Only a thread that waits for itself is found out,
\* where the lock tells who has set it.
WaitInCircle(S) == \A t \in S :
    /\ pc[t] = "acquire"
    /\ lock[want[t]] \in S
    /\ apple => lock[want[t]] # t

\* Every call returns, or ends the program, unless it waits for a circle of
\* initializers: a waiter of one guard is not lost to a broadcast meant for another,
\* waits for no initializer that has thrown, and is not held up by the circles of
\* other threads.
EveryCallReturns == \A t \in Threads :
    pc[t] = "acquire" ~> \/ pc[t] # "acquire"
                         \/ aborted
                         \/ \E S \in SUBSET Threads : t \in S /\ WaitInCircle(S)
=============================================================================
