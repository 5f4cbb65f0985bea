------------------------------ MODULE CallOnce ------------------------------
(***************************************************************************)
(* std::call_once of libc++: the test of the flag in the header, and       *)
(* __call_once in mutex.cpp.                                               *)
(*                                                                         *)
(* All flags share one mutex, mut, and one condition variable, cv.  The    *)
(* mutex is not held while the function runs, so that what runs between a  *)
(* lock or the return of a wait and the next wait or unlock is one step;   *)
(* the broadcast comes after the unlock and is a step of its own.          *)
(*                                                                         *)
(* A function may use other flags: a thread has a stack of the flags whose *)
(* functions it is running.  The Objects are the flags.                    *)
(***************************************************************************)
EXTENDS Initializers

VARIABLES state,        \* __state_ of each flag
          cv            \* the threads blocked in pthread_cond_wait

flagVars == <<state, cv, pc, want, stack, ready>>

Idle == 0
Running == 1
Done == 2               \* ~0ul

FlagTypeOK ==
    /\ state \in [Objects -> {Idle, Running, Done}]
    /\ cv \subseteq {t \in Threads : pc[t] = "__call_once"}
    /\ pc \in [Threads -> {"program", "__call_once", "broadcast"}]
    /\ want \in [Threads -> Objects]
    /\ stack \in [Threads -> Seq(Objects)]
    /\ ready \in [Threads -> SUBSET Objects]

FlagInit ==
    /\ state = [o \in Objects |-> Idle]
    /\ cv = {}
    /\ pc = [t \in Threads |-> "program"]
    /\ want \in [Threads -> Objects]
    /\ stack = [t \in Threads |-> <<>>]
    /\ ready = [t \in Threads |-> {}]

-----------------------------------------------------------------------------
\* A call that finds the flag set returns at once.
Skip(t, o) ==
    /\ state[o] = Done
    /\ ready' = [ready EXCEPT ![t] = @ \cup {o}]
    /\ UNCHANGED <<state, cv, pc, want, stack>>

\* The flag is read without the mutex: the read may miss the last write, unless
\* this thread has seen it before.
Enter(t, o) ==
    /\ o \notin ready[t]
    /\ pc' = [pc EXCEPT ![t] = "__call_once"]
    /\ want' = [want EXCEPT ![t] = o]
    /\ UNCHANGED <<state, cv, stack, ready>>

\* The code of t, or the function it runs, calls call_once.
Call(t, o) ==
    /\ pc[t] = "program"
    /\ stack[t] # <<>> => <<Head(stack[t]), o>> \in Uses
    /\ Skip(t, o) \/ Enter(t, o)

\* pthread_cond_wait returns without a broadcast.
FlagSpuriousWake(t) ==
    /\ t \in cv
    /\ cv' = cv \ {t}
    /\ UNCHANGED <<state, pc, want, stack, ready>>

\* Mutant: a flag that is being run is not waited for.
TestUnwaited(t) ==
    LET o == want[t] IN
    /\ pc[t] = "__call_once" /\ t \notin cv
    /\ pc' = [pc EXCEPT ![t] = "program"]
    /\ IF state[o] = Done
       THEN /\ ready' = [ready EXCEPT ![t] = @ \cup {o}]
            /\ UNCHANGED <<state, stack>>
       ELSE /\ state' = [state EXCEPT ![o] = Running]
            /\ stack' = [stack EXCEPT ![t] = <<o>> \o @]
            /\ UNCHANGED ready
    /\ UNCHANGED <<cv, want>>

Wait(t) ==
    /\ cv' = cv \cup {t}
    /\ UNCHANGED <<state, pc, want, stack, ready>>

Start(t, o) ==
    /\ state' = [state EXCEPT ![o] = Running]
    /\ stack' = [stack EXCEPT ![t] = <<o>> \o @]
    /\ pc' = [pc EXCEPT ![t] = "program"]
    /\ UNCHANGED <<cv, want, ready>>

ReturnDone(t, o) ==
    /\ ready' = [ready EXCEPT ![t] = @ \cup {o}]
    /\ pc' = [pc EXCEPT ![t] = "program"]
    /\ UNCHANGED <<state, cv, want, stack>>

\* __call_once from the lock of mut, or the return of a wait, to the next wait
\* or the unlock.
Test(t) ==
    LET o == want[t] IN
    /\ pc[t] = "__call_once" /\ t \notin cv
    /\ CASE state[o] = Running -> Wait(t)
         [] state[o] = Idle -> Start(t, o)
         [] state[o] = Done -> ReturnDone(t, o)

\* Mutant: the flag of a function that has thrown stays 1.
EndUnreset(t, o, ok) ==
    /\ pc[t] = "program"
    /\ stack[t] # <<>> /\ o = Head(stack[t])
    /\ state' = [state EXCEPT ![o] = IF ok THEN Done ELSE @]
    /\ stack' = [stack EXCEPT ![t] = Tail(@)]
    /\ ready' = [ready EXCEPT ![t] = IF ok THEN @ \cup {o} ELSE @]
    /\ pc' = [pc EXCEPT ![t] = "broadcast"]
    /\ UNCHANGED <<cv, want>>

\* The function of o returns, or throws, and the flag is set.
End(t, o, ok) ==
    /\ pc[t] = "program"
    /\ stack[t] # <<>> /\ o = Head(stack[t])
    /\ state' = [state EXCEPT ![o] = IF ok THEN Done ELSE Idle]
    /\ stack' = [stack EXCEPT ![t] = Tail(@)]
    /\ ready' = [ready EXCEPT ![t] = IF ok THEN @ \cup {o} ELSE @]
    /\ pc' = [pc EXCEPT ![t] = "broadcast"]
    /\ UNCHANGED <<cv, want>>

Return(t) == \E o \in Objects : End(t, o, TRUE)

Throw(t) == \E o \in Throws : End(t, o, FALSE)

\* Mutant: one of the waiters is notified, whichever flag it waits for.
FlagSignal(t) ==
    /\ pc[t] = "broadcast"
    /\ IF cv = {} THEN UNCHANGED cv ELSE \E u \in cv : cv' = cv \ {u}
    /\ pc' = [pc EXCEPT ![t] = "program"]
    /\ UNCHANGED <<state, want, stack, ready>>

FlagBroadcast(t) ==
    /\ pc[t] = "broadcast"
    /\ cv' = {}
    /\ pc' = [pc EXCEPT ![t] = "program"]
    /\ UNCHANGED <<state, want, stack, ready>>

FlagNext == \E t \in Threads :
    \/ \E o \in Objects : Call(t, o)
    \/ FlagSpuriousWake(t) \/ Test(t) \/ Return(t) \/ Throw(t) \/ FlagBroadcast(t)

FlagSpec == FlagInit /\ [][FlagNext]_flagVars

(* A call of the library goes on when it can; a function that is run again   *)
(* and again returns some day.  Nobody has to call call_once.                *)
FlagFairSpec == FlagSpec /\ \A t \in Threads :
                WF_flagVars(Test(t) \/ FlagBroadcast(t)) /\ SF_flagVars(Return(t))

-----------------------------------------------------------------------------
(* Properties.                                                             *)

RunsFunction(t, o) == \E i \in 1 .. Len(stack[t]) : stack[t][i] = o

\* A thread sleeps only while the function of its flag runs, or somebody is about to
\* broadcast: whatever other flags are set, run again or thrown out of.
FlagWaitersAreKnown == \A t \in cv :
    state[want[t]] = Running \/ \E u \in Threads : pc[u] = "broadcast"

\* The inductive invariant: a flag is 1 while some thread runs its function, and
\* one activation of the function is all there is, in whichever way calls nest,
\* recur and throw.
FlagInv ==
    /\ FlagTypeOK
    /\ \A o \in Objects : state[o] = Running <=> \E t \in Threads : RunsFunction(t, o)
    /\ \A t, u \in Threads : \A i \in 1 .. Len(stack[t]), j \in 1 .. Len(stack[u]) :
            stack[t][i] = stack[u][j] => t = u /\ i = j
    /\ FlagWaitersAreKnown

\* call_once implements one-time initialization, though the flag is read without
\* the mutex in the header.
FlagOnce == INSTANCE OnceInit WITH
    runs <- [o \in Objects |-> IF state[o] = Done THEN "done"
                             ELSE IF state[o] = Idle THEN "nobody"
                             ELSE CHOOSE t \in Threads : RunsFunction(t, o)]

FlagImplementsOnce == FlagOnce!Spec

\* Every call returns, if functions do not use their flags in a circle: two
\* threads that use two flags in opposite orders do not block each other, and a
\* waiter runs the function that has thrown in another thread.
EveryFlagCallReturns == \A t \in Threads : pc[t] = "__call_once" ~> pc[t] # "__call_once"
=============================================================================
