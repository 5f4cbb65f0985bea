------------------------------ MODULE TasLock ------------------------------
(***************************************************************************)
(* The test-and-set locks of the OpenMP runtime, simple and nestable: one  *)
(* word with the owner, for which the threads that want it contend.        *)
(***************************************************************************)
EXTENDS Naturals

CONSTANTS Threads,
          MaxDepth,     \* bound of the nesting in the model
          None          \* 0 in the word

VARIABLES poll,         \* the owner
          depth,        \* depth_locked of a nestable lock
          spinning      \* the threads in the loop of an acquire

vars == <<poll, depth, spinning>>

TypeOK ==
    /\ poll \in Threads \cup {None}
    /\ depth \in 0 .. MaxDepth
    /\ spinning \subseteq Threads

Init == poll = None /\ depth = 0 /\ spinning = {}

\* The owner of a nestable lock sets it, or tests it.
Nest(t) ==
    /\ poll = t /\ t \notin spinning
    /\ depth < MaxDepth /\ depth' = depth + 1
    /\ UNCHANGED <<poll, spinning>>

\* omp_set_lock or omp_set_nest_lock by a thread that does not own the lock.
Set(t) ==
    /\ t \notin spinning /\ poll # t
    /\ spinning' = spinning \cup {t}
    /\ UNCHANGED <<poll, depth>>

Take(t) ==
    /\ poll = None
    /\ poll' = t
    /\ depth' = 1

\* omp_test_lock or omp_test_nest_lock gets the lock; otherwise it changes nothing.
Test(t) == t \notin spinning /\ Take(t) /\ UNCHANGED spinning

\* The compare-and-store of the loop succeeds; one that fails changes nothing.
Try(t) == t \in spinning /\ Take(t) /\ spinning' = spinning \ {t}

\* omp_unset_lock or omp_unset_nest_lock; the last one frees the word.
Unset(t) ==
    /\ poll = t
    /\ depth' = depth - 1
    /\ poll' = IF depth = 1 THEN None ELSE t
    /\ UNCHANGED spinning

Step(t) == Try(t)

Next == \E t \in Threads : Nest(t) \/ Set(t) \/ Test(t) \/ Step(t) \/ Unset(t)

Spec == Init /\ [][Next]_vars

-----------------------------------------------------------------------------
(* Properties.                                                             *)

\* The word names the thread that has the lock; that thread does not contend for it.
Inv ==
    /\ TypeOK
    /\ poll = None <=> depth = 0
    /\ poll \notin spinning

\* A mutex that its owner may lock again.
Owned == INSTANCE OwnedLock WITH
    Limit <- MaxDepth, holds <- [t \in Threads |-> IF poll = t THEN depth ELSE 0]

ImplementsOwned == Owned!Spec

\* The lock is free and a thread contends for it.
Idle == poll = None /\ spinning # {}
=============================================================================
