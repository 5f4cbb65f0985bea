---------------------------- MODULE TicketLock ----------------------------
(***************************************************************************)
(* The ticket locks of the OpenMP runtime, simple and nestable.  A thread  *)
(* takes a ticket and spins until it is served; the owner, which only the  *)
(* checks and the nesting look at, is noted after that and cleared before  *)
(* the next ticket is served.                                              *)
(***************************************************************************)
EXTENDS Integers, Sequences, FiniteSets

CONSTANTS Threads,
          MaxDepth,     \* bound of the nesting in the model
          MaxTicket,    \* bound of next_ticket in the model
          None          \* 0 for an owner

VARIABLES next_ticket, now_serving,
          owner_id, depth,      \* owner_id and depth_locked
          pc, ticket            \* where each thread is, and its my_ticket, which the
                                \* model keeps while the thread has the lock

vars == <<next_ticket, now_serving, owner_id, depth, pc, ticket>>

TypeOK ==
    /\ {next_ticket, now_serving} \subseteq 0 .. MaxTicket
    /\ owner_id \in Threads \cup {None}
    /\ depth \in 0 .. MaxDepth
    /\ pc \in [Threads -> {"program", "wait", "own", "release", "test_serving", "test_cas"}]
    /\ ticket \in [Threads -> 0 .. MaxTicket \cup {None}]

\* The lock as __kmp_init_ticket_lock makes it.
Fresh(nt, ns, own, d) == nt = 0 /\ ns = 0 /\ own = None /\ d = 0

Init ==
    /\ Fresh(next_ticket, now_serving, owner_id, depth)
    /\ pc = [t \in Threads |-> "program"]
    /\ ticket = [t \in Threads |-> None]

Go(t, from, to) == pc[t] = from /\ pc' = [pc EXCEPT ![t] = to]

\* The thread leaves a call without the lock, and does not use its ticket again.
Return(t, from) ==
    /\ Go(t, from, "program")
    /\ ticket' = [ticket EXCEPT ![t] = None]

-----------------------------------------------------------------------------
\* The owner of a nestable lock sets it, or tests it.
Nest(t) ==
    /\ pc[t] = "program" /\ owner_id = t
    /\ depth < MaxDepth /\ depth' = depth + 1
    /\ UNCHANGED <<next_ticket, now_serving, owner_id, pc, ticket>>

\* omp_set_lock or omp_set_nest_lock by a thread that does not own the lock.
TakeTicket(t) ==
    /\ owner_id # t
    /\ Go(t, "program", "wait")
    /\ next_ticket < MaxTicket /\ next_ticket' = next_ticket + 1
    /\ ticket' = [ticket EXCEPT ![t] = next_ticket]
    /\ UNCHANGED <<now_serving, owner_id, depth>>

Wait(t) ==
    /\ now_serving = ticket[t]
    /\ Go(t, "wait", "own")
    /\ UNCHANGED <<next_ticket, now_serving, owner_id, depth, ticket>>

Own(t) ==
    /\ Go(t, "own", "program")
    /\ depth' = 1
    /\ owner_id' = t
    /\ UNCHANGED <<next_ticket, now_serving, ticket>>

\* omp_test_lock or omp_test_nest_lock: the ticket that the thread would get.
Test(t) ==
    /\ owner_id # t
    /\ Go(t, "program", "test_serving")
    /\ next_ticket < MaxTicket
    /\ ticket' = [ticket EXCEPT ![t] = next_ticket]
    /\ UNCHANGED <<next_ticket, now_serving, owner_id, depth>>

TestServing(t) ==
    \/ /\ now_serving = ticket[t]
       /\ Go(t, "test_serving", "test_cas")
       /\ UNCHANGED <<next_ticket, now_serving, owner_id, depth, ticket>>
    \/ /\ now_serving # ticket[t]
       /\ Return(t, "test_serving")
       /\ UNCHANGED <<next_ticket, now_serving, owner_id, depth>>

\* The thread takes the ticket, if it is still the next one.
TestTake(t) ==
    \/ /\ Go(t, "test_cas", "own")
       /\ next_ticket = ticket[t] /\ next_ticket' = next_ticket + 1
       /\ UNCHANGED <<now_serving, owner_id, depth, ticket>>
    \/ /\ next_ticket # ticket[t]
       /\ Return(t, "test_cas")
       /\ UNCHANGED <<next_ticket, now_serving, owner_id, depth>>

\* omp_unset_lock or omp_unset_nest_lock; the last one gives the lock back.
Unset(t) ==
    /\ pc[t] = "program" /\ owner_id = t
    /\ depth' = depth - 1
    /\ IF depth > 1 THEN UNCHANGED <<owner_id, pc>>
       ELSE Go(t, "program", "release") /\ owner_id' = None
    /\ UNCHANGED <<next_ticket, now_serving, ticket>>

\* The next ticket is served.
Release(t) ==
    /\ Return(t, "release")
    /\ now_serving' = now_serving + 1
    /\ UNCHANGED <<next_ticket, owner_id, depth>>

\* The lock is destroyed and made again, when nobody uses it.
Recreate ==
    /\ owner_id = None
    /\ \A t \in Threads : pc[t] = "program"
    /\ next_ticket > 0
    /\ Fresh(next_ticket', now_serving', owner_id', depth')
    /\ UNCHANGED <<pc, ticket>>

-----------------------------------------------------------------------------
Step(t) == Wait(t) \/ Own(t) \/ TestServing(t) \/ TestTake(t) \/ Release(t)

Next ==
    \/ \E t \in Threads : Nest(t) \/ TakeTicket(t) \/ Test(t) \/ Step(t) \/ Unset(t)
    \/ Recreate

Spec == Init /\ [][Next]_vars

-----------------------------------------------------------------------------
(* Properties.                                                             *)

Inside(t) == owner_id = t \/ pc[t] \in {"own", "release"}
Active == {t \in Threads : Inside(t) \/ pc[t] = "wait"}

\* The tickets that are out are those from the one that is served to the last one, each
\* with one thread, and the thread inside has the one that is served.  A test that has
\* seen its ticket served once will not take it too early.
Inv ==
    /\ TypeOK
    /\ Cardinality(Active) = next_ticket - now_serving
    /\ {ticket[t] : t \in Active} = now_serving .. next_ticket - 1
    /\ \A t \in Threads : Inside(t) => ticket[t] = now_serving
    /\ owner_id # None => pc[owner_id] = "program" /\ depth > 0
    /\ \A t \in Threads :
         /\ pc[t] \in {"test_serving", "test_cas"} => ticket[t] \in 0 .. MaxTicket - 1
         /\ pc[t] = "test_cas" => ticket[t] <= now_serving

\* Tickets are served in order.
Fifo == INSTANCE FifoLock WITH
    Locks <- {1},
    line <- <<[i \in 1 .. next_ticket - now_serving |->
                  CHOOSE t \in Active : ticket[t] = now_serving + i - 1]>>,
    inside <- <<\E t \in Threads : Inside(t)>>

ImplementsFifo == Fifo!Spec

\* A ticket is out and nobody has the lock.
Idle == owner_id = None /\ Active # {}
=============================================================================
