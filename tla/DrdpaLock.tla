----------------------------- MODULE DrdpaLock -----------------------------
(***************************************************************************)
(* The DRDPA ticket locks of the OpenMP runtime: ticket locks with a       *)
(* dynamically reconfigurable distributed polling area.                    *)
(*                                                                         *)
(* Each thread spins on the element of the polling area that its ticket    *)
(* hits.  The thread that gets the lock may replace the area by a larger   *)
(* or smaller one.  The old area is garbage until the threads that may     *)
(* still look at it have had their turn: those whose ticket is before      *)
(* cleanup_ticket.                                                         *)
(***************************************************************************)
EXTENDS Integers, Sequences, FiniteSets

CONSTANTS Threads,
          MaxTicket,        \* bound of next_ticket in the model
          Oversubscription, \* whether there may be more threads than processors
          None

VARIABLES next_ticket, now_serving, cleanup_ticket,
          polls, mask, num_polls,   \* the polling area, its mask and its size
          old_polls,                \* the garbage area, if any
          owner_id,
          areas,                    \* the areas allocated; one that is freed is empty
          pc, ticket,               \* where each thread is, and its ticket
          my_polls, my_mask,        \* its locals polls and mask
          stray                     \* the first access outside a live area

vars == <<next_ticket, now_serving, cleanup_ticket, polls, mask, num_polls, old_polls,
          owner_id, areas, pc, ticket, my_polls, my_mask, stray>>
tickets == <<next_ticket, now_serving, cleanup_ticket>>
area == <<polls, mask, num_polls, old_polls, areas>>
mine == <<ticket, my_polls, my_mask>>

Waiting == {"mask", "polls", "poll"}
Holding == {"serve", "reconfigure", "publish", "cleanup", "own"}
Testing == {"test_polls", "test_mask", "test_poll", "test_cas"}

TypeOK ==
    /\ {next_ticket, cleanup_ticket} \subseteq 0 .. MaxTicket
    /\ now_serving \in 0 .. MaxTicket - 1
    /\ polls \in DOMAIN areas /\ old_polls \in DOMAIN areas \cup {None}
    /\ mask \in Nat /\ num_polls \in Nat \ {0}
    /\ owner_id \in Threads \cup {None}
    /\ pc \in [Threads -> {"program"} \cup Waiting \cup Holding \cup Testing]
    /\ ticket \in [Threads -> 0 .. MaxTicket \cup {None}]
    /\ my_polls \in [Threads -> DOMAIN areas \cup {None}]
    /\ my_mask \in [Threads -> Nat \cup {None}]

\* The lock as __kmp_init_drdpa_lock makes it.
Fresh(nt, ns, ct, p, m, n, old, own, mem) ==
    /\ nt = 0 /\ ns = 0 /\ ct = 0
    /\ p = 1 /\ m = 0 /\ n = 1 /\ old = None /\ own = None
    /\ mem = <<[i \in {0} |-> 0]>>

Init ==
    /\ Fresh(next_ticket, now_serving, cleanup_ticket, polls, mask, num_polls, old_polls,
             owner_id, areas)
    /\ pc = [t \in Threads |-> "program"]
    /\ ticket = [t \in Threads |-> None]
    /\ my_polls = [t \in Threads |-> None]
    /\ my_mask = [t \in Threads |-> None]
    /\ stray = None

Go(t, from, to) ==
    /\ stray = None
    /\ pc[t] = from
    /\ pc' = [pc EXCEPT ![t] = to]

\* What the thread has in its locals is not used again.
Forget(t) ==
    /\ my_polls' = [my_polls EXCEPT ![t] = None]
    /\ my_mask' = [my_mask EXCEPT ![t] = None]

Return(t, from) ==
    /\ Go(t, from, "program")
    /\ ticket' = [ticket EXCEPT ![t] = None]
    /\ Forget(t)

\* Element number n & m of area p.
Hit(n, m) == n % (m + 1)
Polled(t) == areas[my_polls[t]][Hit(ticket[t], my_mask[t])]
InArea(t) == Hit(ticket[t], my_mask[t]) \in DOMAIN areas[my_polls[t]]

\* Thread t, which who describes, uses an area that is freed, or passes its end.
Stray(t, from, who) ==
    /\ Go(t, from, from)
    /\ ~InArea(t)
    /\ stray' = <<who, IF DOMAIN areas[my_polls[t]] = {} THEN "freed" ELSE "end">>
    /\ UNCHANGED <<tickets, area, owner_id, mine>>

-----------------------------------------------------------------------------
\* omp_set_lock
TakeTicket(t) ==
    /\ owner_id # t
    /\ Go(t, "program", "mask")
    /\ next_ticket < MaxTicket /\ next_ticket' = next_ticket + 1
    /\ ticket' = [ticket EXCEPT ![t] = next_ticket]
    /\ UNCHANGED <<now_serving, cleanup_ticket, area, owner_id, my_polls, my_mask, stray>>

ReadMask(t) ==
    /\ \/ Go(t, "mask", "polls")
       \/ Go(t, "test_mask", "test_poll")
    /\ my_mask' = [my_mask EXCEPT ![t] = mask]
    /\ UNCHANGED <<tickets, area, owner_id, ticket, my_polls, stray>>

\* Mutant: the pointer has been read before the mask, and may have been replaced since.
ReadPollsEarly(t) ==
    /\ \/ Go(t, "polls", "poll")
       \/ Go(t, "test_polls", "test_mask")
    /\ \E p \in {polls, old_polls} \ {None} : my_polls' = [my_polls EXCEPT ![t] = p]
    /\ UNCHANGED <<tickets, area, owner_id, ticket, my_mask, stray>>

ReadPolls(t) ==
    /\ \/ Go(t, "polls", "poll")
       \/ Go(t, "test_polls", "test_mask")
    /\ my_polls' = [my_polls EXCEPT ![t] = polls]
    /\ UNCHANGED <<tickets, area, owner_id, ticket, my_mask, stray>>

\* The thread spins; each time it reads the mask and the pointer again.
Poll(t) ==
    \/ Stray(t, "poll", "acquire")
    \/ /\ Go(t, "poll", "mask") /\ InArea(t) /\ Polled(t) < ticket[t]
       /\ Forget(t)
       /\ UNCHANGED <<tickets, area, owner_id, ticket, stray>>
    \/ /\ Go(t, "poll", "serve") /\ InArea(t) /\ Polled(t) >= ticket[t]
       /\ UNCHANGED <<tickets, area, owner_id, mine, stray>>

\* The thread has the lock.  It frees the garbage if free.
Enter(t, free) ==
    /\ Go(t, "serve", IF free \/ old_polls = None THEN "reconfigure" ELSE "own")
    /\ now_serving' = ticket[t]
    /\ IF free THEN /\ areas' = [areas EXCEPT ![old_polls] = << >>]
                    /\ old_polls' = None
                    /\ cleanup_ticket' = 0
               ELSE UNCHANGED <<areas, old_polls, cleanup_ticket>>
    /\ UNCHANGED <<next_ticket, polls, mask, num_polls, owner_id, mine, stray>>

\* The garbage is freed if no thread with an earlier ticket is left.
Serve(t) == Enter(t, old_polls # None /\ ticket[t] >= cleanup_ticket)

\* The factor by which the area grows: the size doubles until it exceeds the waiting threads.
Growth(waiting) == CHOOSE g \in {2 ^ k : k \in 1 .. waiting} :
    g * num_polls > waiting /\ (g = 2 \/ (g \div 2) * num_polls <= waiting)

\* A new area a, with mask m, takes the place of the old one.
Replace(t, a, m) ==
    /\ Go(t, "reconfigure", "publish")
    /\ areas' = Append(areas, a)
    /\ old_polls' = my_polls[t]
    /\ polls' = Len(areas')
    /\ my_polls' = [my_polls EXCEPT ![t] = polls']
    /\ my_mask' = [my_mask EXCEPT ![t] = m]
    /\ UNCHANGED <<tickets, mask, num_polls, owner_id, ticket, stray>>

Contract(t) == num_polls > 1 /\ Replace(t, [i \in {0} |-> ticket[t]], 0)

\* The new mask is made from the thread's own copy of the old one.
Grow(t) ==
    LET waiting == next_ticket - ticket[t] - 1
        g == Growth(waiting)
        old == areas[my_polls[t]]
    IN  /\ waiting > num_polls
        /\ Replace(t, [i \in 0 .. g * num_polls - 1 |-> IF i < num_polls THEN old[i] ELSE 0],
                   (my_mask[t] + 1) * g - 1)

Reconfigure(t) == pc[t] = "reconfigure" /\ \E over \in Oversubscription :
    \/ over /\ Contract(t)
    \/ ~over /\ Grow(t)
    \/ /\ IF over THEN num_polls <= 1 ELSE next_ticket - ticket[t] - 1 <= num_polls
       /\ Go(t, "reconfigure", "own")
       /\ Forget(t)
       /\ UNCHANGED <<tickets, area, owner_id, ticket, stray>>

Publish(t) ==
    /\ Go(t, "publish", "cleanup")
    /\ num_polls' = Cardinality(DOMAIN areas[my_polls[t]])
    /\ mask' = my_mask[t]
    /\ Forget(t)
    /\ UNCHANGED <<tickets, polls, old_polls, areas, owner_id, ticket, stray>>

Cleanup(t) ==
    /\ Go(t, "cleanup", "own")
    /\ cleanup_ticket' = next_ticket
    /\ UNCHANGED <<next_ticket, now_serving, area, owner_id, mine, stray>>

Own(t) ==
    /\ Return(t, "own")
    /\ owner_id' = t
    /\ UNCHANGED <<tickets, area, stray>>

-----------------------------------------------------------------------------
\* omp_test_lock: the ticket that the thread would get.
Test(t) ==
    /\ owner_id # t
    /\ Go(t, "program", "test_polls")
    /\ next_ticket < MaxTicket
    /\ ticket' = [ticket EXCEPT ![t] = next_ticket]
    /\ UNCHANGED <<tickets, area, owner_id, my_polls, my_mask, stray>>

TestPoll(t) ==
    \/ Stray(t, "test_poll", "test")
    \/ /\ Go(t, "test_poll", "test_cas") /\ InArea(t) /\ Polled(t) = ticket[t]
       /\ Forget(t)
       /\ UNCHANGED <<tickets, area, owner_id, ticket, stray>>
    \/ /\ Return(t, "test_poll") /\ InArea(t) /\ Polled(t) # ticket[t]
       /\ UNCHANGED <<tickets, area, owner_id, stray>>

\* The thread takes the ticket, if it is still the next one.
TestTake(t) ==
    \/ /\ Go(t, "test_cas", "own")
       /\ next_ticket = ticket[t] /\ next_ticket' = next_ticket + 1
       /\ now_serving' = ticket[t]
       /\ UNCHANGED <<cleanup_ticket, area, owner_id, mine, stray>>
    \/ /\ Return(t, "test_cas")
       /\ next_ticket # ticket[t]
       /\ UNCHANGED <<tickets, area, owner_id, stray>>

\* omp_unset_lock: the next ticket is served.
Unset(t) ==
    /\ Go(t, "program", "program") /\ owner_id = t
    /\ owner_id' = None
    /\ LET next == now_serving + 1
       IN  IF Hit(next, mask) \in DOMAIN areas[polls]
             THEN /\ areas' = [areas EXCEPT ![polls][Hit(next, mask)] = next]
                  /\ UNCHANGED stray
             ELSE stray' = <<"release", "end">> /\ UNCHANGED areas
    /\ UNCHANGED <<tickets, polls, mask, num_polls, old_polls, mine>>

\* omp_destroy_lock and omp_init_lock, when nobody uses the lock.
Recreate ==
    /\ stray = None /\ owner_id = None
    /\ \A t \in Threads : pc[t] = "program"
    /\ next_ticket > 0
    /\ Fresh(next_ticket', now_serving', cleanup_ticket', polls', mask', num_polls', old_polls',
             owner_id', areas')
    /\ UNCHANGED <<pc, mine, stray>>

\* After a stray access the behaviour of the program is undefined.
Undefined == stray # None /\ UNCHANGED vars

-----------------------------------------------------------------------------
Step(t) ==
    \/ ReadMask(t) \/ ReadPolls(t) \/ Poll(t) \/ Serve(t) \/ Reconfigure(t)
    \/ Publish(t) \/ Cleanup(t) \/ Own(t) \/ TestPoll(t) \/ TestTake(t)

Next ==
    \/ \E t \in Threads : TakeTicket(t) \/ Test(t) \/ Step(t) \/ Unset(t)
    \/ Recreate
    \/ Undefined

Spec == Init /\ [][Next]_vars

-----------------------------------------------------------------------------
(* Properties.                                                             *)

Inside(t) == owner_id = t \/ pc[t] \in Holding
Active == {t \in Threads : Inside(t) \/ pc[t] \in Waiting}

\* The ticket of a thread in line; the owner has the one that is served.
TicketOf(t) == IF owner_id = t THEN now_serving ELSE ticket[t]

\* While nobody has the lock the area in use shows the next ticket, where the thread that
\* has it looks and where a test looks: no replacement of the area loses a turn.
TurnIsShown ==
    LET next == next_ticket - Cardinality(Active)
    IN  (\A t \in Threads : ~Inside(t)) => areas[polls][Hit(next, mask)] = next

\* One thread at a time has the lock, and no ticket is lost.  The thread has found its
\* ticket in the area that is in use.  Its mask may be stale then, but never when it
\* makes a new mask of it.  No area is lost: one that is not freed is in use or is the
\* garbage.
Inv ==
    /\ TypeOK
    /\ Cardinality({t \in Threads : Inside(t)}) <= 1
    /\ {TicketOf(t) : t \in Active} = next_ticket - Cardinality(Active) .. next_ticket - 1
    /\ \A t \in Threads :
         /\ pc[t] \in {"serve", "reconfigure", "publish"} => my_polls[t] = polls
         /\ pc[t] = "reconfigure" => my_mask[t] = mask
         /\ pc[t] \in Holding \ {"serve"} => ticket[t] = now_serving
    /\ \A p \in DOMAIN areas : areas[p] = << >> <=> p \notin {polls, old_polls}
    /\ (\A t \in Threads : pc[t] # "publish") =>
           num_polls = mask + 1 /\ DOMAIN areas[polls] = 0 .. mask
    /\ TurnIsShown

\* The area in use has taken the place of a larger one, which is not freed yet.
Contracted ==
    /\ old_polls # None
    /\ DOMAIN areas[polls] \subseteq DOMAIN areas[old_polls]
    /\ DOMAIN areas[polls] # DOMAIN areas[old_polls]

\* A release never strays.  A thread with a ticket never uses an area that is freed, and
\* passes the end of one only if it has the mask of a larger area, which the one that it
\* polls has just replaced: since it reads the mask before the pointer, it is safe from
\* areas that grow.  omp_test_lock, which has no ticket and reads the pointer before the
\* mask, may use what is freed and pass any end.
StrayIsKnown ==
    \/ stray \in {None, <<"test", "end">>, <<"test", "freed">>}
    \/ /\ stray = <<"acquire", "end">>
       /\ Contracted
       /\ \E t \in Threads : pc[t] = "poll" /\ my_polls[t] = polls /\ ~InArea(t)

\* No thread that tests the lock reads memory beyond the end of a polling area.
TestStaysInside == stray # <<"test", "end">>

\* Tickets are served in order.
Fifo == INSTANCE FifoLock WITH
    Locks <- {1},
    line <- LET n == Cardinality(Active)
            IN  <<[i \in 1 .. n |-> CHOOSE t \in Active : TicketOf(t) = next_ticket - n + i - 1]>>,
    inside <- <<\E t \in Threads : Inside(t)>>

ImplementsFifo == Fifo!Spec

\* Somebody waits, or is on the way in, and nobody has the lock yet.
Idle == owner_id = None /\ Active # {} /\ stray = None
=============================================================================
