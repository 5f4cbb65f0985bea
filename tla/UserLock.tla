------------------------------ MODULE UserLock ------------------------------
(***************************************************************************)
(* The locks that an OpenMP program makes with omp_init_lock and           *)
(* omp_init_nest_lock.  The environment chooses once, before the first of  *)
(* them is made, of which kind all of them are.                            *)
(***************************************************************************)
EXTENDS Integers, FiniteSets

CONSTANTS Threads, Locks, MaxDepth, MaxTicket, Oversubscription, None

ASSUME NoneAssumption == None \notin Threads \cup Int
ASSUME ThreadsAssumption == IsFiniteSet(Threads) /\ -1 \notin Threads
ASSUME LocksAssumption == Locks \subseteq Int
ASSUME BoundsAssumption == {MaxDepth, MaxTicket} \subseteq Nat \ {0}
ASSUME OversubscriptionAssumption == Oversubscription \subseteq BOOLEAN

VARIABLES kind,         \* __kmp_user_lock_kind
          tas_poll, tas_depth, spinning,
          ticket_next, ticket_serving, ticket_owner, ticket_depth, ticket_pc, my_ticket,
          poll, futex_depth, asleep, futex_pc, bit, poll_val,
          head, tail, owner_id, depth, spin_here, next_waiting, pc, want, seen,
          next_ticket, now_serving, cleanup_ticket, polls, mask, num_polls, old_polls,
          drdpa_owner, areas, drdpa_pc, ticket, my_polls, my_mask, stray

Tas == INSTANCE TasLock WITH poll <- tas_poll, depth <- tas_depth
Ticket == INSTANCE TicketLock WITH
    next_ticket <- ticket_next, now_serving <- ticket_serving, owner_id <- ticket_owner,
    depth <- ticket_depth, pc <- ticket_pc, ticket <- my_ticket
Futex == INSTANCE FutexLock WITH depth <- futex_depth, pc <- futex_pc
Queuing == INSTANCE QueuingLock
Drdpa == INSTANCE DrdpaLock WITH owner_id <- drdpa_owner, pc <- drdpa_pc

tas == <<tas_poll, tas_depth, spinning>>
tickets == <<ticket_next, ticket_serving, ticket_owner, ticket_depth, ticket_pc, my_ticket>>
futex == <<poll, futex_depth, asleep, futex_pc, bit, poll_val>>
queuing == <<head, tail, owner_id, depth, spin_here, next_waiting, pc, want, seen>>
drdpa == <<next_ticket, now_serving, cleanup_ticket, polls, mask, num_polls, old_polls,
           drdpa_owner, areas, drdpa_pc, ticket, my_polls, my_mask, stray>>
vars == <<kind, tas, tickets, futex, queuing, drdpa>>

Init ==
    /\ kind \in {"tas", "ticket", "futex", "queuing", "drdpa"}
    /\ Tas!Init /\ Ticket!Init /\ Futex!Init /\ Queuing!Init /\ Drdpa!Init

\* A step inside a call, of the kind of lock that was chosen.
Step(t) ==
    \/ kind = "tas" /\ Tas!Step(t) /\ UNCHANGED <<kind, tickets, futex, queuing, drdpa>>
    \/ kind = "ticket" /\ Ticket!Step(t) /\ UNCHANGED <<kind, tas, futex, queuing, drdpa>>
    \/ kind = "futex" /\ Futex!Step(t) /\ UNCHANGED <<kind, tas, tickets, queuing, drdpa>>
    \/ kind = "queuing" /\ Queuing!Step(t) /\ UNCHANGED <<kind, tas, tickets, futex, drdpa>>
    \/ kind = "drdpa" /\ Drdpa!Step(t) /\ UNCHANGED <<kind, tas, tickets, futex, queuing>>

Next ==
    \/ kind = "tas" /\ Tas!Next /\ UNCHANGED <<kind, tickets, futex, queuing, drdpa>>
    \/ kind = "ticket" /\ Ticket!Next /\ UNCHANGED <<kind, tas, futex, queuing, drdpa>>
    \/ kind = "futex" /\ Futex!Next /\ UNCHANGED <<kind, tas, tickets, queuing, drdpa>>
    \/ kind = "queuing" /\ Queuing!Next /\ UNCHANGED <<kind, tas, tickets, futex, drdpa>>
    \/ kind = "drdpa" /\ Drdpa!Next /\ UNCHANGED <<kind, tas, tickets, futex, queuing>>

Spec == Init /\ [][Next]_vars

\* A thread that is in a call is scheduled again.
FairSpec == Spec /\ \A t \in Threads : WF_vars(Step(t))

-----------------------------------------------------------------------------
(* Properties.                                                             *)

\* The invariants of the kinds: who holds the lock and who waits for it agree
\* with the words of the lock; every sleeper of a futex lock is known to somebody;
\* the waiting threads of a queuing lock are the ones that its links reach; a thread
\* that replaces the polling area of a DRDPA lock knows the one in use.
Inv == CASE kind = "tas" -> Tas!Inv
         [] kind = "ticket" -> Ticket!Inv
         [] kind = "futex" -> Futex!Inv
         [] kind = "queuing" -> Queuing!Inv
         [] kind = "drdpa" -> Drdpa!Inv

\* Where a DRDPA lock may be accessed outside a polling area, and where never.
StrayIsKnown == Drdpa!StrayIsKnown

\* A test of a DRDPA lock does not read beyond the end of a polling area.
TestStaysInside == Drdpa!TestStaysInside

\* One thread at a time owns a test-and-set or futex lock; only the owner locks it again.
ImplementsOwned == Tas!ImplementsOwned /\ Futex!ImplementsOwned

\* Ticket, queuing and DRDPA locks serve the threads in the order in which they asked.
ImplementsFifo == Ticket!ImplementsFifo /\ Queuing!ImplementsFifo /\ Drdpa!ImplementsFifo

\* A thread waits for the lock or is being given it, and nobody has it.
Idle(l) == CASE kind = "tas" -> Tas!Idle
             [] kind = "ticket" -> Ticket!Idle
             [] kind = "futex" -> Futex!Idle
             [] kind = "queuing" -> Queuing!Idle(l)
             [] kind = "drdpa" -> Drdpa!Idle

\* A lock does not stay so: the release wakes or serves a thread, and that thread
\* gets it.
IsPassedOn == \A l \in Locks : Idle(l) ~> ~Idle(l)
=============================================================================
