------------------------------ MODULE FifoLock ------------------------------
(***************************************************************************)
(* What a fair lock promises: the threads that have asked for it stand in  *)
(* line, only the first one is inside, and nobody jumps the line.          *)
(* TicketLock, QueuingLock and DrdpaLock are shown to implement it.        *)
(***************************************************************************)
EXTENDS Sequences

CONSTANTS Threads, Locks

VARIABLES line,         \* for each lock, who has asked for it, in order
          inside        \* for each lock, whether the first of the line has it

Init ==
    /\ line = [l \in Locks |-> << >>]
    /\ inside = [l \in Locks |-> FALSE]

\* A thread queues, or gets a lock that nobody wants at once.
Join(t, l) ==
    /\ line' = [line EXCEPT ![l] = Append(@, t)]
    /\ \/ UNCHANGED inside
       \/ line[l] = << >> /\ inside' = [inside EXCEPT ![l] = TRUE]

Enter(l) ==
    /\ line[l] # << >>
    /\ inside' = [inside EXCEPT ![l] = TRUE]
    /\ UNCHANGED line

Leave(l) ==
    /\ inside[l]
    /\ line' = [line EXCEPT ![l] = Tail(@)]
    /\ inside' = [inside EXCEPT ![l] = FALSE]

Next == \E l \in Locks : Enter(l) \/ Leave(l) \/ \E t \in Threads : Join(t, l)

Spec == Init /\ [][Next]_<<line, inside>>
=============================================================================
