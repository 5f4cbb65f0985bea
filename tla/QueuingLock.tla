---------------------------- MODULE QueuingLock ----------------------------
(***************************************************************************)
(* The queuing locks of the OpenMP runtime, simple and nestable.           *)
(*                                                                         *)
(* The threads that wait for a lock are linked from its head to its tail   *)
(* through next_waiting, a field of the thread that all locks share, and   *)
(* each spins on its own spin_here.  A thread that queues first makes      *)
(* itself the tail and then links the old tail to itself; the release      *)
(* waits for that link.  The holder of the lock is not in the queue.       *)
(***************************************************************************)
EXTENDS Integers, Sequences, FiniteSets

CONSTANTS Threads,
          Locks,        \* numbers: threads wait for locks in increasing order
          MaxDepth,     \* bound of the nesting in the model
          None          \* 0 for an id

VARIABLES head,         \* head_id: the lock is free (None), held with no queue, or has a queue
          tail,         \* tail_id
          owner_id, depth,          \* owner_id and depth_locked
          spin_here, next_waiting,  \* th_spin_here and th_next_waiting of each thread
          pc, want,                 \* where each thread is, and its argument lck
          seen                      \* local tail of an acquire, local head of a release

vars == <<head, tail, owner_id, depth, spin_here, next_waiting, pc, want, seen>>
lock == <<head, tail, owner_id, depth>>
links == <<spin_here, next_waiting>>

NoQueue == -1
Acquiring == {"head", "free", "first", "tail", "last", "link", "spin", "own"}
Releasing == {"release", "give_free", "give_tail", "give_only", "give_next"}
Waking == {"unlink", "wake"}

TypeOK ==
    /\ head \in [Locks -> Threads \cup {None, NoQueue}]
    /\ tail \in [Locks -> Threads \cup {None}]
    /\ owner_id \in [Locks -> Threads \cup {None}]
    /\ depth \in [Locks -> 0 .. MaxDepth]
    /\ spin_here \in [Threads -> BOOLEAN]
    /\ next_waiting \in [Threads -> Threads \cup {None}]
    /\ pc \in [Threads -> {"program"} \cup Acquiring \cup Releasing \cup Waking]
    /\ want \in [Threads -> Locks \cup {None}]
    /\ seen \in [Threads -> Threads \cup {None}]

Init ==
    /\ head = [l \in Locks |-> None]
    /\ tail = [l \in Locks |-> None]
    /\ owner_id = [l \in Locks |-> None]
    /\ depth = [l \in Locks |-> 0]
    /\ spin_here = [t \in Threads |-> FALSE]
    /\ next_waiting = [t \in Threads |-> None]
    /\ pc = [t \in Threads |-> "program"]
    /\ want = [t \in Threads |-> None]
    /\ seen = [t \in Threads |-> None]

Go(t, from, to) ==
    /\ pc[t] = from
    /\ pc' = [pc EXCEPT ![t] = to]

\* A step that changes nothing but where the thread is.
Local(t, from, to) == Go(t, from, to) /\ UNCHANGED <<lock, links, want, seen>>

\* What the thread has in its local is not used again.
Forget(t) == seen' = [seen EXCEPT ![t] = None]

Return(t, from) ==
    /\ Go(t, from, "program")
    /\ want' = [want EXCEPT ![t] = None]
    /\ Forget(t)

\* The lock of thread t goes from one head and tail to another.
Queue(t, h, q) ==
    /\ head' = [head EXCEPT ![want[t]] = h]
    /\ tail' = [tail EXCEPT ![want[t]] = q]

-----------------------------------------------------------------------------
\* The owner of a nestable lock sets it, or tests it.
Nest(t, l) ==
    /\ pc[t] = "program" /\ owner_id[l] = t
    /\ depth[l] < MaxDepth /\ depth' = [depth EXCEPT ![l] = @ + 1]
    /\ UNCHANGED <<head, tail, owner_id, links, pc, want, seen>>

\* omp_set_lock, of a lock that is not before one that the thread has.
Set(t, l) ==
    /\ \A k \in Locks : owner_id[k] = t => k < l
    /\ Go(t, "program", "head")
    /\ want' = [want EXCEPT ![t] = l]
    /\ spin_here' = [spin_here EXCEPT ![t] = TRUE]
    /\ UNCHANGED <<lock, next_waiting, seen>>

\* Mutant: a lock that is held passes for a free one if nobody waits for it.
TestHeld(t, l) ==
    /\ head[l] \in {None, NoQueue}
    /\ Go(t, "program", "own")
    /\ want' = [want EXCEPT ![t] = l]
    /\ head' = [head EXCEPT ![l] = NoQueue]
    /\ UNCHANGED <<tail, owner_id, depth, links, seen>>

\* omp_test_lock gets a lock that is free; otherwise it changes nothing.
Test(t, l) ==
    /\ head[l] = None
    /\ Go(t, "program", "own")
    /\ want' = [want EXCEPT ![t] = l]
    /\ head' = [head EXCEPT ![l] = NoQueue]
    /\ UNCHANGED <<tail, owner_id, depth, links, seen>>

ReadHead(t) ==
    /\ Go(t, "head", CASE head[want[t]] = NoQueue -> "first"
                       [] head[want[t]] = None -> "free"
                       [] OTHER -> "tail")
    /\ UNCHANGED <<lock, links, want, seen>>

\* (0,0) -> (-1,0): the lock was free.
TakeFree(t) ==
    \/ /\ Go(t, "free", "own")
       /\ head[want[t]] = None
       /\ Queue(t, NoQueue, tail[want[t]])
       /\ spin_here' = [spin_here EXCEPT ![t] = FALSE]
       /\ UNCHANGED <<owner_id, depth, next_waiting, want, seen>>
    \/ Local(t, "free", "head") /\ head[want[t]] # None

\* (-1,0) -> (tid,tid): the first in the queue.
BeFirst(t) ==
    \/ /\ Go(t, "first", "spin")
       /\ head[want[t]] = NoQueue /\ tail[want[t]] = None
       /\ Queue(t, t, t)
       /\ UNCHANGED <<owner_id, depth, links, want, seen>>
    \/ Local(t, "first", "head") /\ <<head[want[t]], tail[want[t]]>> # <<NoQueue, None>>

ReadTail(t) ==
    /\ Go(t, "tail", IF tail[want[t]] = None THEN "head" ELSE "last")
    /\ seen' = [seen EXCEPT ![t] = tail[want[t]]]
    /\ UNCHANGED <<lock, links, want>>

\* (h,t) -> (h,tid): the last in the queue.
BeLast(t) ==
    \/ /\ Go(t, "last", "link")
       /\ tail[want[t]] = seen[t]
       /\ Queue(t, head[want[t]], t)
       /\ UNCHANGED <<owner_id, depth, links, want, seen>>
    \/ /\ Go(t, "last", "head")
       /\ tail[want[t]] # seen[t]
       /\ Forget(t)
       /\ UNCHANGED <<lock, links, want>>

Link(t) ==
    /\ Go(t, "link", "spin")
    /\ next_waiting' = [next_waiting EXCEPT ![seen[t]] = t]
    /\ Forget(t)
    /\ UNCHANGED <<lock, spin_here, want>>

Spin(t) == Local(t, "spin", "own") /\ ~spin_here[t]

Own(t) ==
    /\ Return(t, "own")
    /\ owner_id' = [owner_id EXCEPT ![want[t]] = t]
    /\ depth' = [depth EXCEPT ![want[t]] = 1]
    /\ UNCHANGED <<head, tail, links>>

-----------------------------------------------------------------------------
\* omp_unset_lock; a nestable lock is released when it has been unset as often as set.
Unset(t, l) ==
    /\ pc[t] = "program" /\ owner_id[l] = t
    /\ depth' = [depth EXCEPT ![l] = @ - 1]
    /\ UNCHANGED <<head, tail, links, seen>>
    /\ IF depth[l] > 1
         THEN UNCHANGED <<owner_id, pc, want>>
         ELSE /\ Go(t, "program", "release")
              /\ want' = [want EXCEPT ![t] = l]
              /\ owner_id' = [owner_id EXCEPT ![l] = None]

ReadRelease(t) ==
    LET h == head[want[t]]
    IN  /\ Go(t, "release", IF h = NoQueue THEN "give_free" ELSE "give_tail")
        /\ seen' = [seen EXCEPT ![t] = IF h = NoQueue THEN None ELSE h]
        /\ UNCHANGED <<lock, links, want>>

\* (-1,0) -> (0,0)
GiveFree(t) ==
    \/ /\ Return(t, "give_free")
       /\ head[want[t]] = NoQueue
       /\ Queue(t, None, tail[want[t]])
       /\ UNCHANGED <<owner_id, depth, links>>
    \/ Local(t, "give_free", "release") /\ head[want[t]] # NoQueue

ReadReleaseTail(t) ==
    Local(t, "give_tail", IF tail[want[t]] = seen[t] THEN "give_only" ELSE "give_next")

\* (h,h) -> (-1,0): the only one in the queue gets the lock.
GiveOnly(t) ==
    \/ /\ Go(t, "give_only", "unlink")
       /\ head[want[t]] = seen[t] /\ tail[want[t]] = seen[t]
       /\ Queue(t, NoQueue, None)
       /\ UNCHANGED <<owner_id, depth, links, want, seen>>
    \/ /\ Go(t, "give_only", "release")
       /\ <<head[want[t]], tail[want[t]]>> # <<seen[t], seen[t]>>
       /\ Forget(t)
       /\ UNCHANGED <<lock, links, want>>

\* (h,t) -> (h',t): the first one gets the lock, when the second is known.
GiveNext(t) ==
    /\ Go(t, "give_next", "unlink")
    /\ next_waiting[seen[t]] # None
    /\ Queue(t, next_waiting[seen[t]], tail[want[t]])
    /\ UNCHANGED <<owner_id, depth, links, want, seen>>

\* Mutant: the thread is released before its link is cleared.
UnlinkLate(t) ==
    \/ /\ pc[t] = "unlink" /\ spin_here[seen[t]]
       /\ spin_here' = [spin_here EXCEPT ![seen[t]] = FALSE]
       /\ UNCHANGED <<lock, next_waiting, pc, want, seen>>
    \/ /\ Go(t, "unlink", "wake") /\ ~spin_here[seen[t]]
       /\ next_waiting' = [next_waiting EXCEPT ![seen[t]] = None]
       /\ UNCHANGED <<lock, spin_here, want, seen>>

Unlink(t) ==
    /\ Go(t, "unlink", "wake")
    /\ next_waiting' = [next_waiting EXCEPT ![seen[t]] = None]
    /\ UNCHANGED <<lock, spin_here, want, seen>>

Wake(t) ==
    /\ Return(t, "wake")
    /\ spin_here' = [spin_here EXCEPT ![seen[t]] = FALSE]
    /\ UNCHANGED <<lock, next_waiting>>

-----------------------------------------------------------------------------
Step(t) ==
    \/ ReadHead(t) \/ TakeFree(t) \/ BeFirst(t)
    \/ ReadTail(t) \/ BeLast(t) \/ Link(t) \/ Spin(t) \/ Own(t)
    \/ ReadRelease(t) \/ GiveFree(t) \/ ReadReleaseTail(t) \/ GiveOnly(t)
    \/ GiveNext(t) \/ Unlink(t) \/ Wake(t)

Next == \E t \in Threads :
    Step(t) \/ \E l \in Locks : Nest(t, l) \/ Set(t, l) \/ Test(t, l) \/ Unset(t, l)

Spec == Init /\ [][Next]_vars

-----------------------------------------------------------------------------
(* Properties.                                                             *)

\* The lock has been given to a thread that spins, which may not know it yet.
Given(t, l) == pc[t] = "spin" /\ want[t] = l /\
    (~spin_here[t] \/ \E u \in Threads : pc[u] \in Waking /\ seen[u] = t)

\* The thread is inside: it has the lock, or is about to give it back.
Inside(t, l) == owner_id[l] = t \/ (want[t] = l /\ pc[t] \in {"own"} \cup Releasing)

Holders(l) == {t \in Threads : Inside(t, l) \/ Given(t, l)}

\* The thread is in the queue of the lock.
Queued(t, l) == want[t] = l /\ pc[t] \in {"link", "spin"} /\ ~Given(t, l)

\* u follows t in a queue: the link is set, or u is about to set it.
Follows(u, t) ==
    \/ next_waiting[t] = u
    \/ next_waiting[t] = None /\ pc[u] = "link" /\ seen[u] = t

\* The queues of lock l: the orders of the threads in it that the links allow.
Queues(l) ==
    LET queued == {t \in Threads : Queued(t, l)}
        n == Cardinality(queued)
    IN  IF head[l] \in {None, NoQueue} THEN IF n = 0 /\ tail[l] = None THEN {<< >>} ELSE {}
        ELSE {s \in [1 .. n -> queued] :
                  /\ s[1] = head[l] /\ s[n] = tail[l]
                  /\ \A i \in 1 .. n - 1 : Follows(s[i + 1], s[i])
                  /\ \A i, j \in 1 .. n : s[i] = s[j] => i = j}

\* A release that waits for the link of the second in the queue does not wait in vain:
\* a thread is about to set it.
LinkIsComing == \A t \in Threads :
    pc[t] = "give_next" /\ next_waiting[seen[t]] = None =>
        \E u \in Threads : pc[u] = "link" /\ want[u] = want[t] /\ seen[u] = seen[t]

\* A lock that is not free has one holder.  The threads that wait for it are all in
\* its queue and nobody else is.  A thread that does not wait has no link and does
\* not spin, one that waits spins until it has the lock, and neither finds itself at
\* the end of a queue nor a queue without an end (the assertions of the code).
Inv ==
    /\ TypeOK
    /\ \A l \in Locks :
         /\ Cardinality(Holders(l)) = IF head[l] = None THEN 0 ELSE 1
         /\ Cardinality(Queues(l)) = 1
    /\ \A t \in Threads :
         /\ pc[t] \in {"program", "head", "own"} \cup Releasing => next_waiting[t] = None
         /\ pc[t] \in {"program", "own"} \cup Releasing \cup Waking => ~spin_here[t]
         /\ (\E l \in Locks : Queued(t, l)) => spin_here[t]
         /\ pc[t] = "last" => seen[t] # t
         /\ pc[t] \in {"give_only", "give_next"} => tail[want[t]] # None
    /\ LinkIsComing

\* Nobody jumps the queue.
Fifo == INSTANCE FifoLock WITH
    line <- [l \in Locks |->
                IF head[l] = None THEN << >>
                ELSE <<CHOOSE t \in Holders(l) : TRUE>> \o CHOOSE s \in Queues(l) : TRUE],
    inside <- [l \in Locks |-> \E t \in Threads : Inside(t, l)]

ImplementsFifo == Fifo!Spec

\* The lock is being passed on: it is not free and nobody owns it.
Idle(l) == head[l] # None /\ owner_id[l] = None
=============================================================================
