---------------------------- MODULE UserLockProof ----------------------------
(***************************************************************************)
(* Proofs about UserLock for any set of threads and of locks, any nesting  *)
(* depth and any number of tickets.                                        *)
(*                                                                         *)
(* Each kind of lock has a part of its own.  Its invariant is strengthened *)
(* to an inductive one where that is needed: TicketLine gives each ticket  *)
(* that is not yet served to one thread, QueuingLine spells out the chain  *)
(* of waiting threads that the links of a queuing lock make, and DrdpaLine *)
(* says which polling area each thread and each ticket of a DRDPA lock     *)
(* has.  From there the step of a kind is a step of the abstract lock, or  *)
(* none, and IInv puts the kinds together, with what says that no release  *)
(* waits in vain, no turn is lost and which polling area a thread's mask   *)
(* fits (QueuingTail, TurnIsShown, DrdpaFits).                             *)
(***************************************************************************)
EXTENDS UserLock, FiniteSetTheorems, SequenceTheorems, TLAPS

-----------------------------------------------------------------------------
(* Lines of threads, and intervals.                                        *)

\* L is the threads of A in the order of their tickets f, which are b and the n - 1 after it.
IsLine(L, A, f, b, n) ==
    /\ L \in [1 .. n -> A] /\ f \in [A -> Int]
    /\ \A i \in 1 .. n : f[L[i]] = b + i - 1
    /\ \A t, u \in A : f[t] = f[u] => t = u

\* Thread t gets the ticket after those of A.
Joins(t, A, B, f, g, b, n, m) ==
    /\ t \notin A /\ B = A \cup {t}
    /\ b \in Int /\ n \in Nat /\ m = n + 1
    /\ g[t] = b + n /\ \A u \in A : g[u] = f[u]

\* Thread t goes, and its ticket is no longer the first.
Leaves(t, A, B, f, g, b, c, n, m) ==
    /\ t \in A /\ B = A \ {t}
    /\ b \in Int /\ c = b + 1 /\ n \in Nat \ {0} /\ m = n - 1
    /\ \A u \in B : g[u] = f[u]

\* A line without a change.
LEMMA LineStay ==
    ASSUME NEW A, NEW f, NEW g, NEW b \in Int, NEW n \in Nat, NEW L, NEW M,
           IsLine(L, A, f, b, n), IsLine(M, A, g, b, n), f = g
    PROVE  M = L
  BY DEF IsLine

\* A thread with the next ticket is the last in the line.
LEMMA LineJoin ==
    ASSUME NEW A, NEW B, NEW t, NEW f, NEW g, NEW b, NEW n, NEW m, NEW L, NEW M,
           Joins(t, A, B, f, g, b, n, m), IsLine(L, A, f, b, n), IsLine(M, B, g, b, m)
    PROVE  M = Append(L, t)
  <1>1. L \in Seq(A \cup {t}) /\ Len(L) = n
    BY DEF IsLine, Joins
  <1>2. M \in Seq(A \cup {t}) /\ Len(M) = n + 1
    BY DEF IsLine, Joins
  <1>3. Append(L, t) \in Seq(A \cup {t}) /\ Len(Append(L, t)) = n + 1
    BY <1>1
  <1>4. ASSUME NEW i \in 1 .. n + 1 PROVE M[i] = Append(L, t)[i]
    <2>1. CASE i = n + 1
      BY <1>1, <2>1 DEF IsLine, Joins
    <2>2. CASE i \in 1 .. n
      BY <1>1, <2>2 DEF IsLine, Joins
    <2>3. i = n + 1 \/ i \in 1 .. n
      BY DEF Joins
    <2> QED
      BY <2>1, <2>2, <2>3
  <1> QED
    BY <1>2, <1>3, <1>4, SeqEqual

\* The first of a line leaves it.
LEMMA LineLeave ==
    ASSUME NEW A, NEW B, NEW t, NEW f, NEW g, NEW b, NEW c, NEW n, NEW m, NEW L, NEW M,
           Leaves(t, A, B, f, g, b, c, n, m), IsLine(L, A, f, b, n), IsLine(M, B, g, c, m)
    PROVE  M = Tail(L)
  <1>1. L \in Seq(A) /\ Len(L) = n /\ L # << >>
    BY DEF IsLine, Leaves
  <1>2. M \in Seq(A) /\ Len(M) = n - 1
    BY DEF IsLine, Leaves
  <1>3. Tail(L) \in Seq(A) /\ Len(Tail(L)) = n - 1
    BY <1>1
  <1>4. ASSUME NEW i \in 1 .. n - 1 PROVE M[i] = Tail(L)[i]
    <2>1. Tail(L)[i] = L[i + 1]
      BY <1>1
    <2> QED
      BY <2>1 DEF IsLine, Leaves
  <1> QED
    BY <1>2, <1>3, <1>4, SeqEqual

\* A pair of a line and a flag takes a step of the fair lock.
LEMMA OneLine == \A x, y : [<<x>> EXCEPT ![1] = y] = <<y>>
  OBVIOUS

\* The two ways to write the state of the fair lock when there is one lock.
LEMMA OneLock == \A x : <<x>> = [l \in {1} |-> x]
  OBVIOUS

\* The line has as many threads as there are tickets.
LEMMA LineLength ==
    ASSUME NEW A, NEW f, NEW b, NEW n \in Nat, NEW L, IsLine(L, A, f, b, n)
    PROVE  L \in Seq(A) /\ Len(L) = n /\ ((L = << >>) <=> (n = 0))
  BY DEF IsLine

\* What holds of 1 and of the successor of each number before n holds up to n.
LEMMA IntervalFilled ==
    ASSUME NEW n \in Nat, NEW A, A \subseteq 1 .. n, n # 0 => 1 \in A,
           \A i \in A : i < n => i + 1 \in A
    PROVE  A = 1 .. n
  <1> SUFFICES ASSUME NEW m \in 1 .. n, m \notin A PROVE FALSE
    OBVIOUS
  <1> DEFINE B == {i \in A : i < m}
             f == [i \in B |-> i + 1]
  <1>1. IsFiniteSet(B)
    <2>1. IsFiniteSet(1 .. n)
      BY FS_Interval
    <2>2. B \subseteq 1 .. n
      OBVIOUS
    <2> HIDE DEF B
    <2> QED
      BY <2>1, <2>2, FS_Subset
  <1>2. f \in Injection(B, B)
    <2>1. \A i \in B : i + 1 \in B
      BY DEF B
    <2>2. f \in [B -> B]
      BY <2>1
    <2>3. \A i, j \in B : f[i] = f[j] => i = j
      OBVIOUS
    <2> HIDE DEF B, f
    <2> QED
      BY <2>2, <2>3 DEF Injection, IsInjective
  <1>3. f \in Surjection(B, B)
    BY <1>1, <1>2, FS_Injection
  <1>4. 1 \in B
    OBVIOUS
  <1>5. PICK i \in B : f[i] = 1
    BY <1>3, <1>4 DEF Surjection
  <1> QED
    BY <1>5

-----------------------------------------------------------------------------
(* Test-and-set locks.                                                     *)

\* How often each thread holds a test-and-set lock.
TasHolds == [t \in Threads |-> IF tas_poll = t THEN tas_depth ELSE 0]

\* An unused test-and-set lock.
LEMMA TasInit == Tas!Init => Tas!Inv
  BY NoneAssumption, BoundsAssumption DEF Tas!Init, Tas!Inv, Tas!TypeOK

\* A step of a test-and-set lock keeps its invariant.
LEMMA TasNext == ASSUME Tas!Inv, Tas!Next PROVE Tas!Inv'
  BY NoneAssumption, BoundsAssumption
  DEF Tas!Inv, Tas!TypeOK, Tas!Next, Tas!Nest, Tas!Set, Tas!Take, Tas!Test, Tas!Step, Tas!Try,
      Tas!Unset

\* A step of a test-and-set lock is a step of a mutex.
LEMMA TasOwned == ASSUME Tas!Inv, Tas!Next PROVE [Tas!Owned!Next]_TasHolds
  <1> USE NoneAssumption, BoundsAssumption
      DEF Tas!Inv, Tas!TypeOK, TasHolds, Tas!Owned!Acquire, Tas!Owned!Release
  <1>1. PICK t \in Threads : Tas!Nest(t) \/ Tas!Set(t) \/ Tas!Test(t) \/ Tas!Step(t) \/ Tas!Unset(t)
    BY DEF Tas!Next
  <1>2. ASSUME Tas!Take(t) PROVE Tas!Owned!Acquire(t)
    BY <1>2 DEF Tas!Take
  <1>3. CASE Tas!Nest(t)
    BY <1>3 DEF Tas!Nest, Tas!Owned!Next
  <1>4. CASE Tas!Set(t)
    BY <1>4 DEF Tas!Set
  <1>5. CASE Tas!Test(t) \/ Tas!Step(t)
    BY <1>2, <1>5 DEF Tas!Test, Tas!Step, Tas!Try, Tas!Owned!Next
  <1>6. CASE Tas!Unset(t)
    <2>1. tas_depth > 0 /\ TasHolds[t] = tas_depth
      BY <1>6 DEF Tas!Unset
    <2>2. \A u \in Threads : TasHolds'[u] = IF u = t THEN tas_depth - 1 ELSE 0
      BY <1>6, <2>1 DEF Tas!Unset
    <2>3. \A u \in Threads \ {t} : TasHolds[u] = 0
      BY <1>6 DEF Tas!Unset
    <2>4. TasHolds' = [TasHolds EXCEPT ![t] = @ - 1]
      BY <2>1, <2>2, <2>3
    <2> QED
      BY <2>1, <2>4 DEF Tas!Owned!Next
  <1> QED
    BY <1>1, <1>3, <1>4, <1>5, <1>6

-----------------------------------------------------------------------------
(* Futex locks.                                                            *)

\* How often each thread holds a futex lock.
FutexHolds == [t \in Threads |-> IF poll.owner = t THEN futex_depth ELSE 0]

\* The part of the invariant of a futex lock that says nothing of sleeping threads.
FutexWord ==
    /\ Futex!TypeOK
    /\ poll = Futex!Free <=> futex_depth = 0
    /\ poll # Futex!Free => futex_pc[poll.owner] = "program"
    /\ \A t \in Threads : /\ futex_pc[t] = "mark" => poll_val[t] # Futex!Free
                          /\ futex_pc[t] = "wait" => poll_val[t].bit

\* The invariant of a futex lock in two parts.
LEMMA FutexParts == Futex!Inv <=> FutexWord /\ Futex!SleepersAreKnown
  BY DEF Futex!Inv, FutexWord

\* An unused futex lock.
LEMMA FutexInit == Futex!Init => Futex!Inv
  BY NoneAssumption, BoundsAssumption
  DEF Futex!Init, Futex!Inv, Futex!TypeOK, Futex!Polls, Futex!Free, Futex!SleepersAreKnown

\* The words of a futex lock: the free one, and those with an owner.
LEMMA FutexPolls ==
    /\ Futex!Free \in Futex!Polls /\ Futex!Free.owner = None /\ Futex!Free.bit = FALSE
    /\ \A w \in Futex!Polls : /\ w.bit \in BOOLEAN
                              /\ w # Futex!Free => w.owner \in Threads /\ w.owner # None
    /\ \A t \in Threads, b \in BOOLEAN : /\ [owner |-> t, bit |-> b] \in Futex!Polls
                                         /\ [owner |-> t, bit |-> b] # Futex!Free
                                         /\ [owner |-> t, bit |-> b].owner = t
                                         /\ [owner |-> t, bit |-> b].bit = b
  <1>1. \A t \in Threads : t # None
    BY NoneAssumption
  <1>2. Futex!Free \in Futex!Polls
    BY DEF Futex!Polls
  <1>3. Futex!Free.owner = None /\ Futex!Free.bit = FALSE
    BY DEF Futex!Free
  <1>4. \A w \in [owner : Threads, bit : BOOLEAN] : w.bit \in BOOLEAN /\ w.owner \in Threads
    OBVIOUS
  <1>5. \A w \in Futex!Polls : w = Futex!Free \/ w \in [owner : Threads, bit : BOOLEAN]
    BY DEF Futex!Polls
  <1>6. \A w \in Futex!Polls : w.bit \in BOOLEAN
    BY <1>3, <1>4, <1>5, Zenon
  <1>7. \A w \in Futex!Polls : w # Futex!Free => w.owner \in Threads /\ w.owner # None
    BY <1>1, <1>4, <1>5
  <1>8. \A t \in Threads, b \in BOOLEAN : [owner |-> t, bit |-> b] \in Futex!Polls
    BY DEF Futex!Polls
  <1>9. \A t \in Threads, b \in BOOLEAN : [owner |-> t, bit |-> b] # Futex!Free
    BY <1>1 DEF Futex!Free
  <1>10. \A t \in Threads, b \in BOOLEAN : /\ [owner |-> t, bit |-> b].owner = t
                                           /\ [owner |-> t, bit |-> b].bit = b
    OBVIOUS
  <1> QED
    BY <1>2, <1>3, <1>6, <1>7, <1>8, <1>9, <1>10, Zenon

\* Setting the bit changes nothing else.
LEMMA FutexMarked ==
    \A w \in Futex!Polls \ {Futex!Free} : /\ [w EXCEPT !.bit = TRUE] \in Futex!Polls
                                          /\ [w EXCEPT !.bit = TRUE] # Futex!Free
                                          /\ [w EXCEPT !.bit = TRUE].owner = w.owner
                                          /\ [w EXCEPT !.bit = TRUE].bit = TRUE
  <1>1. \A t \in Threads : t # None
    BY NoneAssumption
  <1> SUFFICES ASSUME NEW w \in [owner : Threads, bit : BOOLEAN]
               PROVE  /\ [w EXCEPT !.bit = TRUE] \in Futex!Polls
                      /\ [w EXCEPT !.bit = TRUE] # Futex!Free
                      /\ [w EXCEPT !.bit = TRUE].owner = w.owner
                      /\ [w EXCEPT !.bit = TRUE].bit = TRUE
    BY DEF Futex!Polls
  <1>2. [w EXCEPT !.bit = TRUE] \in [owner : Threads, bit : BOOLEAN]
    OBVIOUS
  <1>3. [w EXCEPT !.bit = TRUE].owner = w.owner /\ [w EXCEPT !.bit = TRUE].bit = TRUE
    OBVIOUS
  <1> QED
    BY <1>1, <1>2, <1>3 DEF Futex!Polls, Futex!Free

\* A thread gets the lock.
LEMMA FutexTake ==
    ASSUME NEW t \in Threads, \E b \in BOOLEAN : Futex!Take(t, b)
    PROVE  /\ poll = Futex!Free /\ poll' \in Futex!Polls \ {Futex!Free}
           /\ poll'.owner = t /\ futex_depth' = 1
  <1>0. PICK b \in BOOLEAN : Futex!Take(t, b)
    OBVIOUS
  <1>1. poll = Futex!Free /\ poll' = [owner |-> t, bit |-> b] /\ futex_depth' = 1
    BY <1>0 DEF Futex!Take
  <1> QED
    BY <1>1, FutexPolls, Zenon

\* A step of a futex lock keeps who has it.
LEMMA FutexWordNext == ASSUME FutexWord, Futex!Next PROVE FutexWord'
  <1> USE NoneAssumption, BoundsAssumption, FutexPolls, FutexMarked DEF FutexWord, Futex!TypeOK, Futex!Go
  <1>1. PICK t \in Threads : \/ Futex!Nest(t) \/ Futex!Set(t) \/ Futex!Test(t) \/ Futex!Step(t)
                             \/ Futex!Interrupt(t) \/ Futex!Unset(t)
    BY DEF Futex!Next
  <1>2. CASE Futex!Nest(t) \/ Futex!Set(t)
    BY <1>2 DEF Futex!Nest, Futex!Set
  <1>3. CASE Futex!Test(t)
    <2>1. poll = Futex!Free /\ poll' \in Futex!Polls \ {Futex!Free} /\ poll'.owner = t
      BY <1>3, FutexTake, Zenon DEF Futex!Test
    <2>2. futex_depth' = 1
      BY <1>3 DEF Futex!Test, Futex!Take
    <2> QED
      BY <1>3, <2>1, <2>2 DEF Futex!Test
  <1>4. CASE Futex!Try(t)
    <2>1. bit[t] \in BOOLEAN /\ [bit EXCEPT ![t] = FALSE] \in [Threads -> BOOLEAN]
      BY Zenon
    <2>2. CASE Futex!Take(t, bit[t])
      <3>0. \E b \in BOOLEAN : Futex!Take(t, b)
        <4> HIDE NoneAssumption, BoundsAssumption, FutexPolls, FutexMarked DEF FutexWord, Futex!TypeOK, Futex!Go
        <4>1. bit[t] \in BOOLEAN
          BY <2>1
        <4> WITNESS bit[t] \in BOOLEAN
        <4> QED
          BY <2>2
      <3>1. poll = Futex!Free /\ poll' \in Futex!Polls \ {Futex!Free} /\ poll'.owner = t
        BY <3>0, FutexTake, Zenon
      <3>2. futex_depth' = 1
        BY <2>2 DEF Futex!Take
      <3>3. /\ futex_pc' = [futex_pc EXCEPT ![t] = "program"] /\ bit' = [bit EXCEPT ![t] = FALSE]
            /\ UNCHANGED <<asleep, poll_val>> /\ futex_pc[t] = "try"
        BY <1>4, <3>1 DEF Futex!Try
      <3>4. Futex!TypeOK'
        BY <2>1, <3>1, <3>2, <3>3
      <3> QED
        BY <3>1, <3>2, <3>3, <3>4
    <2>3. CASE ~Futex!Take(t, bit[t])
      BY <1>4, <2>3 DEF Futex!Try
    <2> QED
      BY <2>2, <2>3
  <1>5. CASE Futex!Mark(t)
    <2>1. CASE poll = poll_val[t]
      <3>1. futex_pc[t] = "mark" /\ poll # Futex!Free
        BY <1>5, <2>1 DEF Futex!Mark
      <3>2. poll' \in Futex!Polls \ {Futex!Free} /\ poll'.owner = poll.owner /\ poll'.bit
        <4>1. poll' = [poll EXCEPT !.bit = TRUE]
          BY <1>5, <2>1 DEF Futex!Mark
        <4> QED
          BY <3>1, <4>1
      <3>3. futex_pc' = [futex_pc EXCEPT ![t] = "wait"] /\ poll_val' = [poll_val EXCEPT ![t] = poll']
            /\ UNCHANGED <<futex_depth, asleep, bit>>
        BY <1>5, <2>1 DEF Futex!Mark
      <3>4. Futex!TypeOK'
        BY <3>1, <3>2, <3>3
      <3>5. \A u \in Threads : /\ futex_pc'[u] = "mark" => poll_val'[u] # Futex!Free
                              /\ futex_pc'[u] = "wait" => poll_val'[u].bit
        BY <3>1, <3>2, <3>3
      <3> QED
        BY <3>1, <3>2, <3>3, <3>4, <3>5
    <2>2. CASE poll # poll_val[t]
      BY <1>5, <2>2 DEF Futex!Mark, Futex!Forget
    <2> QED
      BY <2>1, <2>2
  <1>6. CASE Futex!Wait(t)
    BY <1>6 DEF Futex!Wait, Futex!Forget
  <1>7. CASE Futex!Resume(t) \/ Futex!Interrupt(t)
    <2>1. [bit EXCEPT ![t] = TRUE] \in [Threads -> BOOLEAN]
      BY Zenon
    <2>2. bit' \in [Threads -> BOOLEAN]
      BY <1>7, <2>1, Zenon DEF Futex!Resume, Futex!Interrupt
    <2>3. /\ UNCHANGED <<poll, futex_depth, poll_val>> /\ futex_pc[t] = "asleep"
          /\ futex_pc' = [futex_pc EXCEPT ![t] = "try"]
          /\ asleep' = asleep \ {t}
      BY <1>7 DEF Futex!Resume, Futex!Interrupt
    <2>4. Futex!TypeOK'
      BY <2>2, <2>3
    <2> QED
      BY <2>3, <2>4
  <1>8. CASE Futex!Wake(t)
    BY <1>8 DEF Futex!Wake
  <1>9. CASE Futex!Unset(t)
    BY <1>9 DEF Futex!Unset
  <1> QED
    BY <1>1, <1>2, <1>3, <1>4, <1>5, <1>6, <1>7, <1>8, <1>9 DEF Futex!Step

\* A step of a futex lock leaves no sleeping thread that nobody knows.
LEMMA FutexSleepersNext ==
    ASSUME FutexWord, Futex!SleepersAreKnown, Futex!Next PROVE Futex!SleepersAreKnown'
  <1> USE NoneAssumption, BoundsAssumption, FutexPolls, FutexMarked
      DEF FutexWord, Futex!TypeOK, Futex!Go, Futex!SleepersAreKnown
  <1>1. PICK t \in Threads : \/ Futex!Nest(t) \/ Futex!Set(t) \/ Futex!Test(t) \/ Futex!Step(t)
                             \/ Futex!Interrupt(t) \/ Futex!Unset(t)
    BY DEF Futex!Next
  <1>2. CASE Futex!Nest(t) \/ Futex!Set(t)
    BY <1>2 DEF Futex!Nest, Futex!Set
  <1>3. CASE Futex!Test(t)
    BY <1>3 DEF Futex!Test, Futex!Take
  <1>4. CASE Futex!Try(t)
    BY <1>4 DEF Futex!Try, Futex!Take
  <1>5. CASE Futex!Mark(t)
    <2>1. CASE poll = poll_val[t]
      <3>1. poll \in Futex!Polls \ {Futex!Free}
        BY <1>5, <2>1 DEF Futex!Mark
      <3>2. poll' = [poll EXCEPT !.bit = TRUE]
        BY <1>5, <2>1 DEF Futex!Mark
      <3>3. poll'.bit
        BY <3>1, <3>2, FutexMarked
      <3> QED
        BY <3>3
    <2>2. CASE poll # poll_val[t]
      BY <1>5, <2>2 DEF Futex!Mark, Futex!Forget
    <2> QED
      BY <2>1, <2>2
  <1>6. CASE Futex!Wait(t)
    BY <1>6 DEF Futex!Wait, Futex!Forget
  <1>7. CASE Futex!Resume(t) \/ Futex!Interrupt(t)
    BY <1>7 DEF Futex!Resume, Futex!Interrupt
  <1>8. CASE Futex!Wake(t)
    BY <1>8 DEF Futex!Wake
  <1>9. CASE Futex!Unset(t)
    BY <1>9 DEF Futex!Unset
  <1> QED
    BY <1>1, <1>2, <1>3, <1>4, <1>5, <1>6, <1>7, <1>8, <1>9 DEF Futex!Step

\* A step of a futex lock keeps its invariant.
LEMMA FutexNext == ASSUME Futex!Inv, Futex!Next PROVE Futex!Inv'
  BY FutexParts, FutexWordNext, FutexSleepersNext DEF Futex!Inv, FutexWord

\* A step of a futex lock is a step of a mutex.
LEMMA FutexOwned == ASSUME Futex!Inv, Futex!Next PROVE [Futex!Owned!Next]_FutexHolds
  <1> USE NoneAssumption, BoundsAssumption
      DEF FutexHolds, Futex!Owned!Acquire, Futex!Owned!Release
  <1>0. /\ Futex!TypeOK /\ poll \in Futex!Polls /\ futex_depth \in 0 .. MaxDepth
        /\ poll = Futex!Free <=> futex_depth = 0
        /\ poll = Futex!Free => poll.owner = None
        /\ \A u \in Threads : futex_pc[u] = "mark" => poll_val[u] # Futex!Free
    BY FutexParts, FutexPolls DEF FutexWord, Futex!TypeOK
  <1>1. PICK t \in Threads : \/ Futex!Nest(t) \/ Futex!Set(t) \/ Futex!Test(t) \/ Futex!Step(t)
                             \/ Futex!Interrupt(t) \/ Futex!Unset(t)
    BY DEF Futex!Next
  <1>2. ASSUME NEW b \in BOOLEAN, Futex!Take(t, b) PROVE Futex!Owned!Acquire(t)
    <2>1. poll.owner = None /\ poll'.owner = t /\ futex_depth = 0 /\ futex_depth' = 1
      BY <1>0, <1>2, FutexTake
    <2> QED
      BY <2>1
  <1>3. CASE Futex!Nest(t)
    <2>1. /\ poll.owner = t /\ UNCHANGED poll
          /\ futex_depth < MaxDepth /\ futex_depth' = futex_depth + 1
      BY <1>3 DEF Futex!Nest
    <2>2. Futex!Owned!Acquire(t)
      BY <1>0, <2>1
    <2> QED
      BY <2>2 DEF Futex!Owned!Next
  <1>4. CASE Futex!Set(t) \/ Futex!Wait(t) \/ Futex!Wake(t) \/ Futex!Resume(t) \/ Futex!Interrupt(t)
    BY <1>4 DEF Futex!Set, Futex!Wait, Futex!Wake, Futex!Resume, Futex!Interrupt
  <1>5. CASE \E b \in BOOLEAN : Futex!Take(t, b)
    BY <1>2, <1>5 DEF Futex!Owned!Next
  <1>6. CASE Futex!Test(t)
    BY <1>5, <1>6 DEF Futex!Test
  <1>7. CASE Futex!Try(t)
    <2>1. bit[t] \in BOOLEAN
      BY <1>0, Zenon DEF Futex!TypeOK
    <2>2. Futex!Take(t, bit[t]) \/ UNCHANGED <<poll, futex_depth>>
      BY <1>7 DEF Futex!Try
    <2> QED
      BY <1>5, <2>1, <2>2
  <1>8. CASE Futex!Mark(t)
    <2>1. poll'.owner = poll.owner /\ UNCHANGED futex_depth
      <3>1. CASE poll = poll_val[t]
        <4>1. poll \in Futex!Polls \ {Futex!Free} /\ poll' = [poll EXCEPT !.bit = TRUE]
          BY <1>0, <1>8, <3>1 DEF Futex!Mark, Futex!Go
        <4> QED
          BY <1>8, <4>1, FutexMarked DEF Futex!Mark
      <3>2. CASE poll # poll_val[t]
        BY <1>8, <3>2 DEF Futex!Mark
      <3> QED
        BY <3>1, <3>2
    <2> QED
      BY <2>1
  <1>9. CASE Futex!Unset(t)
    <2>1. poll.owner = t /\ futex_depth > 0 /\ futex_depth' = futex_depth - 1
      BY <1>0, <1>9 DEF Futex!Unset
    <2>2. IF futex_depth > 1 THEN poll'.owner = t ELSE poll'.owner = None
      BY <1>9, <2>1, FutexPolls DEF Futex!Unset
    <2>3. \A u \in Threads : FutexHolds'[u] = IF u = t THEN FutexHolds[t] - 1 ELSE FutexHolds[u]
      BY <1>0, <2>1, <2>2
    <2>4. FutexHolds' = [FutexHolds EXCEPT ![t] = @ - 1] /\ FutexHolds[t] > 0
      BY <1>0, <2>1, <2>3
    <2> QED
      BY <2>4 DEF Futex!Owned!Next
  <1> QED
    BY <1>1, <1>3, <1>4, <1>6, <1>7, <1>8, <1>9 DEF Futex!Step

-----------------------------------------------------------------------------
(* Ticket locks.                                                           *)

\* The part of the invariant of a ticket lock that counts nothing: the tickets that are
\* out are each with one thread.
TicketLine ==
    /\ Ticket!TypeOK
    /\ {my_ticket[t] : t \in Ticket!Active} = ticket_serving .. ticket_next - 1
    /\ \A t, u \in Ticket!Active : my_ticket[t] = my_ticket[u] => t = u
    /\ \A t \in Threads : Ticket!Inside(t) => my_ticket[t] = ticket_serving
    /\ ticket_owner # None => ticket_pc[ticket_owner] = "program" /\ ticket_depth > 0
    /\ \A t \in Threads :
         /\ ticket_pc[t] \in {"test_serving", "test_cas"} => my_ticket[t] \in 0 .. MaxTicket - 1
         /\ ticket_pc[t] = "test_cas" => my_ticket[t] <= ticket_serving
    /\ ticket_serving <= ticket_next

\* The Cardinality of that module is that of FiniteSets.
LEMMA TicketCardinality == \A S : Ticket!Cardinality(S) = Cardinality(S)
  BY DEF Ticket!Cardinality, Cardinality

\* It is all that the invariant says.
LEMMA TicketCount == TicketLine => Ticket!Inv
  <1> SUFFICES ASSUME TicketLine PROVE Ticket!Inv
    OBVIOUS
  <1> DEFINE A == Ticket!Active
             S == ticket_serving .. ticket_next - 1
             f == [t \in A |-> my_ticket[t]]
  <1>1. f \in Bijection(A, S)
    <2>1. f \in [A -> S] /\ \A s \in S : \E t \in A : f[t] = s
      BY DEF TicketLine
    <2>2. \A t, u \in A : f[t] = f[u] => t = u
      BY DEF TicketLine
    <2> QED
      BY <2>1, <2>2 DEF Bijection, Injection, Surjection, IsInjective
  <1>2. IsFiniteSet(A)
    BY ThreadsAssumption, FS_Subset DEF Ticket!Active
  <1>3. Cardinality(S) = Cardinality(A)
    BY <1>1, <1>2, FS_Bijection DEF ExistsBijection
  <1>4. ticket_serving \in Nat /\ ticket_next \in Nat /\ ticket_serving <= ticket_next
    BY BoundsAssumption DEF TicketLine, Ticket!TypeOK
  <1>5. Cardinality(S) = ticket_next - ticket_serving
    <2>1. Cardinality(S) = IF ticket_serving > ticket_next - 1 THEN 0
                           ELSE ticket_next - 1 - ticket_serving + 1
      BY <1>4, FS_Interval
    <2> QED
      BY <1>4, <2>1
  <1>6. Cardinality(Ticket!Active) = ticket_next - ticket_serving
    BY <1>3, <1>5
  <1> QED
    <2>1. Ticket!TypeOK
      BY DEF TicketLine
    <2>2. {my_ticket[t] : t \in Ticket!Active} = ticket_serving .. ticket_next - 1
      BY DEF TicketLine
    <2>3. \A t \in Threads : Ticket!Inside(t) => my_ticket[t] = ticket_serving
      BY DEF TicketLine
    <2>4. ticket_owner # None => ticket_pc[ticket_owner] = "program" /\ ticket_depth > 0
      BY DEF TicketLine
    <2>5. \A t \in Threads :
            /\ ticket_pc[t] \in {"test_serving", "test_cas"} => my_ticket[t] \in 0 .. MaxTicket - 1
            /\ ticket_pc[t] = "test_cas" => my_ticket[t] <= ticket_serving
      BY DEF TicketLine
    <2> QED
      BY <1>6, <2>1, <2>2, <2>3, <2>4, <2>5, TicketCardinality DEF Ticket!Inv

\* An unused ticket lock has no line.
LEMMA TicketInit == Ticket!Init => TicketLine
  <1> SUFFICES ASSUME Ticket!Init PROVE TicketLine
    OBVIOUS
  <1>1. Ticket!Active = {}
    BY NoneAssumption DEF Ticket!Init, Ticket!Fresh, Ticket!Active, Ticket!Inside
  <1> QED
    BY <1>1, NoneAssumption, BoundsAssumption
    DEF Ticket!Init, Ticket!Fresh, TicketLine, Ticket!TypeOK, Ticket!Inside

\* A thread that gets the next ticket is added to the line.
LEMMA TicketJoin ==
    ASSUME TicketLine, NEW t \in Threads \ Ticket!Active, Ticket!TypeOK',
           Ticket!Active' = Ticket!Active \cup {t}, ticket_next' = ticket_next + 1,
           UNCHANGED ticket_serving, my_ticket'[t] = ticket_next,
           \A u \in Ticket!Active : my_ticket'[u] = my_ticket[u]
    PROVE  /\ {my_ticket'[u] : u \in Ticket!Active'} = ticket_serving' .. ticket_next' - 1
           /\ \A u, v \in Ticket!Active' : my_ticket'[u] = my_ticket'[v] => u = v
           /\ ticket_serving' <= ticket_next'
  <1>1. ticket_serving \in Nat /\ ticket_next \in Nat /\ ticket_serving <= ticket_next
    BY BoundsAssumption DEF TicketLine, Ticket!TypeOK
  <1>2. \A u \in Ticket!Active : my_ticket[u] \in ticket_serving .. ticket_next - 1
    BY DEF TicketLine
  <1>3. \A s \in ticket_serving .. ticket_next - 1 : \E u \in Ticket!Active : my_ticket[u] = s
    BY DEF TicketLine
  <1>4. \A u, v \in Ticket!Active : my_ticket[u] = my_ticket[v] => u = v
    BY DEF TicketLine
  <1> HIDE DEF TicketLine
  <1>5. \A s \in ticket_serving' .. ticket_next' - 1 : \E u \in Ticket!Active' : my_ticket'[u] = s
    BY <1>1, <1>3
  <1>6. \A u \in Ticket!Active' : my_ticket'[u] \in ticket_serving' .. ticket_next' - 1
    BY <1>1, <1>2
  <1>7. \A u, v \in Ticket!Active' : my_ticket'[u] = my_ticket'[v] => u = v
    BY <1>1, <1>2, <1>4
  <1> QED
    BY <1>1, <1>5, <1>6, <1>7

\* A step that adds nobody to the line and takes nobody from it.
LEMMA TicketStay ==
    ASSUME TicketLine, UNCHANGED <<ticket_next, ticket_serving>>,
           Ticket!Active' = Ticket!Active,
           \A u \in Ticket!Active : my_ticket'[u] = my_ticket[u]
    PROVE  /\ {my_ticket'[u] : u \in Ticket!Active'} = ticket_serving' .. ticket_next' - 1
           /\ \A u, v \in Ticket!Active' : my_ticket'[u] = my_ticket'[v] => u = v
           /\ ticket_serving' <= ticket_next'
  BY DEF TicketLine

\* A step of a ticket lock keeps the line.
LEMMA TicketNext == ASSUME TicketLine, Ticket!Next PROVE TicketLine'
  <1> USE NoneAssumption, BoundsAssumption DEF Ticket!TypeOK
  <1>0. Ticket!TypeOK /\ ticket_serving \in Nat /\ ticket_next \in Nat
    BY DEF TicketLine
  <1>1. ASSUME NEW t \in Threads, Ticket!Nest(t) PROVE TicketLine'
    <2>1. Ticket!TypeOK' /\ Ticket!Active' = Ticket!Active
      BY <1>0, <1>1 DEF Ticket!Nest, Ticket!Active, Ticket!Inside
    <2> QED
      BY <1>1, <2>1, TicketStay DEF TicketLine, Ticket!Nest, Ticket!Inside
  <1>2. ASSUME NEW t \in Threads, Ticket!TakeTicket(t) PROVE TicketLine'
    <2>1. Ticket!TypeOK' /\ t \notin Ticket!Active /\ Ticket!Active' = Ticket!Active \cup {t}
      BY <1>0, <1>2 DEF Ticket!TakeTicket, Ticket!Go, Ticket!Active, Ticket!Inside
    <2>2. my_ticket'[t] = ticket_next /\ \A u \in Ticket!Active : my_ticket'[u] = my_ticket[u]
      BY <1>0, <1>2, <2>1 DEF Ticket!TakeTicket, Ticket!Active
    <2> QED
      BY <1>0, <1>2, <2>1, <2>2, TicketJoin
      DEF TicketLine, Ticket!TakeTicket, Ticket!Go, Ticket!Inside, Ticket!Active
  <1>3. ASSUME NEW t \in Threads, Ticket!Wait(t) PROVE TicketLine'
    <2>1. Ticket!TypeOK' /\ Ticket!Active' = Ticket!Active
      BY <1>0, <1>3 DEF Ticket!Wait, Ticket!Go, Ticket!Active, Ticket!Inside
    <2> QED
      BY <1>0, <1>3, <2>1, TicketStay DEF TicketLine, Ticket!Wait, Ticket!Go, Ticket!Inside
  <1>4. ASSUME NEW t \in Threads, Ticket!Own(t) PROVE TicketLine'
    <2>1. t \in Ticket!Active /\ my_ticket[t] = ticket_serving
      BY <1>4 DEF Ticket!Own, Ticket!Go, Ticket!Active, Ticket!Inside, TicketLine
    <2>2. ticket_owner = None
      <3> SUFFICES ASSUME ticket_owner # None PROVE FALSE
        OBVIOUS
      <3>1. ticket_owner \in Ticket!Active /\ my_ticket[ticket_owner] = ticket_serving
        BY <1>0 DEF Ticket!Active, Ticket!Inside, TicketLine
      <3>2. ticket_owner = t
        BY <2>1, <3>1 DEF TicketLine
      <3> QED
        BY <1>4, <3>2 DEF TicketLine, Ticket!Own, Ticket!Go
    <2>3. Ticket!TypeOK' /\ Ticket!Active' = Ticket!Active
      BY <1>0, <1>4, <2>2 DEF Ticket!Own, Ticket!Go, Ticket!Active, Ticket!Inside
    <2> QED
      BY <1>0, <1>4, <2>1, <2>3, TicketStay DEF TicketLine, Ticket!Own, Ticket!Go, Ticket!Inside
  <1>5. ASSUME NEW t \in Threads, Ticket!Test(t) PROVE TicketLine'
    <2>1. Ticket!TypeOK' /\ t \notin Ticket!Active /\ Ticket!Active' = Ticket!Active
      BY <1>0, <1>5 DEF Ticket!Test, Ticket!Go, Ticket!Active, Ticket!Inside
    <2>2. \A u \in Ticket!Active : my_ticket'[u] = my_ticket[u]
      BY <1>0, <1>5, <2>1 DEF Ticket!Test, Ticket!Active
    <2> QED
      BY <1>0, <1>5, <2>1, <2>2, TicketStay
      DEF TicketLine, Ticket!Test, Ticket!Go, Ticket!Inside, Ticket!Active
  <1>6. ASSUME NEW t \in Threads, ticket_pc[t] \in {"test_serving", "test_cas", "release"}
        PROVE  ticket_owner # t
    BY <1>6 DEF TicketLine
  <1>7. ASSUME NEW t \in Threads, ticket_pc[t] \in {"test_serving", "test_cas"},
               Ticket!Return(t, ticket_pc[t]),
               UNCHANGED <<ticket_next, ticket_serving, ticket_owner, ticket_depth>>
        PROVE  TicketLine'
    <2> USE DEF Ticket!Return, Ticket!Go
    <2>1. Ticket!TypeOK' /\ t \notin Ticket!Active /\ Ticket!Active' = Ticket!Active
      BY <1>0, <1>6, <1>7 DEF Ticket!Active, Ticket!Inside
    <2>2. \A u \in Ticket!Active : my_ticket'[u] = my_ticket[u]
      BY <1>0, <1>7, <2>1 DEF Ticket!Active
    <2> QED
      BY <1>0, <1>6, <1>7, <2>1, <2>2, TicketStay DEF TicketLine, Ticket!Inside, Ticket!Active
  <1>8. ASSUME NEW t \in Threads, Ticket!TestServing(t) PROVE TicketLine'
    <2>1. CASE ticket_serving = my_ticket[t]
      <3>1. Ticket!TypeOK' /\ t \notin Ticket!Active /\ Ticket!Active' = Ticket!Active
        BY <1>0, <1>6, <1>8, <2>1 DEF Ticket!TestServing, Ticket!Go, Ticket!Active, Ticket!Inside
      <3>2. \A u \in Ticket!Active : my_ticket'[u] = my_ticket[u]
        BY <1>8, <2>1 DEF Ticket!TestServing
      <3> QED
        BY <1>0, <1>6, <1>8, <2>1, <3>1, <3>2, TicketStay
        DEF TicketLine, Ticket!TestServing, Ticket!Go, Ticket!Inside, Ticket!Active
    <2>2. CASE ticket_serving # my_ticket[t]
      <3>1. ticket_pc[t] = "test_serving" /\ Ticket!Return(t, "test_serving")
        BY <1>8, <2>2 DEF Ticket!TestServing, Ticket!Return, Ticket!Go
      <3> QED
        BY <1>7, <1>8, <2>2, <3>1 DEF Ticket!TestServing
    <2> QED
      BY <2>1, <2>2
  <1>9. ASSUME NEW t \in Threads, Ticket!TestTake(t) PROVE TicketLine'
    <2>1. CASE ticket_next = my_ticket[t]
      <3>0. /\ ticket_owner # t /\ ticket_pc[t] = "test_cas" /\ ticket_next' = ticket_next + 1
            /\ ticket_pc' = [ticket_pc EXCEPT ![t] = "own"]
            /\ UNCHANGED <<ticket_serving, ticket_owner, ticket_depth, my_ticket>>
            /\ ticket_next < MaxTicket
        BY <1>0, <1>6, <1>9, <2>1 DEF TicketLine, Ticket!TestTake, Ticket!Go
      <3>1. Ticket!TypeOK' /\ t \notin Ticket!Active /\ Ticket!Active' = Ticket!Active \cup {t}
        BY <1>0, <2>1, <3>0 DEF Ticket!Active, Ticket!Inside
      <3>2. my_ticket[t] = ticket_serving
        BY <1>0, <2>1, <3>0 DEF TicketLine
      <3> QED
        BY <1>0, <2>1, <3>0, <3>1, <3>2, TicketJoin DEF TicketLine, Ticket!Inside
    <2>2. CASE ticket_next # my_ticket[t]
      <3>1. ticket_pc[t] = "test_cas" /\ Ticket!Return(t, "test_cas")
        BY <1>9, <2>2 DEF Ticket!TestTake, Ticket!Return, Ticket!Go
      <3> QED
        BY <1>7, <1>9, <2>2, <3>1 DEF Ticket!TestTake
    <2> QED
      BY <2>1, <2>2
  <1>10. ASSUME NEW t \in Threads, Ticket!Unset(t) PROVE TicketLine'
    <2>1. t \in Ticket!Active /\ my_ticket[t] = ticket_serving /\ ticket_depth \in Nat \ {0}
      BY <1>0, <1>10 DEF Ticket!Unset, Ticket!Active, Ticket!Inside, TicketLine
    <2>2. Ticket!TypeOK' /\ Ticket!Active' = Ticket!Active
      BY <1>0, <1>10, <2>1 DEF Ticket!Unset, Ticket!Go, Ticket!Active, Ticket!Inside
    <2> QED
      BY <1>0, <1>10, <2>1, <2>2, TicketStay DEF TicketLine, Ticket!Unset, Ticket!Go, Ticket!Inside
  <1>11. ASSUME NEW t \in Threads, Ticket!Release(t) PROVE TicketLine'
    <2>0. /\ ticket_pc[t] = "release" /\ ticket_pc' = [ticket_pc EXCEPT ![t] = "program"]
          /\ my_ticket' = [my_ticket EXCEPT ![t] = None] /\ ticket_serving' = ticket_serving + 1
          /\ UNCHANGED <<ticket_next, ticket_owner, ticket_depth>>
      BY <1>11 DEF Ticket!Release, Ticket!Return, Ticket!Go
    <2>1. t \in Ticket!Active /\ my_ticket[t] = ticket_serving /\ ticket_owner # t
      BY <2>0, <1>6 DEF Ticket!Active, Ticket!Inside, TicketLine
    <2>2. \A u \in Ticket!Active : my_ticket[u] \in ticket_serving .. ticket_next - 1
      BY DEF TicketLine
    <2>3. ticket_serving < ticket_next
      BY <1>0, <2>1, <2>2
    <2>4. Ticket!TypeOK' /\ Ticket!Active' = Ticket!Active \ {t}
      BY <1>0, <2>0, <2>1, <2>3 DEF Ticket!Active, Ticket!Inside
    <2>5. \A u \in Ticket!Active \ {t} : my_ticket'[u] = my_ticket[u] /\ my_ticket[u] # ticket_serving
      BY <1>0, <2>0, <2>1 DEF TicketLine, Ticket!Active
    <2>6. \A s \in ticket_serving .. ticket_next - 1 : \E u \in Ticket!Active : my_ticket[u] = s
      BY DEF TicketLine
    <2>7. {my_ticket'[u] : u \in Ticket!Active'} = ticket_serving' .. ticket_next' - 1
      <3>1. \A u \in Ticket!Active' : my_ticket'[u] \in ticket_serving' .. ticket_next' - 1
        BY <1>0, <2>0, <2>2, <2>4, <2>5
      <3>2. \A s \in ticket_serving' .. ticket_next' - 1 : \E u \in Ticket!Active' : my_ticket'[u] = s
        BY <1>0, <2>0, <2>1, <2>4, <2>5, <2>6
      <3> QED
        BY <3>1, <3>2
    <2>8. \A u \in Threads : ~Ticket!Inside(u)'
      <3>1. \A u \in Threads : Ticket!Inside(u) => u = t
        BY <2>1 DEF TicketLine, Ticket!Active
      <3> QED
        BY <1>0, <2>0, <2>1, <3>1 DEF Ticket!Inside
    <2>9. \A u, v \in Ticket!Active' : my_ticket'[u] = my_ticket'[v] => u = v
      BY <2>4, <2>5 DEF TicketLine
    <2>10. \A u \in Threads :
            /\ ticket_pc'[u] \in {"test_serving", "test_cas"} => my_ticket'[u] \in 0 .. MaxTicket - 1
            /\ ticket_pc'[u] = "test_cas" => my_ticket'[u] <= ticket_serving'
      BY <1>0, <2>0 DEF TicketLine
    <2>11. ticket_owner = None
      BY <1>0, <2>1, <2>8, <2>0 DEF Ticket!Inside
    <2>12. ticket_serving' <= ticket_next'
      BY <1>0, <2>0, <2>3
    <2> QED
      BY <2>0, <2>4, <2>7, <2>8, <2>9, <2>10, <2>11, <2>12 DEF TicketLine
  <1>12. ASSUME Ticket!Recreate PROVE TicketLine'
    <2>1. Ticket!TypeOK' /\ Ticket!Active' = {}
      BY <1>0, <1>12 DEF Ticket!Recreate, Ticket!Fresh, Ticket!Active, Ticket!Inside
    <2> QED
      BY <1>0, <1>12, <2>1 DEF Ticket!Recreate, Ticket!Fresh, TicketLine, Ticket!Inside
  <1> QED
    BY <1>1, <1>2, <1>3, <1>4, <1>5, <1>8, <1>9, <1>10, <1>11, <1>12 DEF Ticket!Next, Ticket!Step

\* The threads that wait for a ticket lock, or have it, in the order of their tickets.
TicketOrder == [i \in 1 .. ticket_next - ticket_serving |->
                   CHOOSE t \in Ticket!Active : my_ticket[t] = ticket_serving + i - 1]
TicketInside == \E t \in Threads : Ticket!Inside(t)

\* These are steps of the fair lock: a thread joins the line,
LEMMA TicketJoinLine ==
    ASSUME NEW t \in Threads, TicketOrder' = Append(TicketOrder, t), TicketInside' = TicketInside
    PROVE  Ticket!Fifo!Join(t, 1)
  <1>1. <<TicketOrder>>' = [<<TicketOrder>> EXCEPT ![1] = Append(@, t)]
    OBVIOUS
  <1>2. UNCHANGED <<TicketInside>>
    OBVIOUS
  <1> QED
    BY <1>1, <1>2, Zenon DEF Ticket!Fifo!Join, TicketOrder, TicketInside

\* a thread gets a lock that nobody waits for at once,
LEMMA TicketJoinEmpty ==
    ASSUME NEW t \in Threads, TicketOrder' = Append(TicketOrder, t), TicketOrder = << >>, TicketInside'
    PROVE  Ticket!Fifo!Join(t, 1)
  <1>1. <<TicketOrder>>' = [<<TicketOrder>> EXCEPT ![1] = Append(@, t)]
    OBVIOUS
  <1>2. TicketInside' = TRUE
    BY Zenon
  <1>3. <<TicketInside>>' = [<<TicketInside>> EXCEPT ![1] = TRUE]
    BY <1>2, OneLine, Zenon
  <1>4. <<TicketOrder>>[1] = << >>
    OBVIOUS
  <1> QED
    BY <1>1, <1>3, <1>4, Zenon DEF Ticket!Fifo!Join, TicketOrder, TicketInside

\* the first of the line leaves it,
LEMMA TicketLeaveLine ==
    ASSUME TicketOrder' = Tail(TicketOrder), TicketInside, ~TicketInside'
    PROVE  Ticket!Fifo!Leave(1)
  <1>1. <<TicketOrder>>' = [<<TicketOrder>> EXCEPT ![1] = Tail(@)]
    OBVIOUS
  <1>2. TicketInside' = FALSE
    OBVIOUS
  <1>3. <<TicketInside>>' = [<<TicketInside>> EXCEPT ![1] = FALSE]
    BY <1>2, OneLine, Zenon
  <1>4. <<TicketInside>>[1]
    OBVIOUS
  <1> QED
    BY <1>1, <1>3, <1>4, Zenon DEF Ticket!Fifo!Leave, TicketOrder, TicketInside

\* the first of the line gets the lock.
LEMMA TicketEnterLine ==
    ASSUME TicketOrder' = TicketOrder, TicketOrder # << >>, TicketInside'
    PROVE  Ticket!Fifo!Enter(1)
  <1>1. <<TicketOrder>>' = <<TicketOrder>>
    OBVIOUS
  <1>2. TicketInside' = TRUE
    BY Zenon
  <1>3. <<TicketInside>>' = [<<TicketInside>> EXCEPT ![1] = TRUE]
    BY <1>2, OneLine, Zenon
  <1>4. <<TicketOrder>>[1] # << >>
    OBVIOUS
  <1> QED
    BY <1>1, <1>3, <1>4, Zenon DEF Ticket!Fifo!Enter, TicketOrder, TicketInside

\* All of them are.
LEMMA TicketFifoNext ==
    ASSUME \/ Ticket!Fifo!Enter(1) \/ Ticket!Fifo!Leave(1)
           \/ \E t \in Threads : Ticket!Fifo!Join(t, 1)
    PROVE  Ticket!Fifo!Next
  BY DEF Ticket!Fifo!Next

\* The threads in line, each with its ticket.
LEMMA TicketOrderIsLine ==
    TicketLine => IsLine(TicketOrder, Ticket!Active, [t \in Ticket!Active |-> my_ticket[t]],
                         ticket_serving, ticket_next - ticket_serving)
  <1> SUFFICES ASSUME TicketLine
               PROVE  IsLine(TicketOrder, Ticket!Active, [t \in Ticket!Active |-> my_ticket[t]],
                             ticket_serving, ticket_next - ticket_serving)
    OBVIOUS
  <1>1. ticket_serving \in Nat /\ ticket_next \in Nat /\ ticket_serving <= ticket_next
    BY BoundsAssumption DEF TicketLine, Ticket!TypeOK
  <1>2. \A s \in ticket_serving .. ticket_next - 1 : \E u \in Ticket!Active : my_ticket[u] = s
    BY DEF TicketLine
  <1>3. ASSUME NEW i \in 1 .. ticket_next - ticket_serving
        PROVE  TicketOrder[i] \in Ticket!Active /\ my_ticket[TicketOrder[i]] = ticket_serving + i - 1
    <2>1. \E u \in Ticket!Active : my_ticket[u] = ticket_serving + i - 1
      <3>1. ticket_serving + i - 1 \in ticket_serving .. ticket_next - 1
        BY <1>1
      <3> QED
        BY <1>2, <3>1
    <2>2. TicketOrder[i] = CHOOSE u \in Ticket!Active : my_ticket[u] = ticket_serving + i - 1
      BY DEF TicketOrder
    <2> QED
      BY <2>1, <2>2
  <1>4. \A t \in Ticket!Active : my_ticket[t] \in Int
    BY <1>1 DEF TicketLine
  <1>5. TicketOrder \in [1 .. ticket_next - ticket_serving -> Ticket!Active]
    BY <1>3 DEF TicketOrder
  <1>6. \A t, u \in Ticket!Active : my_ticket[t] = my_ticket[u] => t = u
    BY DEF TicketLine
  <1> QED
    BY <1>3, <1>4, <1>5, <1>6 DEF IsLine

\* The same after a step.
LEMMA TicketOrderIsLineNext ==
    TicketLine' => IsLine(TicketOrder, Ticket!Active, [t \in Ticket!Active |-> my_ticket[t]],
                          ticket_serving, ticket_next - ticket_serving)'
  BY TicketOrderIsLine, PTL

\* Where no ticket is given out and none is served, nobody joins the line or leaves it.
LEMMA TicketOrderStays ==
    ASSUME TicketLine, TicketLine', UNCHANGED <<ticket_next, ticket_serving>>,
           Ticket!Active' = Ticket!Active, \A u \in Ticket!Active : my_ticket'[u] = my_ticket[u]
    PROVE  TicketOrder' = TicketOrder
  <1> DEFINE f == [t \in Ticket!Active |-> my_ticket[t]]
             n == ticket_next - ticket_serving
  <1>1. IsLine(TicketOrder, Ticket!Active, f, ticket_serving, n)
    BY TicketOrderIsLine
  <1>2. IsLine(TicketOrder, Ticket!Active, f, ticket_serving, n)'
    BY TicketOrderIsLineNext
  <1>3. n \in Nat /\ ticket_serving \in Int /\ n' = n
    BY BoundsAssumption DEF TicketLine, Ticket!TypeOK
  <1>4. f' = f
    OBVIOUS
  <1>5. IsLine(TicketOrder', Ticket!Active, f', ticket_serving, n)
    BY <1>2, <1>3
  <1> HIDE DEF f, n
  <1> QED
    BY <1>1, <1>3, <1>4, <1>5, LineStay

\* A thread that gets the next ticket is the last of the line.
LEMMA TicketOrderGrows ==
    ASSUME TicketLine, TicketLine', NEW t \in Threads, t \notin Ticket!Active,
           Ticket!Active' = Ticket!Active \cup {t}, ticket_next' = ticket_next + 1,
           UNCHANGED ticket_serving, my_ticket'[t] = ticket_next,
           \A u \in Ticket!Active : my_ticket'[u] = my_ticket[u]
    PROVE  TicketOrder' = Append(TicketOrder, t)
  <1> DEFINE f == [u \in Ticket!Active |-> my_ticket[u]]
             g == [u \in Ticket!Active' |-> my_ticket'[u]]
             n == ticket_next - ticket_serving
             m == ticket_next' - ticket_serving
  <1>1. /\ IsLine(TicketOrder, Ticket!Active, f, ticket_serving, n)
        /\ IsLine(TicketOrder', Ticket!Active', g, ticket_serving, m)
    BY TicketOrderIsLine, TicketOrderIsLineNext
  <1>2. ticket_next \in Nat /\ ticket_serving \in Nat /\ ticket_serving <= ticket_next
    BY BoundsAssumption DEF TicketLine, Ticket!TypeOK
  <1>3. Joins(t, Ticket!Active, Ticket!Active', f, g, ticket_serving, n, m)
    BY <1>2 DEF Joins
  <1> HIDE DEF f, g, n, m
  <1> QED
    BY <1>1, <1>3, LineJoin

\* The thread whose ticket was served is the first of the line.
LEMMA TicketOrderShrinks ==
    ASSUME TicketLine, TicketLine', NEW t \in Ticket!Active,
           Ticket!Active' = Ticket!Active \ {t}, ticket_serving' = ticket_serving + 1,
           UNCHANGED ticket_next, my_ticket[t] = ticket_serving,
           \A u \in Ticket!Active \ {t} : my_ticket'[u] = my_ticket[u]
    PROVE  TicketOrder' = Tail(TicketOrder)
  <1> DEFINE f == [u \in Ticket!Active |-> my_ticket[u]]
             g == [u \in Ticket!Active' |-> my_ticket'[u]]
             n == ticket_next - ticket_serving
             c == ticket_serving'
             m == ticket_next' - c
  <1>1. /\ IsLine(TicketOrder, Ticket!Active, f, ticket_serving, n)
        /\ IsLine(TicketOrder', Ticket!Active', g, c, m)
    BY TicketOrderIsLine, TicketOrderIsLineNext
  <1>2. /\ ticket_next \in Nat /\ ticket_serving \in Nat
        /\ my_ticket[t] \in ticket_serving .. ticket_next - 1
    BY BoundsAssumption DEF TicketLine, Ticket!TypeOK
  <1>3. Leaves(t, Ticket!Active, Ticket!Active', f, g, ticket_serving, c, n, m)
    BY <1>2 DEF Leaves
  <1> HIDE DEF f, g, n, c, m
  <1> QED
    BY <1>1, <1>3, LineLeave

\* The line is empty if no ticket is out.
LEMMA TicketOrderEmpty ==
    ASSUME TicketLine PROVE (TicketOrder = << >>) <=> (ticket_next = ticket_serving)
  <1>1. ticket_next - ticket_serving \in Nat
    BY BoundsAssumption DEF TicketLine, Ticket!TypeOK
  <1>2. TicketOrder \in Seq(Ticket!Active) /\ Len(TicketOrder) = ticket_next - ticket_serving
    BY <1>1, TicketOrderIsLine DEF IsLine
  <1> QED
    BY <1>1, <1>2 DEF TicketLine, Ticket!TypeOK

\* A step of a ticket lock is a step of a fair lock.
LEMMA TicketFifo ==
    ASSUME TicketLine, Ticket!Next PROVE [Ticket!Fifo!Next]_<<<<TicketOrder>>, <<TicketInside>>>>
  <1> USE NoneAssumption, BoundsAssumption DEF Ticket!Go, Ticket!Return
  <1>0. TicketLine' /\ Ticket!TypeOK /\ Ticket!TypeOK'
    BY TicketNext DEF TicketLine
  <1>1. ASSUME TicketOrder' = TicketOrder, TicketInside' = TicketInside
        PROVE  UNCHANGED <<<<TicketOrder>>, <<TicketInside>>>>
    BY <1>1
  <1>2. ASSUME NEW t \in Threads, Ticket!Nest(t) PROVE UNCHANGED <<TicketOrder, TicketInside>>
    BY <1>2 DEF Ticket!Nest, TicketOrder, TicketInside, Ticket!Active, Ticket!Inside
  <1>3. ASSUME NEW t \in Threads, Ticket!TakeTicket(t) PROVE Ticket!Fifo!Join(t, 1)
    <2>1. t \notin Ticket!Active /\ Ticket!Active' = Ticket!Active \cup {t}
      BY <1>0, <1>3 DEF Ticket!TypeOK, Ticket!TakeTicket, Ticket!Active, Ticket!Inside
    <2>2. my_ticket'[t] = ticket_next /\ \A u \in Ticket!Active : my_ticket'[u] = my_ticket[u]
      BY <1>0, <1>3, <2>1 DEF Ticket!TypeOK, Ticket!TakeTicket, Ticket!Active
    <2>3. TicketOrder' = Append(TicketOrder, t)
      BY <1>0, <1>3, <2>1, <2>2, TicketOrderGrows DEF Ticket!TakeTicket
    <2>4. TicketInside' = TicketInside
      BY <1>0, <1>3 DEF Ticket!TypeOK, Ticket!TakeTicket, TicketInside, Ticket!Inside
    <2> QED
      BY <2>3, <2>4, TicketJoinLine
  <1>4. ASSUME NEW t \in Threads, Ticket!Wait(t) PROVE Ticket!Fifo!Enter(1)
    <2>1. t \in Ticket!Active /\ Ticket!Active' = Ticket!Active
      BY <1>0, <1>4 DEF Ticket!TypeOK, Ticket!Wait, Ticket!Active, Ticket!Inside
    <2>2. TicketOrder' = TicketOrder
      BY <1>0, <1>4, <2>1, TicketOrderStays DEF Ticket!Wait
    <2>3. my_ticket[t] \in ticket_serving .. ticket_next - 1
      BY <2>1 DEF TicketLine
    <2>4. TicketOrder # << >>
      BY <1>0, <2>3, TicketOrderEmpty DEF Ticket!TypeOK
    <2>5. TicketInside'
      BY <1>0, <1>4 DEF Ticket!TypeOK, Ticket!Wait, TicketInside, Ticket!Inside
    <2> QED
      BY <2>2, <2>4, <2>5, TicketEnterLine
  <1>5. ASSUME NEW t \in Threads, Ticket!Own(t) PROVE UNCHANGED <<TicketOrder, TicketInside>>
    <2>1. t \in Ticket!Active /\ my_ticket[t] = ticket_serving
      BY <1>5 DEF Ticket!Own, Ticket!Active, Ticket!Inside, TicketLine
    <2>2. ticket_owner = None
      <3> SUFFICES ASSUME ticket_owner # None PROVE FALSE
        OBVIOUS
      <3>1. ticket_owner \in Ticket!Active /\ my_ticket[ticket_owner] = ticket_serving
        BY <1>0 DEF Ticket!TypeOK, Ticket!Active, Ticket!Inside, TicketLine
      <3>2. ticket_owner = t
        BY <2>1, <3>1 DEF TicketLine
      <3> QED
        BY <1>5, <3>2 DEF TicketLine, Ticket!Own
    <2>3. Ticket!Active' = Ticket!Active
      BY <1>0, <1>5, <2>2 DEF Ticket!TypeOK, Ticket!Own, Ticket!Active, Ticket!Inside
    <2>4. TicketInside /\ TicketInside'
      BY <1>0, <1>5 DEF Ticket!TypeOK, Ticket!Own, TicketInside, Ticket!Inside
    <2>5. TicketOrder' = TicketOrder
      BY <1>0, <1>5, <2>3, TicketOrderStays DEF Ticket!Own
    <2> QED
      BY <2>4, <2>5
  <1>6. ASSUME NEW t \in Threads, ticket_pc[t] \in {"test_serving", "test_cas"}
        PROVE  ticket_owner # t /\ t \notin Ticket!Active
    BY <1>6 DEF TicketLine, Ticket!Active, Ticket!Inside
  <1>7. ASSUME NEW t \in Threads,
               Ticket!Test(t) \/ Ticket!TestServing(t) \/
                   (Ticket!TestTake(t) /\ ticket_next # my_ticket[t])
        PROVE  UNCHANGED <<TicketOrder, TicketInside>>
    <2>1. /\ ticket_owner # t /\ t \notin Ticket!Active
          /\ UNCHANGED <<ticket_next, ticket_serving, ticket_owner>>
      BY <1>6, <1>7
      DEF Ticket!Test, Ticket!TestServing, Ticket!TestTake, Ticket!Active, Ticket!Inside
    <2>2. \E p \in {"program", "test_serving", "test_cas"} :
              ticket_pc' = [ticket_pc EXCEPT ![t] = p]
      BY <1>7 DEF Ticket!Test, Ticket!TestServing, Ticket!TestTake
    <2>3. \A u \in Threads : Ticket!Inside(u)' <=> Ticket!Inside(u)
      BY <1>0, <2>1, <2>2 DEF Ticket!TypeOK, Ticket!Active, Ticket!Inside
    <2>4. Ticket!Active' = Ticket!Active
      BY <1>0, <2>1, <2>2, <2>3 DEF Ticket!TypeOK, Ticket!Active
    <2>5. \A u \in Threads \ {t} : my_ticket'[u] = my_ticket[u]
      BY <1>0, <1>7 DEF Ticket!TypeOK, Ticket!Test, Ticket!TestServing, Ticket!TestTake
    <2>6. TicketOrder' = TicketOrder
      BY <1>0, <2>1, <2>4, <2>5, TicketOrderStays DEF Ticket!Active
    <2> QED
      BY <2>3, <2>6 DEF TicketInside
  <1>8. ASSUME NEW t \in Threads, Ticket!TestTake(t), ticket_next = my_ticket[t]
        PROVE  Ticket!Fifo!Join(t, 1)
    <2>1. /\ ticket_pc[t] = "test_cas" /\ ticket_pc' = [ticket_pc EXCEPT ![t] = "own"]
          /\ ticket_next' = ticket_next + 1 /\ UNCHANGED <<ticket_serving, ticket_owner, my_ticket>>
          /\ ticket_serving = ticket_next
      BY <1>0, <1>8 DEF TicketLine, Ticket!TypeOK, Ticket!TestTake
    <2>2. t \notin Ticket!Active /\ Ticket!Active' = Ticket!Active \cup {t}
      BY <1>0, <1>6, <2>1 DEF Ticket!TypeOK, Ticket!Active, Ticket!Inside
    <2>3. TicketOrder' = Append(TicketOrder, t)
      BY <1>0, <1>8, <2>1, <2>2, TicketOrderGrows
    <2>4. TicketOrder = << >>
      BY <2>1, TicketOrderEmpty
    <2>5. TicketInside'
      BY <1>0, <2>1 DEF Ticket!TypeOK, TicketInside, Ticket!Inside
    <2> QED
      BY <2>3, <2>4, <2>5, TicketJoinEmpty
  <1>9. ASSUME NEW t \in Threads, Ticket!Unset(t) PROVE UNCHANGED <<TicketOrder, TicketInside>>
    <2>1. t \in Ticket!Active /\ Ticket!Active' = Ticket!Active
      BY <1>0, <1>9 DEF Ticket!TypeOK, Ticket!Unset, Ticket!Active, Ticket!Inside
    <2>2. TicketInside /\ TicketInside'
      BY <1>0, <1>9 DEF Ticket!TypeOK, Ticket!Unset, TicketInside, Ticket!Inside
    <2>3. TicketOrder' = TicketOrder
      BY <1>0, <1>9, <2>1, TicketOrderStays DEF Ticket!Unset
    <2> QED
      BY <2>2, <2>3
  <1>10. ASSUME NEW t \in Threads, Ticket!Release(t) PROVE Ticket!Fifo!Leave(1)
    <2>0. /\ ticket_pc[t] = "release" /\ ticket_pc' = [ticket_pc EXCEPT ![t] = "program"]
          /\ my_ticket' = [my_ticket EXCEPT ![t] = None] /\ ticket_serving' = ticket_serving + 1
          /\ UNCHANGED <<ticket_next, ticket_owner>>
      BY <1>10 DEF Ticket!Release
    <2>1. t \in Ticket!Active /\ my_ticket[t] = ticket_serving /\ Ticket!Inside(t)
      BY <2>0 DEF TicketLine, Ticket!Active, Ticket!Inside
    <2>2. ticket_owner # t
      BY <2>0 DEF TicketLine
    <2>3. \A u \in Threads : Ticket!Inside(u) => u = t
      BY <2>1 DEF TicketLine, Ticket!Active
    <2>4. ~TicketInside' /\ TicketInside
      BY <1>0, <2>0, <2>1, <2>2, <2>3 DEF Ticket!TypeOK, TicketInside, Ticket!Inside
    <2>5. Ticket!Active' = Ticket!Active \ {t}
      BY <1>0, <2>0, <2>1, <2>2 DEF Ticket!TypeOK, Ticket!Active, Ticket!Inside
    <2>6. \A u \in Ticket!Active \ {t} : my_ticket'[u] = my_ticket[u]
      BY <1>0, <2>0 DEF Ticket!TypeOK, Ticket!Active
    <2>7. TicketOrder' = Tail(TicketOrder)
      BY <1>0, <2>0, <2>1, <2>5, <2>6, TicketOrderShrinks
    <2> QED
      BY <2>4, <2>7, TicketLeaveLine
  <1>11. ASSUME Ticket!Recreate PROVE UNCHANGED <<TicketOrder, TicketInside>>
    <2>1. Ticket!Active = {} /\ Ticket!Active' = {} /\ TicketInside' = TicketInside
      BY <1>0, <1>11 DEF Ticket!TypeOK, Ticket!Recreate, Ticket!Fresh, Ticket!Active, Ticket!Inside,
                         TicketInside
    <2>2. ticket_next = ticket_serving
      BY <1>0, <2>1 DEF TicketLine, Ticket!TypeOK
    <2>3. TicketOrder = << >>
      BY <2>2, TicketOrderEmpty
    <2>4. (TicketLine => (TicketOrder = << >> <=> ticket_next = ticket_serving))'
      BY TicketOrderEmpty, PTL
    <2>5. TicketOrder' = << >>
      BY <1>0, <1>11, <2>4 DEF Ticket!Recreate, Ticket!Fresh
    <2> QED
      BY <2>1, <2>3, <2>5
  <1>12. ASSUME Ticket!Fifo!Enter(1) \/ Ticket!Fifo!Leave(1) \/
                \E t \in Threads : Ticket!Fifo!Join(t, 1)
         PROVE  Ticket!Fifo!Next
    BY <1>12, TicketFifoNext
  <1> QED
    BY <1>1, <1>2, <1>3, <1>4, <1>5, <1>7, <1>8, <1>9, <1>10, <1>11, <1>12
    DEF Ticket!Next, Ticket!Step

-----------------------------------------------------------------------------
(* Queuing locks.                                                          *)

\* Where the threads are: a thread in a call has its argument, and is not the owner of
\* that lock; the owner has set it as often as depth says.
QueuingPlace ==
    /\ \A t \in Threads : pc[t] # "program" => want[t] \in Locks
    /\ \A l \in Locks : owner_id[l] # None => depth[l] > 0 /\ want[owner_id[l]] # l

\* A thread spins from the start of its call until it is given the lock.
QueuingSpin ==
    \A t \in Threads :
        /\ pc[t] \in {"head", "free", "first", "tail", "last", "link"} => spin_here[t]
        /\ pc[t] \in {"program", "own"} \cup Queuing!Releasing \cup Queuing!Waking => ~spin_here[t]

\* What the threads have in their locals.
QueuingSeen ==
    \A t \in Threads :
        /\ pc[t] = "last" => seen[t] \in Threads \ {t}
        /\ pc[t] = "link" => /\ seen[t] \in Threads /\ Queuing!Queued(seen[t], want[t])
                             /\ next_waiting[seen[t]] = None
                             /\ head[want[t]] # t
                             /\ \A u \in Threads : next_waiting[u] # t
        /\ pc[t] \in {"give_tail", "give_only", "give_next"} =>
               seen[t] \in Threads /\ seen[t] = head[want[t]]
        /\ pc[t] \in Queuing!Waking =>
               /\ seen[t] \in Threads /\ pc[seen[t]] = "spin" /\ want[seen[t]] = want[t]
               /\ spin_here[seen[t]]
               /\ pc[t] = "wake" => next_waiting[seen[t]] = None
               /\ \A u \in Threads : pc[u] \in Queuing!Waking /\ seen[u] = seen[t] => u = t

\* A thread that is linked to has set the link itself, and is still in the queue.
QueuingLinked ==
    /\ \A t \in Threads : next_waiting[t] # None =>
           /\ pc[t] \in {"link", "spin"} /\ spin_here[t]
           /\ pc[next_waiting[t]] = "spin" /\ Queuing!Queued(next_waiting[t], want[t])
    /\ \A l \in Locks : tail[l] # None => next_waiting[tail[l]] = None

\* The one thread that has a lock that is not free, or is being given it.
QueuingHolder ==
    \A l \in Locks : IF head[l] = None THEN Queuing!Holders(l) = {}
                     ELSE \E t \in Threads : Queuing!Holders(l) = {t}

QueuedOn(l) == {t \in Threads : Queuing!Queued(t, l)}

\* s is the queue of lock l, of n threads.
IsQueue(s, n, l) ==
    /\ s \in [1 .. n -> QueuedOn(l)]
    /\ \A t \in QueuedOn(l) : \E i \in 1 .. n : s[i] = t
    /\ \A i, j \in 1 .. n : s[i] = s[j] => i = j
    /\ \A i \in 1 .. n - 1 : Queuing!Follows(s[i + 1], s[i])
    /\ IF n = 0 THEN head[l] \in {None, Queuing!NoQueue} /\ tail[l] = None
                ELSE head[l] = s[1] /\ tail[l] = s[n]

QueuingLine ==
    /\ Queuing!TypeOK
    /\ QueuingPlace /\ QueuingSpin /\ QueuingSeen /\ QueuingLinked /\ QueuingHolder
    /\ \A l \in Locks : \E n \in Nat : \E s \in [1 .. n -> QueuedOn(l)] : IsQueue(s, n, l)

\* Every lock has a queue.
LEMMA QueueExists ==
    ASSUME QueuingLine, NEW l \in Locks
    PROVE  \E n \in Nat, s \in Seq(QueuedOn(l)) : IsQueue(s, n, l)
  <1>1. PICK n \in Nat : \E s \in [1 .. n -> QueuedOn(l)] : IsQueue(s, n, l)
    BY DEF QueuingLine
  <1>2. PICK s \in [1 .. n -> QueuedOn(l)] : IsQueue(s, n, l)
    BY <1>1
  <1>3. s \in Seq(QueuedOn(l))
    OBVIOUS
  <1> QED
    BY <1>2, <1>3

\* Where nothing in the words of the lock, and in what the links depend on, changes.
LEMMA QueueStays ==
    ASSUME NEW l \in Locks, NEW n \in Nat, NEW s, IsQueue(s, n, l),
           QueuedOn(l)' = QueuedOn(l), tail'[l] = tail[l],
           head'[l] = head[l] \/ {head[l], head'[l]} \subseteq {None, Queuing!NoQueue},
           \A u, v \in QueuedOn(l) : Queuing!Follows(u, v) => Queuing!Follows(u, v)'
    PROVE  IsQueue(s, n, l)'
  <1>1. CASE head'[l] = head[l]
    BY <1>1 DEF IsQueue
  <1>2. CASE {head[l], head'[l]} \subseteq {None, Queuing!NoQueue}
    <2>1. n = 0
      <3> SUFFICES ASSUME n # 0 PROVE FALSE
        OBVIOUS
      <3>1. s[1] \in QueuedOn(l) /\ head[l] = s[1]
        BY DEF IsQueue
      <3>2. head[l] \in Threads
        BY <3>1 DEF QueuedOn
      <3> QED
        BY <1>2, <3>2, NoneAssumption, ThreadsAssumption DEF Queuing!NoQueue
    <2> QED
      BY <1>2, <2>1 DEF IsQueue
  <1> QED
    BY <1>1, <1>2

\* A step of one thread t that is neither in a queue nor wakes another one, before it and
\* after it, changes no queue.
LEMMA QuietQueued ==
    ASSUME NEW t \in Threads,
           \A u \in Threads \ {t} : /\ pc'[u] = pc[u] /\ want'[u] = want[u] /\ seen'[u] = seen[u]
                                    /\ spin_here'[u] = spin_here[u],
           pc[t] \notin {"link", "spin"} \cup Queuing!Waking,
           pc'[t] \notin {"link", "spin"} \cup Queuing!Waking
    PROVE  \A u \in Threads, l \in Locks : /\ Queuing!Given(u, l)' <=> Queuing!Given(u, l)
                                           /\ Queuing!Queued(u, l)' <=> Queuing!Queued(u, l)
  <1>1. ASSUME NEW u \in Threads, NEW l \in Locks PROVE Queuing!Given(u, l)' <=> Queuing!Given(u, l)
    <2>1. \A w \in Threads : /\ pc'[w] \in Queuing!Waking <=> pc[w] \in Queuing!Waking
                             /\ pc[w] \in Queuing!Waking => seen'[w] = seen[w]
      OBVIOUS
    <2>2. CASE u = t
      BY <2>2 DEF Queuing!Given
    <2>3. CASE u # t
      BY <2>1, <2>3 DEF Queuing!Given
    <2> QED
      BY <2>2, <2>3
  <1> QED
    BY <1>1 DEF Queuing!Queued

\* Nobody joins a queue or leaves it.
QueuesStay ==
    /\ QueuingLine'
    /\ \A l \in Locks, n \in Nat : \A s : IsQueue(s, n, l) => IsQueue(s, n, l)'

\* Such a step keeps the invariant, if it keeps what it says of the thread itself.
LEMMA OutsideStep ==
    ASSUME QueuingLine, Queuing!TypeOK', NEW t \in Threads,
           UNCHANGED <<tail, next_waiting>>,
           \A l \in Locks : \/ head'[l] = head[l]
                            \/ {head[l], head'[l]} \subseteq {None, Queuing!NoQueue},
           \A u \in Threads \ {t} : /\ pc'[u] = pc[u] /\ want'[u] = want[u] /\ seen'[u] = seen[u]
                                    /\ spin_here'[u] = spin_here[u],
           pc[t] \notin {"link", "spin"} \cup Queuing!Waking,
           pc'[t] \notin {"link", "spin"} \cup Queuing!Waking,
           QueuingHolder', QueuingPlace', QueuingSpin',
           pc'[t] = "last" => seen'[t] \in Threads \ {t},
           pc'[t] \in {"give_tail", "give_only", "give_next"} =>
               seen'[t] \in Threads /\ seen'[t] = head'[want'[t]]
    PROVE  QueuesStay
  <1>1. \A u \in Threads, l \in Locks : /\ Queuing!Given(u, l)' <=> Queuing!Given(u, l)
                                        /\ Queuing!Queued(u, l)' <=> Queuing!Queued(u, l)
    BY QuietQueued
  <1>2. \A l \in Locks : QueuedOn(l)' = QueuedOn(l)
    BY <1>1 DEF QueuedOn
  <1>3. ASSUME NEW l \in Locks, NEW u \in QueuedOn(l), NEW v \in QueuedOn(l), Queuing!Follows(u, v)
        PROVE  Queuing!Follows(u, v)'
    BY <1>3 DEF Queuing!Follows, QueuedOn, Queuing!Queued
  <1>4. \A l \in Locks, n \in Nat : \A s : IsQueue(s, n, l) => IsQueue(s, n, l)'
    BY <1>2, <1>3, QueueStays
  <1>5. \A l \in Locks : \E n \in Nat : \E s \in [1 .. n -> QueuedOn(l)'] : IsQueue(s, n, l)'
    BY <1>2, <1>4 DEF QueuingLine
  <1>6. \A l \in Locks, u \in Threads : /\ head[l] = u => head'[l] = u
                                        /\ head[l] # u => head'[l] # u
    BY NoneAssumption, ThreadsAssumption DEF Queuing!NoQueue
  <1>7. \A u \in Threads : pc[u] \in {"link"} \cup Queuing!Waking =>
            u # t /\ seen[u] # t /\ want[u] \in Locks
    BY DEF QueuingLine, QueuingSeen, QueuingPlace, Queuing!Queued, Queuing!Waking
  <1>8. QueuingLinked'
    <2>1. ASSUME NEW u \in Threads, next_waiting[u] # None
          PROVE  /\ u # t /\ next_waiting[u] # t /\ next_waiting[u] \in Threads /\ want[u] \in Locks
                 /\ pc[u] \in {"link", "spin"} /\ spin_here[u]
                 /\ pc[next_waiting[u]] = "spin" /\ Queuing!Queued(next_waiting[u], want[u])
      BY <2>1 DEF QueuingLine, QueuingLinked, QueuingPlace, Queuing!TypeOK
    <2> QED
      BY <1>1, <2>1 DEF QueuingLinked, QueuingLine
  <1>9. QueuingSeen'
    <2>1. ASSUME NEW u \in Threads, pc'[u] = "last" PROVE seen'[u] \in Threads \ {u}
      BY <2>1 DEF QueuingLine, QueuingSeen
    <2>2. ASSUME NEW u \in Threads, pc'[u] = "link"
          PROVE  /\ seen'[u] \in Threads /\ Queuing!Queued(seen[u], want[u])'
                 /\ seen'[u] = seen[u] /\ want'[u] = want[u]
                 /\ next_waiting'[seen'[u]] = None
                 /\ head'[want'[u]] # u
                 /\ \A v \in Threads : next_waiting'[v] # u
      BY <1>1, <1>6, <1>7, <2>2 DEF QueuingLine, QueuingSeen
    <2>3. ASSUME NEW u \in Threads, pc'[u] \in {"give_tail", "give_only", "give_next"}
          PROVE  seen'[u] \in Threads /\ seen'[u] = head'[want'[u]]
      BY <1>6, <2>3 DEF QueuingLine, QueuingSeen, QueuingPlace
    <2>4. ASSUME NEW u \in Threads, pc'[u] \in Queuing!Waking
          PROVE  /\ seen'[u] \in Threads /\ pc'[seen'[u]] = "spin" /\ want'[seen'[u]] = want'[u]
                 /\ spin_here'[seen'[u]]
                 /\ pc'[u] = "wake" => next_waiting'[seen'[u]] = None
                 /\ \A v \in Threads : pc'[v] \in Queuing!Waking /\ seen'[v] = seen'[u] => v = u
      <3>1. u # t /\ pc[u] \in Queuing!Waking /\ seen[u] # t /\ seen[u] \in Threads
        BY <1>7, <2>4 DEF QueuingLine, QueuingSeen
      <3>2. \A v \in Threads : pc'[v] \in Queuing!Waking => v # t
        OBVIOUS
      <3> QED
        BY <2>4, <3>1, <3>2 DEF QueuingLine, QueuingSeen
    <2> QED
      BY <2>1, <2>2, <2>3, <2>4 DEF QueuingSeen
  <1> QED
    BY <1>4, <1>5, <1>8, <1>9 DEF QueuingLine, QueuesStay

\* Every lock stays with its holder.
HoldersStay ==
    /\ UNCHANGED head
    /\ \A u \in Threads, l \in Locks : Queuing!Inside(u, l)' <=> Queuing!Inside(u, l)
    /\ \A l \in Locks : Queuing!Holders(l)' = Queuing!Holders(l)

\* Such a step that leaves the holders alone.
LEMMA QuietStep ==
    ASSUME QueuingLine, Queuing!TypeOK', NEW t \in Threads,
           UNCHANGED <<head, tail, next_waiting>>,
           \A u \in Threads \ {t} : /\ pc'[u] = pc[u] /\ want'[u] = want[u] /\ seen'[u] = seen[u]
                                    /\ spin_here'[u] = spin_here[u],
           pc[t] \notin {"link", "spin"} \cup Queuing!Waking,
           pc'[t] \notin {"link", "spin"} \cup Queuing!Waking,
           \A u \in Threads, l \in Locks : Queuing!Inside(u, l)' <=> Queuing!Inside(u, l),
           QueuingPlace', QueuingSpin',
           pc'[t] = "last" => seen'[t] \in Threads \ {t},
           pc'[t] \in {"give_tail", "give_only", "give_next"} =>
               seen'[t] \in Threads /\ seen'[t] = head[want'[t]]
    PROVE  QueuesStay /\ HoldersStay
  <1>1. \A l \in Locks : Queuing!Holders(l)' = Queuing!Holders(l)
    BY QuietQueued DEF Queuing!Holders
  <1>2. QueuingHolder'
    BY <1>1 DEF QueuingLine, QueuingHolder
  <1>3. QueuesStay
    BY <1>2, OutsideStep
  <1> QED
    BY <1>1, <1>3 DEF HoldersStay

\* A step keeps the types.
LEMMA QueuingTypeNext == ASSUME QueuingLine, Queuing!Next PROVE Queuing!TypeOK'
  <1> USE NoneAssumption, BoundsAssumption
      DEF Queuing!TypeOK, Queuing!Go, Queuing!Acquiring, Queuing!Releasing, Queuing!Waking
  <1>0. Queuing!TypeOK
    BY DEF QueuingLine
  <1> USE DEF Queuing!Local, Queuing!Return, Queuing!Forget, Queuing!Queue, Queuing!lock, Queuing!links
  <1>1. ASSUME NEW t \in Threads, NEW l \in Locks,
               Queuing!Nest(t, l) \/ Queuing!Set(t, l) \/ Queuing!Test(t, l)
        PROVE  Queuing!TypeOK'
    <2>1. [spin_here EXCEPT ![t] = TRUE] \in [Threads -> BOOLEAN]
      BY <1>0, Zenon
    <2>2. CASE Queuing!Nest(t, l)
      BY <1>0, <2>2 DEF Queuing!Nest
    <2>3. CASE Queuing!Set(t, l)
      <3>1. spin_here' \in [Threads -> BOOLEAN]
        BY <2>1, <2>3, Zenon DEF Queuing!Set
      <3> QED
        BY <1>0, <2>3, <3>1 DEF Queuing!Set
    <2>4. CASE Queuing!Test(t, l)
      BY <1>0, <2>4 DEF Queuing!Test
    <2> QED
      BY <1>1, <2>2, <2>3, <2>4
  <1>2. ASSUME NEW t \in Threads, NEW l \in Locks, Queuing!Unset(t, l) PROVE Queuing!TypeOK'
    <2>1. depth[l] \in 1 .. MaxDepth
      BY <1>0, <1>2 DEF Queuing!Unset, QueuingLine, QueuingPlace
    <2>2. depth' \in [Locks -> 0 .. MaxDepth]
      BY <1>0, <1>2, <2>1 DEF Queuing!Unset
    <2>3. owner_id' \in [Locks -> Threads \cup {None}] /\ want' \in [Threads -> Locks \cup {None}]
      BY <1>0, <1>2 DEF Queuing!Unset
    <2> QED
      BY <1>0, <1>2, <2>2, <2>3 DEF Queuing!Unset
  <1>3. ASSUME NEW t \in Threads, pc[t] # "program" PROVE want[t] \in Locks
    BY <1>3 DEF QueuingLine, QueuingPlace
  <1>4. ASSUME NEW t \in Threads, Queuing!ReadHead(t) \/ Queuing!TakeFree(t) \/ Queuing!BeFirst(t)
        PROVE  Queuing!TypeOK'
    <2>1. [spin_here EXCEPT ![t] = FALSE] \in [Threads -> BOOLEAN]
      BY <1>0, Zenon
    <2>2. CASE Queuing!ReadHead(t)
      BY <1>0, <1>3, <2>2 DEF Queuing!ReadHead
    <2>3. CASE Queuing!TakeFree(t)
      <3>1. spin_here' \in [Threads -> BOOLEAN]
        BY <1>0, <2>1, <2>3, Zenon DEF Queuing!TakeFree
      <3> QED
        BY <1>0, <1>3, <2>3, <3>1 DEF Queuing!TakeFree
    <2>4. CASE Queuing!BeFirst(t)
      BY <1>0, <1>3, <2>4 DEF Queuing!BeFirst
    <2> QED
      BY <1>4, <2>2, <2>3, <2>4
  <1>5. ASSUME NEW t \in Threads, Queuing!ReadTail(t) \/ Queuing!BeLast(t) \/ Queuing!Link(t)
        PROVE  Queuing!TypeOK'
    BY <1>0, <1>3, <1>5 DEF Queuing!ReadTail, Queuing!BeLast, Queuing!Link
  <1>6. ASSUME NEW t \in Threads, Queuing!Spin(t) \/ Queuing!Own(t)
        PROVE  Queuing!TypeOK'
    BY <1>0, <1>3, <1>6 DEF Queuing!Spin, Queuing!Own
  <1>7. ASSUME NEW t \in Threads, Queuing!ReadRelease(t) PROVE Queuing!TypeOK'
    BY <1>0, <1>3, <1>7 DEF Queuing!ReadRelease, QueuingLine, QueuingHolder, Queuing!Holders, Queuing!Inside
  <1>8. ASSUME NEW t \in Threads, Queuing!GiveFree(t) \/ Queuing!ReadReleaseTail(t) \/ Queuing!GiveOnly(t)
        PROVE  Queuing!TypeOK'
    BY <1>0, <1>3, <1>8 DEF Queuing!GiveFree, Queuing!ReadReleaseTail, Queuing!GiveOnly
  <1>9. ASSUME NEW t \in Threads, Queuing!GiveNext(t) PROVE Queuing!TypeOK'
    <2>1. seen[t] \in Threads
      BY <1>9 DEF Queuing!GiveNext, QueuingLine, QueuingSeen
    <2> QED
      BY <1>0, <1>3, <1>9, <2>1 DEF Queuing!GiveNext
  <1>10. ASSUME NEW t \in Threads, Queuing!Unlink(t) \/ Queuing!Wake(t) PROVE Queuing!TypeOK'
    BY <1>0, <1>10 DEF Queuing!Unlink, Queuing!Wake
  <1> QED
    BY <1>1, <1>2, <1>4, <1>5, <1>6, <1>7, <1>8, <1>9, <1>10 DEF Queuing!Next, Queuing!Step

\* Who holds a lock and what its owner may do.
LEMMA QueuingOwner ==
    ASSUME QueuingLine, NEW t \in Threads, NEW l \in Locks
    PROVE  /\ Queuing!Inside(t, l) => head[l] # None
           /\ \A u \in Threads : Queuing!Inside(t, l) /\ Queuing!Inside(u, l) => u = t
           /\ \A u \in Threads : Queuing!Inside(t, l) => ~Queuing!Given(u, l)
           /\ owner_id[l] = t => want[t] # l /\ depth[l] \in 1 .. MaxDepth
  <1>1. \A u \in Threads : Queuing!Inside(u, l) \/ Queuing!Given(u, l) <=> u \in Queuing!Holders(l)
    BY DEF Queuing!Holders
  <1>2. Queuing!Inside(t, l) => head[l] # None
    BY <1>1 DEF QueuingLine, QueuingHolder
  <1>3. ASSUME NEW u \in Threads, Queuing!Inside(t, l), Queuing!Inside(u, l) \/ Queuing!Given(u, l)
        PROVE  u = t
    BY <1>1, <1>2, <1>3 DEF QueuingLine, QueuingHolder
  <1>4. owner_id[l] = t => want[t] # l /\ depth[l] \in 1 .. MaxDepth
    <2>1. depth[l] \in 0 .. MaxDepth
      BY DEF QueuingLine, Queuing!TypeOK
    <2>2. owner_id[l] = t => want[t] # l /\ depth[l] > 0
      BY NoneAssumption DEF QueuingLine, QueuingPlace
    <2> QED
      BY <2>1, <2>2, BoundsAssumption
  <1>5. Queuing!Inside(t, l) => ~Queuing!Given(t, l)
    BY <1>4 DEF Queuing!Inside, Queuing!Given, Queuing!Releasing
  <1> QED
    BY <1>2, <1>3, <1>4, <1>5

\* The steps that change no queue and give no lock away.
LEMMA QueuingQuiet ==
    ASSUME QueuingLine, Queuing!TypeOK', NEW t \in Threads,
           \/ \E l \in Locks : Queuing!Nest(t, l) \/ Queuing!Set(t, l) \/ Queuing!Unset(t, l)
           \/ Queuing!ReadHead(t) \/ Queuing!ReadTail(t) \/ Queuing!Own(t)
           \/ Queuing!ReadRelease(t) \/ Queuing!ReadReleaseTail(t)
           \/ pc'[t] = "head" /\ (Queuing!TakeFree(t) \/ Queuing!BeFirst(t) \/ Queuing!BeLast(t))
           \/ pc'[t] = "release" /\ (Queuing!GiveFree(t) \/ Queuing!GiveOnly(t))
    PROVE  QueuesStay /\ HoldersStay
  <1> USE NoneAssumption
      DEF Queuing!Go, Queuing!Local, Queuing!Return, Queuing!Forget, Queuing!lock, Queuing!links
  <1>0. Queuing!TypeOK /\ QueuingPlace /\ QueuingSpin /\ QueuingSeen
    BY DEF QueuingLine
  <1>1. ASSUME NEW l \in Locks, Queuing!Nest(t, l) PROVE QueuesStay /\ HoldersStay
    <2>1. QueuingPlace' /\ QueuingSpin'
      BY <1>0, <1>1, BoundsAssumption DEF Queuing!TypeOK, Queuing!Nest, QueuingPlace, QueuingSpin
    <2>2. \A u \in Threads, k \in Locks : Queuing!Inside(u, k)' <=> Queuing!Inside(u, k)
      BY <1>1 DEF Queuing!Nest, Queuing!Inside
    <2> QED
      BY <1>0, <1>1, <2>1, <2>2, QuietStep DEF Queuing!Nest, Queuing!Waking
  <1>2. ASSUME NEW l \in Locks, Queuing!Set(t, l) PROVE QueuesStay /\ HoldersStay
    <2>0. owner_id[l] # t
      BY <1>2, LocksAssumption DEF Queuing!Set
    <2>1. /\ pc[t] = "program" /\ pc' = [pc EXCEPT ![t] = "head"]
          /\ want' = [want EXCEPT ![t] = l] /\ spin_here' = [spin_here EXCEPT ![t] = TRUE]
          /\ UNCHANGED <<head, tail, owner_id, depth, next_waiting, seen>>
      BY <1>2 DEF Queuing!Set
    <2>2. spin_here'[t] = TRUE /\ \A u \in Threads \ {t} : spin_here'[u] = spin_here[u]
      BY <1>0, <2>1 DEF Queuing!TypeOK
    <2>3. QueuingPlace' /\ QueuingSpin'
      BY <1>0, <2>0, <2>1, <2>2 DEF Queuing!TypeOK, QueuingPlace, QueuingSpin, Queuing!Releasing, Queuing!Waking
    <2>4. \A u \in Threads, k \in Locks : Queuing!Inside(u, k)' <=> Queuing!Inside(u, k)
      BY <1>0, <2>1 DEF Queuing!TypeOK, Queuing!Inside, Queuing!Releasing
    <2> QED
      BY <1>0, <2>1, <2>2, <2>3, <2>4, QuietStep DEF Queuing!TypeOK, Queuing!Waking
  <1>3. ASSUME NEW l \in Locks, Queuing!Unset(t, l) PROVE QueuesStay /\ HoldersStay
    <2>0. depth[l] \in 1 .. MaxDepth /\ \A k \in Locks : owner_id[k] = t => want[t] # k
      BY <1>0, <1>3, QueuingOwner DEF Queuing!Unset
    <2>1. CASE depth[l] > 1
      <3>1. QueuingPlace' /\ QueuingSpin'
        BY <1>0, <1>3, <2>0, <2>1, BoundsAssumption
        DEF Queuing!TypeOK, Queuing!Unset, QueuingPlace, QueuingSpin
      <3>2. \A u \in Threads, k \in Locks : Queuing!Inside(u, k)' <=> Queuing!Inside(u, k)
        BY <1>3, <2>1 DEF Queuing!Unset, Queuing!Inside
      <3> QED
        BY <1>0, <1>3, <2>1, <3>1, <3>2, QuietStep DEF Queuing!Unset, Queuing!Waking
    <2>2. CASE ~(depth[l] > 1)
      <3>1. /\ pc[t] = "program" /\ pc' = [pc EXCEPT ![t] = "release"] /\ owner_id[l] = t
            /\ want' = [want EXCEPT ![t] = l] /\ owner_id' = [owner_id EXCEPT ![l] = None]
            /\ depth' = [depth EXCEPT ![l] = @ - 1]
            /\ UNCHANGED <<head, tail, spin_here, next_waiting, seen>>
        BY <1>3, <2>2 DEF Queuing!Unset
      <3>2. QueuingPlace'
        BY <1>0, <2>0, <3>1 DEF Queuing!TypeOK, QueuingPlace
      <3>3. QueuingSpin'
        BY <1>0, <3>1 DEF Queuing!TypeOK, QueuingSpin, Queuing!Releasing, Queuing!Waking
      <3>4. \A u \in Threads, k \in Locks : Queuing!Inside(u, k)' <=> Queuing!Inside(u, k)
        BY <1>0, <3>1 DEF Queuing!TypeOK, Queuing!Inside, Queuing!Releasing
      <3> QED
        BY <1>0, <3>1, <3>2, <3>3, <3>4, QuietStep DEF Queuing!TypeOK, Queuing!Waking
    <2> QED
      BY <2>1, <2>2
  <1>4. ASSUME pc' = [pc EXCEPT ![t] = pc'[t]], UNCHANGED <<head, tail, owner_id, depth, spin_here,
                                                            next_waiting, want>>,
               \A u \in Threads \ {t} : seen'[u] = seen[u],
               \/ pc[t] \in {"head", "free", "first", "tail", "last"} /\
                      pc'[t] \in {"head", "free", "first", "tail", "last"}
               \/ pc[t] \in Queuing!Releasing /\ pc'[t] \in Queuing!Releasing,
               pc'[t] = "last" => seen'[t] \in Threads \ {t},
               pc'[t] \in {"give_tail", "give_only", "give_next"} =>
                   seen'[t] \in Threads /\ seen'[t] = head[want[t]]
        PROVE  QueuesStay /\ HoldersStay
    <2>1. QueuingPlace' /\ QueuingSpin'
      BY <1>0, <1>4 DEF Queuing!TypeOK, QueuingPlace, QueuingSpin, Queuing!Releasing, Queuing!Waking
    <2>2. \A u \in Threads, k \in Locks : Queuing!Inside(u, k)' <=> Queuing!Inside(u, k)
      BY <1>0, <1>4 DEF Queuing!TypeOK, Queuing!Inside, Queuing!Releasing
    <2>3. \A u \in Threads \ {t} : pc'[u] = pc[u]
      BY <1>0, <1>4 DEF Queuing!TypeOK
    <2>4. /\ pc[t] \notin {"link", "spin"} \cup Queuing!Waking
          /\ pc'[t] \notin {"link", "spin"} \cup Queuing!Waking
      BY <1>4 DEF Queuing!Releasing, Queuing!Waking
    <2> QED
      BY <1>4, <2>1, <2>2, <2>3, <2>4, QuietStep
  <1>5. CASE Queuing!Own(t)
    <2>0. pc[t] = "own" /\ want[t] \in Locks
      BY <1>0, <1>5 DEF Queuing!Own, QueuingPlace
    <2>1. /\ pc' = [pc EXCEPT ![t] = "program"] /\ want' = [want EXCEPT ![t] = None]
          /\ seen' = [seen EXCEPT ![t] = None]
          /\ owner_id' = [owner_id EXCEPT ![want[t]] = t] /\ depth' = [depth EXCEPT ![want[t]] = 1]
          /\ UNCHANGED <<head, tail, spin_here, next_waiting>>
      BY <1>5 DEF Queuing!Own
    <2>2. owner_id[want[t]] = None
      <3>1. Queuing!Inside(t, want[t])
        BY <2>0 DEF Queuing!Inside
      <3>2. \A u \in Threads : owner_id[want[t]] = u => u = t /\ want[u] # want[t]
        BY <2>0, <3>1, QueuingOwner DEF Queuing!Inside
      <3> QED
        BY <1>0, <2>0, <3>2 DEF Queuing!TypeOK
    <2>3. QueuingPlace' /\ QueuingSpin'
      BY <1>0, <2>0, <2>1, LocksAssumption
      DEF Queuing!TypeOK, QueuingPlace, QueuingSpin, Queuing!Releasing, Queuing!Waking
    <2>4. \A u \in Threads, k \in Locks : Queuing!Inside(u, k)' <=> Queuing!Inside(u, k)
      BY <1>0, <2>0, <2>1, <2>2, LocksAssumption DEF Queuing!TypeOK, Queuing!Inside, Queuing!Releasing
    <2> QED
      BY <1>0, <2>0, <2>1, <2>3, <2>4, QuietStep DEF Queuing!TypeOK, Queuing!Waking
  <1>6. ASSUME pc[t] # "program" PROVE want[t] \in Locks
    BY <1>0, <1>6 DEF QueuingPlace
  <1>7. CASE Queuing!ReadHead(t)
    BY <1>0, <1>4, <1>7 DEF Queuing!ReadHead, Queuing!TypeOK
  <1>8. CASE Queuing!ReadTail(t)
    <2>1. ASSUME tail[want[t]] # None PROVE tail[want[t]] \in Threads \ {t}
      <3>1. want[t] \in Locks /\ pc[t] = "tail"
        BY <1>6, <1>8 DEF Queuing!ReadTail
      <3>2. PICK n \in Nat, s \in Seq(QueuedOn(want[t])) : IsQueue(s, n, want[t])
        BY <3>1, QueueExists
      <3>3. n > 0 /\ s[n] = tail[want[t]] /\ s[n] \in QueuedOn(want[t])
        BY <2>1, <3>2 DEF IsQueue
      <3> QED
        BY <3>1, <3>3 DEF QueuedOn, Queuing!Queued
    <2> QED
      BY <1>0, <1>4, <1>8, <2>1 DEF Queuing!ReadTail, Queuing!TypeOK
  <1>9. CASE pc'[t] = "head" /\ (Queuing!TakeFree(t) \/ Queuing!BeFirst(t) \/ Queuing!BeLast(t))
    BY <1>0, <1>4, <1>9 DEF Queuing!TakeFree, Queuing!BeFirst, Queuing!BeLast, Queuing!TypeOK
  <1>10. CASE Queuing!ReadRelease(t)
    <2>1. head[want[t]] # None
      BY <1>6, <1>10, QueuingOwner DEF Queuing!ReadRelease, Queuing!Inside, Queuing!Releasing
    <2>2. head[want[t]] # Queuing!NoQueue => head[want[t]] \in Threads
      BY <1>0, <1>6, <1>10, <2>1 DEF Queuing!TypeOK, Queuing!ReadRelease
    <2> QED
      BY <1>0, <1>4, <1>10, <2>2 DEF Queuing!ReadRelease, Queuing!TypeOK, Queuing!Releasing
  <1>11. CASE Queuing!ReadReleaseTail(t)
    <2>1. seen[t] \in Threads /\ seen[t] = head[want[t]]
      BY <1>0, <1>11 DEF Queuing!ReadReleaseTail, QueuingSeen
    <2> QED
      BY <1>0, <1>4, <1>11, <2>1 DEF Queuing!ReadReleaseTail, Queuing!TypeOK, Queuing!Releasing
  <1>12. CASE pc'[t] = "release" /\ (Queuing!GiveFree(t) \/ Queuing!GiveOnly(t))
    BY <1>0, <1>4, <1>12 DEF Queuing!GiveFree, Queuing!GiveOnly, Queuing!TypeOK, Queuing!Releasing
  <1> QED
    BY <1>1, <1>2, <1>3, <1>5, <1>7, <1>8, <1>9, <1>10, <1>11, <1>12

\* A free lock is taken, or one that nobody waits for is given back.
LEMMA QueuingHead ==
    ASSUME QueuingLine, Queuing!TypeOK', NEW t \in Threads, NEW l \in Locks,
           \/ Queuing!Test(t, l)
           \/ want[t] = l /\ Queuing!TakeFree(t) /\ pc'[t] = "own"
           \/ want[t] = l /\ Queuing!GiveFree(t) /\ pc'[t] = "program"
    PROVE  /\ QueuesStay
           /\ {head[l], head'[l]} = {None, Queuing!NoQueue}
           /\ \A k \in Locks \ {l} : /\ head'[k] = head[k] /\ Queuing!Holders(k)' = Queuing!Holders(k)
                                     /\ \A u \in Threads : Queuing!Inside(u, k)' <=> Queuing!Inside(u, k)
           /\ head'[l] # None => Queuing!Holders(l)' = {t}
           /\ \A u \in Threads : /\ Queuing!Inside(u, l)' <=> head'[l] # None /\ u = t
                                 /\ Queuing!Inside(u, l) <=> head[l] # None /\ u = t
  <1> USE NoneAssumption, LocksAssumption
  <1>0. Queuing!TypeOK /\ QueuingPlace /\ QueuingSpin
    BY DEF QueuingLine
  <1>1. \/ /\ pc[t] \in {"program", "free"} /\ pc'[t] = "own" /\ want'[t] = l
           /\ head[l] = None /\ head'[l] = Queuing!NoQueue
        \/ /\ pc[t] = "give_free" /\ pc'[t] = "program" /\ want[t] = l /\ want'[t] = None
           /\ head[l] = Queuing!NoQueue /\ head'[l] = None
    BY <1>0 DEF Queuing!TypeOK, Queuing!Test, Queuing!TakeFree, Queuing!GiveFree, Queuing!Go,
                Queuing!Return, Queuing!Queue, Queuing!Local
  <1>2. /\ UNCHANGED <<tail, next_waiting, owner_id, depth>>
        /\ \A k \in Locks \ {l} : head'[k] = head[k]
        /\ \A u \in Threads \ {t} : /\ pc'[u] = pc[u] /\ want'[u] = want[u] /\ seen'[u] = seen[u]
                                    /\ spin_here'[u] = spin_here[u]
        /\ spin_here'[t] = FALSE
    <2>1. CASE Queuing!Test(t, l)
      <3>1. spin_here[t] = FALSE
        BY <1>0, <2>1 DEF QueuingSpin, Queuing!Test, Queuing!Go
      <3> QED
        BY <1>0, <2>1, <3>1 DEF Queuing!TypeOK, Queuing!Test, Queuing!Go, Queuing!links
    <2>2. CASE want[t] = l /\ Queuing!TakeFree(t) /\ pc'[t] = "own"
      BY <1>0, <2>2 DEF Queuing!TypeOK, Queuing!TakeFree, Queuing!Go, Queuing!Queue, Queuing!Local
    <2>3. CASE want[t] = l /\ Queuing!GiveFree(t) /\ pc'[t] = "program"
      <3>1. spin_here[t] = FALSE
        BY <1>0, <2>3 DEF QueuingSpin, Queuing!GiveFree, Queuing!Go, Queuing!Return, Queuing!Local,
                          Queuing!Releasing
      <3>2. Queuing!Queue(t, None, tail[l]) /\ UNCHANGED <<owner_id, depth, spin_here, next_waiting>>
        BY <1>0, <2>3 DEF Queuing!TypeOK, Queuing!GiveFree, Queuing!Local, Queuing!Go, Queuing!links
      <3>3. tail' = tail
        BY <1>0, <2>3, <3>2 DEF Queuing!TypeOK, Queuing!Queue
      <3>4. /\ UNCHANGED <<tail, next_waiting, owner_id, depth, spin_here>>
            /\ \A k \in Locks \ {l} : head'[k] = head[k]
        BY <1>0, <2>3, <3>2, <3>3 DEF Queuing!TypeOK, Queuing!Queue
      <3>5. \A u \in Threads \ {t} : pc'[u] = pc[u] /\ want'[u] = want[u] /\ seen'[u] = seen[u]
        BY <1>0, <2>3 DEF Queuing!TypeOK, Queuing!GiveFree, Queuing!Go, Queuing!Return,
                          Queuing!Forget, Queuing!Local
      <3> QED
        BY <3>1, <3>4, <3>5
    <2> QED
      BY <2>1, <2>2, <2>3
  <1>3. /\ pc[t] \notin {"link", "spin"} \cup Queuing!Waking
        /\ pc'[t] \notin {"link", "spin"} \cup Queuing!Waking
    BY <1>1 DEF Queuing!Waking
  <1>4. None # Queuing!NoQueue
    BY DEF Queuing!NoQueue
  <1>5. \A u \in Threads : Queuing!Inside(u, l) <=> head[l] # None /\ u = t
    <2>1. CASE head[l] = None
      BY <2>1, QueuingOwner
    <2>2. CASE head[l] # None
      <3>1. Queuing!Inside(t, l)
        BY <1>1, <2>2 DEF Queuing!Inside, Queuing!Releasing
      <3> QED
        BY <2>2, <3>1, QueuingOwner
    <2> QED
      BY <2>1, <2>2
  <1>6. owner_id[l] # t /\ \A u \in Threads : owner_id[l] # u
    <2>1. owner_id[l] # t
      BY <1>1, <1>5, QueuingOwner DEF Queuing!Inside
    <2> QED
      BY <1>5, <2>1 DEF Queuing!Inside
  <1>7. \A u \in Threads : Queuing!Inside(u, l)' <=> head'[l] # None /\ u = t
    <2>1. Queuing!Inside(t, l)' <=> head'[l] # None
      BY <1>1, <1>2, <1>4, <1>6 DEF Queuing!Inside
    <2>2. ASSUME NEW u \in Threads \ {t} PROVE ~Queuing!Inside(u, l)'
      BY <1>2, <1>5, <1>6 DEF Queuing!Inside
    <2> QED
      BY <2>1, <2>2
  <1>8. \A k \in Locks \ {l}, u \in Threads : Queuing!Inside(u, k)' <=> Queuing!Inside(u, k)
    BY <1>1, <1>2 DEF Queuing!Inside, Queuing!Releasing
  <1>9. \A k \in Locks, u \in Threads : Queuing!Given(u, k)' <=> Queuing!Given(u, k)
    BY <1>2, <1>3, QuietQueued
  <1>10. \A k \in Locks \ {l} : Queuing!Holders(k)' = Queuing!Holders(k)
    BY <1>8, <1>9 DEF Queuing!Holders
  <1>11. \A u \in Threads : ~Queuing!Given(u, l)
    <2>1. CASE head[l] = None
      BY <2>1 DEF QueuingLine, QueuingHolder, Queuing!Holders
    <2>2. CASE head[l] # None
      BY <1>5, <2>2, QueuingOwner
    <2> QED
      BY <2>1, <2>2
  <1>12. Queuing!Holders(l)' = IF head'[l] = None THEN {} ELSE {t}
    BY <1>7, <1>9, <1>11 DEF Queuing!Holders
  <1>13. QueuingHolder'
    BY <1>2, <1>10, <1>12 DEF QueuingLine, QueuingHolder
  <1>14. QueuingPlace'
    BY <1>0, <1>1, <1>2, <1>6 DEF QueuingPlace, Queuing!TypeOK
  <1>15. QueuingSpin'
    BY <1>0, <1>1, <1>2 DEF QueuingSpin, Queuing!Releasing, Queuing!Waking
  <1>16. QueuesStay
    BY <1>1, <1>2, <1>3, <1>13, <1>14, <1>15, OutsideStep
  <1> QED
    BY <1>1, <1>2, <1>5, <1>7, <1>8, <1>10, <1>12, <1>16

\* The first and the last of a queue, and that it has no holder's link in it.
LEMMA QueueEnds ==
    ASSUME QueuingLine, NEW l \in Locks, NEW n \in Nat, NEW s, IsQueue(s, n, l)
    PROVE  /\ n = 0 => head[l] \in {None, Queuing!NoQueue} /\ tail[l] = None
           /\ n # 0 => /\ 1 \in 1 .. n /\ n \in 1 .. n
                       /\ head[l] = s[1] /\ tail[l] = s[n]
                       /\ s[1] \in QueuedOn(l) /\ s[n] \in QueuedOn(l)
                       /\ head[l] \notin {None, Queuing!NoQueue} /\ tail[l] # None
                       /\ pc[head[l]] = "spin" /\ next_waiting[tail[l]] = None
  <1>1. CASE n = 0
    BY <1>1 DEF IsQueue
  <1>2. CASE n # 0
    <2>1. 1 \in 1 .. n /\ n \in 1 .. n
      BY <1>2
    <2>2. head[l] = s[1] /\ tail[l] = s[n] /\ s[1] \in QueuedOn(l) /\ s[n] \in QueuedOn(l)
      BY <1>2, <2>1 DEF IsQueue
    <2>3. head[l] \in Threads /\ tail[l] \in Threads /\ Queuing!Queued(head[l], l)
      BY <2>2 DEF QueuedOn
    <2>4. head[l] \notin {None, Queuing!NoQueue} /\ tail[l] # None
      BY <2>3, NoneAssumption, ThreadsAssumption DEF Queuing!NoQueue
    <2>5. pc[head[l]] = "spin"
      BY <2>3 DEF Queuing!Queued, QueuingLine, QueuingSeen
    <2>6. next_waiting[tail[l]] = None
      BY <2>4 DEF QueuingLine, QueuingLinked
    <2> QED
      BY <1>2, <2>1, <2>2, <2>4, <2>5, <2>6
  <1> QED
    BY <1>1, <1>2

\* A thread that is about to set a link has its predecessor before it in the queue.
LEMMA LinkerInQueue ==
    ASSUME QueuingLine, NEW t \in Threads, pc[t] = "link", NEW n \in Nat, NEW s,
           IsQueue(s, n, want[t])
    PROVE  \E m \in 1 .. n - 1 : s[m] = seen[t] /\ s[m + 1] = t
  <1>1. want[t] \in Locks /\ head[want[t]] # t /\ \A u \in Threads : next_waiting[u] # t
    BY DEF QueuingLine, QueuingPlace, QueuingSeen
  <1>2. t \in QueuedOn(want[t])
    BY DEF QueuedOn, Queuing!Queued, Queuing!Given
  <1>3. PICK j \in 1 .. n : s[j] = t
    BY <1>2 DEF IsQueue
  <1>4. j # 1
    BY <1>1, <1>3, QueueEnds
  <1>5. j - 1 \in 1 .. n - 1 /\ (j - 1) + 1 = j
    BY <1>4
  <1>6. Queuing!Follows(s[(j - 1) + 1], s[j - 1]) /\ s[j - 1] \in Threads
    BY <1>5 DEF IsQueue, QueuedOn
  <1>7. seen[t] = s[j - 1]
    BY <1>1, <1>3, <1>5, <1>6 DEF Queuing!Follows
  <1> QED
    BY <1>3, <1>5, <1>7

\* A thread becomes the last of the queue, which may have been empty.
LEMMA QueuingJoin ==
    ASSUME QueuingLine, Queuing!TypeOK', NEW t \in Threads, NEW l \in Locks, want[t] = l,
           \/ Queuing!BeFirst(t) /\ pc'[t] = "spin"
           \/ Queuing!BeLast(t) /\ pc'[t] = "link"
    PROVE  /\ QueuingLine'
           /\ \A k \in Locks \ {l}, n \in Nat : \A s : IsQueue(s, n, k) => IsQueue(s, n, k)'
           /\ \A n \in Nat : \A s : IsQueue(s, n, l) => IsQueue(Append(s, t), n + 1, l)'
           /\ \A k \in Locks : Queuing!Holders(k)' = Queuing!Holders(k)
           /\ \A u \in Threads, k \in Locks : Queuing!Inside(u, k)' <=> Queuing!Inside(u, k)
           /\ \A k \in Locks : head'[k] = None <=> head[k] = None
           /\ t \notin QueuedOn(l) /\ head[l] # None
  <1> USE NoneAssumption, ThreadsAssumption
  <1>0. Queuing!TypeOK /\ QueuingPlace /\ QueuingSpin /\ QueuingSeen /\ QueuingLinked
    BY DEF QueuingLine
  <1>1. PICK n0 \in Nat, s0 \in Seq(QueuedOn(l)) : IsQueue(s0, n0, l)
    BY QueueExists
  <1>2. /\ UNCHANGED <<owner_id, depth, spin_here, next_waiting, want, seen>>
        /\ tail' = [tail EXCEPT ![l] = t]
        /\ pc[t] \in {"first", "last"} /\ pc'[t] \in {"spin", "link"}
        /\ \A u \in Threads \ {t} : pc'[u] = pc[u]
    BY <1>0 DEF Queuing!TypeOK, Queuing!BeFirst, Queuing!BeLast, Queuing!Go, Queuing!Queue,
                Queuing!Local, Queuing!links
  <1>3. \/ /\ pc[t] = "first" /\ pc'[t] = "spin" /\ n0 = 0
           /\ head[l] = Queuing!NoQueue /\ head' = [head EXCEPT ![l] = t]
        \/ /\ pc[t] = "last" /\ pc'[t] = "link" /\ n0 # 0
           /\ seen[t] = tail[l] /\ UNCHANGED head
    <2>1. CASE Queuing!BeFirst(t) /\ pc'[t] = "spin"
      <3>1. head[l] = Queuing!NoQueue /\ head' = [head EXCEPT ![l] = t] /\ pc[t] = "first"
        BY <1>0, <2>1 DEF Queuing!BeFirst, Queuing!Go, Queuing!Queue, Queuing!Local, Queuing!TypeOK
      <3> QED
        BY <1>1, <2>1, <3>1, QueueEnds
    <2>2. CASE Queuing!BeLast(t) /\ pc'[t] = "link"
      <3>1. pc[t] = "last" /\ tail[l] = seen[t] /\ head' = [head EXCEPT ![l] = head[l]]
        BY <1>0, <2>2 DEF Queuing!BeLast, Queuing!Go, Queuing!Queue, Queuing!TypeOK
      <3>2. tail[l] # None
        BY <1>0, <3>1 DEF QueuingSeen
      <3>3. UNCHANGED head
        BY <1>0, <3>1 DEF Queuing!TypeOK
      <3> QED
        BY <1>1, <2>2, <3>1, <3>2, <3>3, QueueEnds
    <2> QED
      BY <2>1, <2>2
  <1>4. spin_here[t] /\ next_waiting[t] = None
        /\ \A u \in Threads : next_waiting[u] # t /\ (pc[u] \in {"link"} \cup Queuing!Waking => seen[u] # t)
    BY <1>0, <1>2 DEF QueuingSpin, QueuingLinked, QueuingSeen, Queuing!Queued, Queuing!TypeOK, QueuingPlace
  <1>5. \A w \in Threads : /\ pc'[w] \in Queuing!Waking <=> pc[w] \in Queuing!Waking
                           /\ pc[w] \in Queuing!Waking => w # t
    BY <1>2 DEF Queuing!Waking
  <1>6. ASSUME NEW u \in Threads, NEW k \in Locks
        PROVE  Queuing!Given(u, k)' <=> Queuing!Given(u, k)
    <2>1. CASE u = t
      BY <1>2, <1>4, <1>5, <2>1 DEF Queuing!Given
    <2>2. CASE u # t
      BY <1>2, <1>5, <2>2 DEF Queuing!Given
    <2> QED
      BY <2>1, <2>2
  <1>7. \A u \in Threads, k \in Locks :
            Queuing!Queued(u, k)' <=> Queuing!Queued(u, k) \/ (u = t /\ k = l)
    <2>1. \A k \in Locks : ~Queuing!Given(t, k) /\ ~Queuing!Queued(t, k)
      BY <1>2 DEF Queuing!Given, Queuing!Queued
    <2>2. \A k \in Locks : Queuing!Queued(t, k)' <=> k = l
      BY <1>2, <1>6, <2>1 DEF Queuing!Queued
    <2>3. \A u \in Threads \ {t}, k \in Locks : Queuing!Queued(u, k)' <=> Queuing!Queued(u, k)
      BY <1>2, <1>6 DEF Queuing!Queued
    <2> QED
      BY <2>1, <2>2, <2>3
  <1>8. t \notin QueuedOn(l)
    BY <1>2 DEF QueuedOn, Queuing!Queued
  <1>9. /\ \A k \in Locks \ {l} : QueuedOn(k)' = QueuedOn(k)
        /\ QueuedOn(l)' = QueuedOn(l) \cup {t}
    <2>1. \A k \in Locks \ {l} : QueuedOn(k)' = QueuedOn(k)
      BY <1>7 DEF QueuedOn
    <2>2. QueuedOn(l)' = QueuedOn(l) \cup {t}
      BY <1>7 DEF QueuedOn
    <2> QED
      BY <2>1, <2>2
  <1>10. \A u \in Threads, k \in Locks : Queuing!Inside(u, k)' <=> Queuing!Inside(u, k)
    BY <1>2 DEF Queuing!Inside, Queuing!Releasing
  <1>11. \A k \in Locks : Queuing!Holders(k)' = Queuing!Holders(k)
    BY <1>6, <1>10 DEF Queuing!Holders
  <1>12. (\A k \in Locks : head'[k] = None <=> head[k] = None) /\ head[l] # None
    BY <1>0, <1>1, <1>3, QueueEnds DEF Queuing!TypeOK, Queuing!NoQueue
  <1>13. QueuingHolder'
    BY <1>11, <1>12 DEF QueuingLine, QueuingHolder
  <1>14. ASSUME NEW u \in Threads \ {t}, NEW v \in Threads, Queuing!Follows(u, v)
         PROVE  Queuing!Follows(u, v)'
    BY <1>2, <1>14 DEF Queuing!Follows
  <1>15. ASSUME NEW k \in Locks \ {l}, NEW n \in Nat, NEW s, IsQueue(s, n, k)
         PROVE  IsQueue(s, n, k)'
    <2>1. \A u, v \in QueuedOn(k) : Queuing!Follows(u, v) => Queuing!Follows(u, v)'
      BY <1>2, <1>14 DEF QueuedOn, Queuing!Queued
    <2>2. head'[k] = head[k] /\ tail'[k] = tail[k]
      BY <1>0, <1>2, <1>3 DEF Queuing!TypeOK
    <2> QED
      BY <1>9, <1>15, <2>1, <2>2, QueueStays
  <1>16. ASSUME NEW n \in Nat, NEW s, IsQueue(s, n, l) PROVE IsQueue(Append(s, t), n + 1, l)'
    <2>0. s \in [1 .. n -> QueuedOn(l)]
      BY <1>16 DEF IsQueue
    <2>1. s \in Seq(QueuedOn(l)) /\ Len(s) = n
      BY <2>0
    <2> DEFINE r == Append(s, t)
    <2>2. /\ r \in [1 .. n + 1 -> QueuedOn(l) \cup {t}]
          /\ r[n + 1] = t /\ \A i \in 1 .. n : r[i] = s[i]
      <3>1. s \in Seq(QueuedOn(l) \cup {t})
        BY <2>0
      <3>2. r \in Seq(QueuedOn(l) \cup {t}) /\ Len(r) = n + 1
        BY <2>1, <3>1
      <3>3. r[n + 1] = t /\ \A i \in 1 .. n : r[i] = s[i]
        BY <2>1, <3>1
      <3> HIDE DEF r
      <3> QED
        BY <3>2, <3>3
    <2>3. n # 0 => Queuing!Follows(t, s[n])'
      <3>1. n # 0 => head[l] # Queuing!NoQueue /\ tail[l] = s[n] /\ next_waiting[s[n]] = None
        BY <1>16, QueueEnds
      <3> QED
        BY <1>2, <1>3, <3>1 DEF Queuing!Follows
    <2>4. \A i \in 1 .. n - 1 : Queuing!Follows(s[i + 1], s[i])'
      <3>1. \A i \in 1 .. n - 1 : /\ Queuing!Follows(s[i + 1], s[i])
                                  /\ s[i + 1] \in QueuedOn(l) /\ s[i] \in QueuedOn(l)
        BY <1>16 DEF IsQueue
      <3> QED
        BY <1>8, <1>14, <3>1 DEF QueuedOn
    <2>5. head'[l] = r[1] /\ tail'[l] = t
      <3>1. tail'[l] = t
        BY <1>0, <1>2 DEF Queuing!TypeOK
      <3>2. CASE n = 0
        <4>1. head[l] \in {None, Queuing!NoQueue}
          BY <1>16, <3>2, QueueEnds
        <4>2. n0 = 0
          BY <1>1, <4>1, QueueEnds
        <4> QED
          BY <1>0, <1>3, <2>2, <3>1, <3>2, <4>2 DEF Queuing!TypeOK
      <3>3. CASE n # 0
        <4>1. head[l] = s[1] /\ head[l] \notin {None, Queuing!NoQueue} /\ 1 \in 1 .. n
          BY <1>16, <3>3, QueueEnds
        <4> QED
          BY <1>3, <2>2, <3>1, <4>1
      <3> QED
        BY <3>2, <3>3
    <2>6. \A u \in QueuedOn(l) \cup {t} : \E i \in 1 .. n + 1 : r[i] = u
      <3>1. \A u \in QueuedOn(l) : \E i \in 1 .. n : s[i] = u
        BY <1>16 DEF IsQueue
      <3> QED
        BY <2>2, <3>1
    <2>7. \A i, j \in 1 .. n + 1 : r[i] = r[j] => i = j
      <3>1. \A i, j \in 1 .. n : s[i] = s[j] => i = j
        BY <1>16 DEF IsQueue
      <3>2. \A i \in 1 .. n : s[i] # t
        BY <1>8, <2>0
      <3>3. \A i \in 1 .. n + 1 : i = n + 1 \/ i \in 1 .. n
        OBVIOUS
      <3> HIDE DEF r
      <3> QED
        BY <2>2, <3>1, <3>2, <3>3
    <2>8. \A i \in 1 .. (n + 1) - 1 : Queuing!Follows(r[i + 1], r[i])'
      <3>1. \A i \in 1 .. (n + 1) - 1 : i \in 1 .. n /\ (i = n \/ (i \in 1 .. n - 1 /\ i + 1 \in 1 .. n))
        OBVIOUS
      <3> HIDE DEF r
      <3> QED
        BY <2>2, <2>3, <2>4, <3>1
    <2>9. n + 1 # 0
      OBVIOUS
    <2> HIDE DEF r
    <2>10. IsQueue(r, n + 1, l)'
      BY <1>9, <2>2, <2>5, <2>6, <2>7, <2>8, <2>9 DEF IsQueue
    <2> QED
      BY <2>10 DEF r
  <1>17. \A k \in Locks : \E n \in Nat : \E s \in [1 .. n -> QueuedOn(k)'] : IsQueue(s, n, k)'
    <2>1. ASSUME NEW k \in Locks \ {l}
          PROVE  \E n \in Nat : \E s \in [1 .. n -> QueuedOn(k)'] : IsQueue(s, n, k)'
      <3>1. PICK n \in Nat, s \in Seq(QueuedOn(k)) : IsQueue(s, n, k)
        BY QueueExists
      <3>2. IsQueue(s, n, k)'
        BY <1>15, <3>1
      <3>3. s \in [1 .. n -> QueuedOn(k)']
        BY <3>2 DEF IsQueue
      <3> QED
        BY <3>2, <3>3
    <2>2. \E n \in Nat : \E s \in [1 .. n -> QueuedOn(l)'] : IsQueue(s, n, l)'
      <3>1. IsQueue(Append(s0, t), n0 + 1, l)'
        BY <1>1, <1>16
      <3>2. Append(s0, t) \in [1 .. n0 + 1 -> QueuedOn(l)']
        BY <3>1 DEF IsQueue
      <3>3. n0 + 1 \in Nat
        OBVIOUS
      <3> DEFINE m == n0 + 1
                 r == Append(s0, t)
      <3>4. m \in Nat /\ r \in [1 .. m -> QueuedOn(l)'] /\ IsQueue(r, m, l)'
        BY <3>1, <3>2, <3>3
      <3> HIDE DEF m, r
      <3> QED
        BY <3>4
    <2> QED
      BY <2>1, <2>2
  <1>18. QueuingLinked'
    <2>1. ASSUME NEW u \in Threads, next_waiting[u] # None
          PROVE  /\ u # t /\ next_waiting[u] # t /\ next_waiting[u] \in Threads /\ want[u] \in Locks
                 /\ pc[u] \in {"link", "spin"} /\ spin_here[u]
                 /\ pc[next_waiting[u]] = "spin" /\ Queuing!Queued(next_waiting[u], want[u])
      BY <1>0, <1>4, <2>1 DEF QueuingLinked, QueuingPlace, Queuing!TypeOK
    <2>2. \A k \in Locks : tail'[k] # None => next_waiting[tail'[k]] = None
      BY <1>0, <1>2, <1>4 DEF QueuingLinked, Queuing!TypeOK
    <2>3. ASSUME NEW u \in Threads, next_waiting[u] # None
          PROVE  Queuing!Queued(next_waiting[u], want[u])'
      BY <1>2, <1>7, <2>1, <2>3
    <2>4. ASSUME NEW u \in Threads, next_waiting'[u] # None
          PROVE  pc'[u] \in {"link", "spin"} /\ spin_here'[u] /\ pc'[next_waiting'[u]] = "spin"
      BY <1>2, <2>1, <2>4
    <2> QED
      BY <1>2, <2>2, <2>3, <2>4 DEF QueuingLinked
  <1>19. QueuingSeen'
    <2>1. ASSUME NEW u \in Threads, pc'[u] = "last" PROVE seen'[u] \in Threads \ {u}
      BY <1>0, <1>2, <2>1 DEF QueuingSeen
    <2>2. ASSUME NEW u \in Threads, pc'[u] = "link"
          PROVE  /\ seen[u] \in Threads /\ Queuing!Queued(seen[u], want[u]) /\ want[u] \in Locks
                 /\ next_waiting[seen[u]] = None
                 /\ head'[want[u]] # u
                 /\ \A v \in Threads : next_waiting[v] # u
      <3>1. CASE u = t
        <4>1. n0 # 0 /\ seen[t] = tail[l] /\ UNCHANGED head
          BY <1>3, <2>2, <3>1
        <4>2. tail[l] \in QueuedOn(l) /\ head[l] \in QueuedOn(l) /\ next_waiting[tail[l]] = None
          BY <1>1, <4>1, QueueEnds
        <4> QED
          BY <1>4, <1>8, <3>1, <4>1, <4>2 DEF QueuedOn
      <3>2. CASE u # t
        <4>1. pc[u] = "link" /\ want[u] \in Locks
          BY <1>0, <1>2, <2>2, <3>2 DEF QueuingPlace
        <4>2. head'[want[u]] # u
          BY <1>0, <1>3, <3>2, <4>1 DEF QueuingSeen, Queuing!TypeOK
        <4> QED
          BY <1>0, <4>1, <4>2 DEF QueuingSeen
      <3> QED
        BY <3>1, <3>2
    <2>3. ASSUME NEW u \in Threads, pc'[u] \in {"give_tail", "give_only", "give_next"}
          PROVE  seen'[u] \in Threads /\ seen'[u] = head'[want'[u]]
      <3>1. u # t /\ want[u] \in Locks /\ seen[u] \in Threads /\ seen[u] = head[want[u]]
        BY <1>0, <1>2, <2>3 DEF QueuingSeen, QueuingPlace
      <3>2. want[u] = l => head[l] # Queuing!NoQueue
        BY <3>1 DEF Queuing!NoQueue
      <3> QED
        BY <1>0, <1>2, <1>3, <3>1, <3>2 DEF Queuing!TypeOK
    <2>4. ASSUME NEW u \in Threads, pc'[u] \in Queuing!Waking
          PROVE  /\ seen'[u] \in Threads /\ pc'[seen'[u]] = "spin" /\ want'[seen'[u]] = want'[u]
                 /\ spin_here'[seen'[u]]
                 /\ pc'[u] = "wake" => next_waiting'[seen'[u]] = None
                 /\ \A v \in Threads : pc'[v] \in Queuing!Waking /\ seen'[v] = seen'[u] => v = u
      <3>1. u # t /\ pc[u] \in Queuing!Waking /\ seen[u] # t /\ seen[u] \in Threads
        BY <1>0, <1>4, <1>5, <2>4 DEF QueuingSeen
      <3> QED
        BY <1>0, <1>2, <1>5, <3>1 DEF QueuingSeen
    <2>5. ASSUME NEW u \in Threads, pc'[u] = "link" PROVE Queuing!Queued(seen[u], want[u])'
      BY <1>2, <1>7, <2>2, <2>5
    <2>6. ASSUME NEW u \in Threads, pc'[u] = "link"
          PROVE  /\ seen'[u] \in Threads /\ next_waiting'[seen'[u]] = None /\ head'[want'[u]] # u
                 /\ \A v \in Threads : next_waiting'[v] # u
      BY <1>2, <2>2, <2>6
    <2> QED
      BY <2>1, <2>3, <2>4, <2>5, <2>6 DEF QueuingSeen
  <1>20. QueuingPlace' /\ QueuingSpin'
    BY <1>0, <1>2, <1>4 DEF QueuingPlace, QueuingSpin, Queuing!Releasing, Queuing!Waking, Queuing!TypeOK
  <1> QED
    BY <1>8, <1>10, <1>11, <1>12, <1>13, <1>15, <1>16, <1>17, <1>18, <1>19, <1>20 DEF QueuingLine

\* A thread sets the link to itself.
LEMMA QueuingLink ==
    ASSUME QueuingLine, Queuing!TypeOK', NEW t \in Threads, Queuing!Link(t)
    PROVE  QueuesStay /\ HoldersStay
  <1> DEFINE p == seen[t]
             l == want[t]
  <1>0. Queuing!TypeOK /\ QueuingPlace /\ QueuingSpin /\ QueuingSeen /\ QueuingLinked
    BY DEF QueuingLine
  <1>1. /\ UNCHANGED <<head, tail, owner_id, depth, spin_here, want>>
        /\ pc[t] = "link" /\ pc' = [pc EXCEPT ![t] = "spin"]
        /\ next_waiting' = [next_waiting EXCEPT ![p] = t]
        /\ seen' = [seen EXCEPT ![t] = None]
    BY DEF Queuing!Link, Queuing!Go, Queuing!Forget, Queuing!lock
  <1>2. /\ p \in Threads /\ Queuing!Queued(p, l) /\ next_waiting[p] = None /\ head[l] # t
        /\ l \in Locks /\ spin_here[t]
        /\ \A u \in Threads : next_waiting[u] # t
    BY <1>0, <1>1 DEF QueuingSeen, QueuingPlace, QueuingSpin
  <1>3. PICK n0 \in Nat, s0 \in Seq(QueuedOn(l)) : IsQueue(s0, n0, l)
    BY <1>2, QueueExists
  <1>4. PICK m \in 1 .. n0 - 1 : s0[m] = p /\ s0[m + 1] = t
    BY <1>1, <1>3, LinkerInQueue
  <1>5. \A u \in Threads : pc[u] = "link" /\ seen[u] = p => u = t
    <2> SUFFICES ASSUME NEW u \in Threads, pc[u] = "link", seen[u] = p PROVE u = t
      OBVIOUS
    <2>1. want[u] = l
      BY <1>0, <1>2 DEF QueuingSeen, Queuing!Queued
    <2>2. PICK j \in 1 .. n0 - 1 : s0[j] = p /\ s0[j + 1] = u
      BY <1>3, <2>1, LinkerInQueue
    <2>3. j = m
      <3>1. j \in 1 .. n0 /\ m \in 1 .. n0
        OBVIOUS
      <3> QED
        BY <1>3, <1>4, <2>2, <3>1 DEF IsQueue
    <2> QED
      BY <1>4, <2>2, <2>3
  <1>6. \A k \in Locks : tail[k] # p
    <2> SUFFICES ASSUME NEW k \in Locks, tail[k] = p PROVE FALSE
      OBVIOUS
    <2>1. PICK n \in Nat, s \in Seq(QueuedOn(k)) : IsQueue(s, n, k)
      BY QueueExists
    <2>2. n # 0 /\ p \in QueuedOn(k)
      BY <1>2, <2>1, NoneAssumption, QueueEnds
    <2>3. k = l
      BY <1>2, <2>2 DEF QueuedOn, Queuing!Queued
    <2>4. n0 # 0 /\ tail[l] = s0[n0]
      <3>1. n0 # 0
        BY <1>4
      <3> QED
        BY <1>2, <1>3, <3>1, QueueEnds
    <2>5. s0[n0] = s0[m] /\ m \in 1 .. n0 /\ n0 \in 1 .. n0 /\ m # n0
      BY <1>4, <2>3, <2>4
    <2> QED
      BY <1>3, <2>5 DEF IsQueue
  <1>7. /\ next_waiting'[p] = t /\ pc'[t] = "spin" /\ seen'[t] = None
        /\ \A u \in Threads \ {p} : next_waiting'[u] = next_waiting[u]
        /\ \A u \in Threads \ {t} : pc'[u] = pc[u] /\ seen'[u] = seen[u]
    BY <1>0, <1>1, <1>2 DEF Queuing!TypeOK
  <1>8. \A w \in Threads : /\ pc'[w] \in Queuing!Waking <=> pc[w] \in Queuing!Waking
                           /\ pc[w] \in Queuing!Waking => w # t /\ seen'[w] = seen[w] /\ seen[w] # t
    BY <1>0, <1>1, <1>7 DEF Queuing!Waking, QueuingSeen
  <1>9. ASSUME NEW u \in Threads, NEW k \in Locks
        PROVE  Queuing!Given(u, k)' <=> Queuing!Given(u, k)
    <2>1. CASE u = t
      BY <1>1, <1>2, <1>7, <1>8, <2>1 DEF Queuing!Given
    <2>2. CASE u # t
      BY <1>1, <1>7, <1>8, <2>2 DEF Queuing!Given
    <2> QED
      BY <2>1, <2>2
  <1>10. \A u \in Threads, k \in Locks : Queuing!Queued(u, k)' <=> Queuing!Queued(u, k)
    BY <1>1, <1>7, <1>9 DEF Queuing!Queued
  <1>11. \A u \in Threads, k \in Locks : Queuing!Inside(u, k)' <=> Queuing!Inside(u, k)
    BY <1>1, <1>7 DEF Queuing!Inside, Queuing!Releasing
  <1>12. \A k \in Locks : QueuedOn(k)' = QueuedOn(k)
    BY <1>10 DEF QueuedOn
  <1>13. \A k \in Locks : Queuing!Holders(k)' = Queuing!Holders(k)
    BY <1>9, <1>11 DEF Queuing!Holders
  <1>14. ASSUME NEW u \in Threads, NEW v \in Threads, Queuing!Follows(u, v)
         PROVE  Queuing!Follows(u, v)'
    <2>1. CASE v = p
      <3>1. u = t
        BY <1>2, <1>5, <1>14, <2>1, NoneAssumption DEF Queuing!Follows
      <3> QED
        BY <1>7, <2>1, <3>1 DEF Queuing!Follows
    <2>2. CASE v # p
      <3>1. pc[u] = "link" /\ seen[u] = v => u # t
        BY <2>2
      <3> QED
        BY <1>7, <1>14, <2>2, <3>1 DEF Queuing!Follows
    <2> QED
      BY <2>1, <2>2
  <1>15. \A k \in Locks, n \in Nat : \A s : IsQueue(s, n, k) => IsQueue(s, n, k)'
    <2> SUFFICES ASSUME NEW k \in Locks, NEW n \in Nat, NEW s, IsQueue(s, n, k)
                 PROVE  IsQueue(s, n, k)'
      OBVIOUS
    <2>1. \A u, v \in QueuedOn(k) : Queuing!Follows(u, v) => Queuing!Follows(u, v)'
      BY <1>14 DEF QueuedOn
    <2> QED
      BY <1>1, <1>12, <2>1, QueueStays
  <1>16. \A k \in Locks : \E n \in Nat : \E s \in [1 .. n -> QueuedOn(k)'] : IsQueue(s, n, k)'
    BY <1>12, <1>15 DEF QueuingLine
  <1>17. QueuingHolder'
    BY <1>1, <1>13 DEF QueuingLine, QueuingHolder
  <1>18. QueuingLinked'
    <2>1. Queuing!Queued(t, l) /\ want[p] = l /\ spin_here[p] /\ pc[p] \in {"link", "spin"}
      BY <1>0, <1>1, <1>2 DEF Queuing!Queued, Queuing!Given, QueuingSpin
    <2>2. ASSUME NEW u \in Threads, next_waiting'[u] # None
          PROVE  /\ pc'[u] \in {"link", "spin"} /\ spin_here'[u]
                 /\ next_waiting'[u] \in Threads
                 /\ pc'[next_waiting'[u]] = "spin" /\ Queuing!Queued(next_waiting'[u], want[u])
                 /\ want[u] \in Locks
      <3>1. CASE u = p
        BY <1>1, <1>2, <1>7, <2>1, <3>1
      <3>2. CASE u # p
        <4>1. next_waiting'[u] = next_waiting[u] /\ next_waiting[u] \in Threads /\ next_waiting[u] # t
          BY <1>0, <1>2, <1>7, <2>2, <3>2 DEF Queuing!TypeOK
        <4>2. /\ pc[u] \in {"link", "spin"} /\ spin_here[u]
              /\ pc[next_waiting[u]] = "spin" /\ Queuing!Queued(next_waiting[u], want[u])
              /\ want[u] \in Locks
          BY <1>0, <2>2, <4>1 DEF QueuingLinked, QueuingPlace
        <4> QED
          BY <1>1, <1>7, <4>1, <4>2
      <3> QED
        BY <3>1, <3>2
    <2>3. \A k \in Locks : tail'[k] # None => next_waiting'[tail'[k]] = None
      BY <1>0, <1>1, <1>6, <1>7 DEF QueuingLinked, Queuing!TypeOK
    <2>4. ASSUME NEW u \in Threads, next_waiting'[u] # None
          PROVE  Queuing!Queued(next_waiting[u], want[u])'
      BY <1>1, <1>10, <2>2, <2>4
    <2> QED
      BY <2>2, <2>3, <2>4 DEF QueuingLinked
  <1>19. QueuingSeen'
    <2>1. ASSUME NEW u \in Threads, pc'[u] # "spin" PROVE u # t /\ pc'[u] = pc[u] /\ seen'[u] = seen[u]
      BY <1>7, <2>1
    <2>2. ASSUME NEW u \in Threads, pc'[u] = "link"
          PROVE  /\ seen[u] \in Threads /\ seen[u] # p /\ next_waiting[seen[u]] = None
                 /\ Queuing!Queued(seen[u], want[u]) /\ want[u] \in Locks
                 /\ head[want[u]] # u /\ \A v \in Threads : next_waiting'[v] # u
      BY <1>0, <1>2, <1>5, <1>7, <2>1, <2>2 DEF QueuingSeen, QueuingPlace
    <2>3. ASSUME NEW u \in Threads, pc'[u] = "link" PROVE Queuing!Queued(seen[u], want[u])'
      BY <1>1, <1>10, <2>1, <2>2, <2>3
    <2>4. ASSUME NEW u \in Threads, pc'[u] = "link"
          PROVE  /\ seen'[u] \in Threads /\ next_waiting'[seen'[u]] = None /\ head'[want'[u]] # u
                 /\ \A v \in Threads : next_waiting'[v] # u
      BY <1>1, <1>7, <2>1, <2>2, <2>4
    <2>5. ASSUME NEW u \in Threads, pc'[u] \in {"last", "give_tail", "give_only", "give_next"}
          PROVE  /\ pc'[u] = "last" => seen'[u] \in Threads \ {u}
                 /\ pc'[u] # "last" => seen'[u] \in Threads /\ seen'[u] = head'[want'[u]]
      BY <1>0, <1>1, <2>1, <2>5 DEF QueuingSeen
    <2>6. ASSUME NEW u \in Threads, pc'[u] \in Queuing!Waking
          PROVE  /\ seen'[u] \in Threads /\ pc'[seen'[u]] = "spin" /\ want'[seen'[u]] = want'[u]
                 /\ spin_here'[seen'[u]]
                 /\ pc'[u] = "wake" => next_waiting'[seen'[u]] = None
                 /\ \A v \in Threads : pc'[v] \in Queuing!Waking /\ seen'[v] = seen'[u] => v = u
      <3>1. pc[u] \in Queuing!Waking /\ u # t /\ seen'[u] = seen[u] /\ seen[u] # t /\ pc'[u] = pc[u]
        BY <1>7, <1>8, <2>6
      <3>2. seen[u] \in Threads /\ pc[seen[u]] = "spin" /\ want[seen[u]] = want[u] /\ spin_here[seen[u]]
            /\ (pc[u] = "wake" => next_waiting[seen[u]] = None)
        BY <1>0, <3>1 DEF QueuingSeen
      <3>3. seen[u] # p
        <4>1. Queuing!Given(seen[u], want[u])
          BY <3>1, <3>2 DEF Queuing!Given
        <4>2. want[p] = l /\ ~Queuing!Given(p, l)
          BY <1>2 DEF Queuing!Queued
        <4> QED
          BY <3>2, <4>1, <4>2
      <3>4. \A v \in Threads : pc'[v] \in Queuing!Waking /\ seen'[v] = seen'[u] => v = u
        BY <1>0, <1>8, <3>1 DEF QueuingSeen
      <3> QED
        BY <1>1, <1>7, <3>1, <3>2, <3>3, <3>4
    <2> QED
      BY <2>3, <2>4, <2>5, <2>6 DEF QueuingSeen
  <1>20. QueuingPlace' /\ QueuingSpin'
    BY <1>0, <1>1, <1>2, <1>7 DEF QueuingPlace, QueuingSpin, Queuing!Releasing, Queuing!Waking
  <1> QED
    BY <1>1, <1>11, <1>13, <1>15, <1>16, <1>17, <1>18, <1>19, <1>20
    DEF QueuingLine, QueuesStay, HoldersStay

\* A thread that spins finds that it has been given the lock.
LEMMA QueuingSpinStep ==
    ASSUME QueuingLine, Queuing!TypeOK', NEW t \in Threads, Queuing!Spin(t)
    PROVE  /\ QueuesStay
           /\ want[t] \in Locks
           /\ \A k \in Locks : Queuing!Holders(k)' = Queuing!Holders(k)
           /\ UNCHANGED head
           /\ \A u \in Threads, k \in Locks :
                  Queuing!Inside(u, k)' <=> Queuing!Inside(u, k) \/ (u = t /\ k = want[t])
           /\ Queuing!Holders(want[t]) = {t}
           /\ \A u \in Threads : ~Queuing!Inside(u, want[t])
  <1>0. Queuing!TypeOK /\ QueuingPlace /\ QueuingSpin /\ QueuingSeen /\ QueuingLinked
    BY DEF QueuingLine
  <1>1. /\ UNCHANGED <<head, tail, owner_id, depth, spin_here, next_waiting, want, seen>>
        /\ pc[t] = "spin" /\ pc' = [pc EXCEPT ![t] = "own"] /\ ~spin_here[t]
    BY DEF Queuing!Spin, Queuing!Local, Queuing!Go, Queuing!lock, Queuing!links
  <1>2. pc'[t] = "own" /\ \A u \in Threads \ {t} : pc'[u] = pc[u]
    BY <1>0, <1>1 DEF Queuing!TypeOK
  <1>3. want[t] \in Locks /\ Queuing!Given(t, want[t])
    BY <1>0, <1>1 DEF QueuingPlace, Queuing!Given
  <1>4. \A u \in Threads : /\ next_waiting[u] # t
                           /\ pc[u] \in {"link"} \cup Queuing!Waking => seen[u] # t
    <2>1. \A u \in Threads : next_waiting[u] # t
      BY <1>0, <1>3, NoneAssumption DEF QueuingLinked, Queuing!Queued, Queuing!Given
    <2>2. \A u \in Threads : pc[u] = "link" => seen[u] # t
      BY <1>0, <1>3 DEF QueuingSeen, Queuing!Queued, Queuing!Given
    <2>3. \A u \in Threads : pc[u] \in Queuing!Waking => seen[u] # t
      BY <1>0, <1>1 DEF QueuingSeen
    <2> QED
      BY <2>1, <2>2, <2>3
  <1>5. next_waiting[t] = None /\ \A k \in Locks : tail[k] # t \/ next_waiting[t] = None
    BY <1>0, <1>1 DEF QueuingLinked
  <1>6. \A w \in Threads : pc'[w] \in Queuing!Waking <=> pc[w] \in Queuing!Waking
    BY <1>1, <1>2 DEF Queuing!Waking
  <1>7. ASSUME NEW u \in Threads, NEW k \in Locks
        PROVE  Queuing!Given(u, k)' <=> Queuing!Given(u, k) /\ u # t
    <2>1. CASE u = t
      BY <1>2, <2>1 DEF Queuing!Given
    <2>2. CASE u # t
      BY <1>1, <1>2, <1>6, <2>2 DEF Queuing!Given
    <2> QED
      BY <2>1, <2>2
  <1>8. \A u \in Threads, k \in Locks : Queuing!Queued(u, k)' <=> Queuing!Queued(u, k)
    <2>1. \A k \in Locks : ~Queuing!Queued(t, k) /\ ~Queuing!Queued(t, k)'
      BY <1>2, <1>3 DEF Queuing!Queued, Queuing!Given
    <2>2. \A u \in Threads \ {t}, k \in Locks : Queuing!Queued(u, k)' <=> Queuing!Queued(u, k)
      BY <1>1, <1>2, <1>7 DEF Queuing!Queued
    <2> QED
      BY <2>1, <2>2
  <1>9. \A u \in Threads, k \in Locks :
            Queuing!Inside(u, k)' <=> Queuing!Inside(u, k) \/ (u = t /\ k = want[t])
    BY <1>1, <1>2 DEF Queuing!Inside, Queuing!Releasing
  <1>10. \A k \in Locks : Queuing!Holders(k)' = Queuing!Holders(k)
    <2>1. \A k \in Locks : Queuing!Given(t, k) => k = want[t]
      BY DEF Queuing!Given
    <2>2. \A u \in Threads, k \in Locks :
              Queuing!Inside(u, k)' \/ Queuing!Given(u, k)' <=> Queuing!Inside(u, k) \/ Queuing!Given(u, k)
      BY <1>3, <1>7, <1>9, <2>1
    <2> QED
      BY <2>2 DEF Queuing!Holders
  <1>11. head[want[t]] # None /\ Queuing!Holders(want[t]) = {t}
    BY <1>3 DEF QueuingLine, QueuingHolder, Queuing!Holders
  <1>12. \A u \in Threads : ~Queuing!Inside(u, want[t])
    BY <1>3, QueuingOwner, <1>11 DEF Queuing!Holders
  <1>13. \A k \in Locks : QueuedOn(k)' = QueuedOn(k)
    BY <1>8 DEF QueuedOn
  <1>14. ASSUME NEW u \in Threads, NEW v \in Threads, Queuing!Follows(u, v)
         PROVE  Queuing!Follows(u, v)'
    BY <1>1, <1>2, <1>14 DEF Queuing!Follows
  <1>15. \A k \in Locks, n \in Nat : \A s : IsQueue(s, n, k) => IsQueue(s, n, k)'
    <2> SUFFICES ASSUME NEW k \in Locks, NEW n \in Nat, NEW s, IsQueue(s, n, k)
                 PROVE  IsQueue(s, n, k)'
      OBVIOUS
    <2>1. \A u, v \in QueuedOn(k) : Queuing!Follows(u, v) => Queuing!Follows(u, v)'
      BY <1>14 DEF QueuedOn
    <2> QED
      BY <1>1, <1>13, <2>1, QueueStays
  <1>16. \A k \in Locks : \E n \in Nat : \E s \in [1 .. n -> QueuedOn(k)'] : IsQueue(s, n, k)'
    BY <1>13, <1>15 DEF QueuingLine
  <1>17. QueuingHolder'
    BY <1>1, <1>10 DEF QueuingLine, QueuingHolder
  <1>18. QueuingLinked'
    <2>1. ASSUME NEW u \in Threads, next_waiting[u] # None
          PROVE  /\ u # t /\ next_waiting[u] # t /\ next_waiting[u] \in Threads /\ want[u] \in Locks
                 /\ pc[u] \in {"link", "spin"} /\ spin_here[u]
                 /\ pc[next_waiting[u]] = "spin" /\ Queuing!Queued(next_waiting[u], want[u])
      BY <1>0, <1>4, <1>5, <2>1 DEF QueuingLinked, QueuingPlace, Queuing!TypeOK
    <2> QED
      BY <1>0, <1>1, <1>2, <1>8, <2>1 DEF QueuingLinked
  <1>19. QueuingSeen'
    <2>1. ASSUME NEW u \in Threads, pc'[u] # "own" PROVE u # t /\ pc'[u] = pc[u]
      BY <1>2, <2>1
    <2>2. ASSUME NEW u \in Threads, pc'[u] = "link"
          PROVE  /\ seen[u] \in Threads /\ next_waiting[seen[u]] = None
                 /\ Queuing!Queued(seen[u], want[u]) /\ want[u] \in Locks
                 /\ head[want[u]] # u /\ \A v \in Threads : next_waiting[v] # u
      BY <1>0, <2>1, <2>2 DEF QueuingSeen, QueuingPlace
    <2>3. ASSUME NEW u \in Threads, pc'[u] = "link" PROVE Queuing!Queued(seen[u], want[u])'
      BY <1>1, <1>8, <2>2, <2>3
    <2>4. ASSUME NEW u \in Threads, pc'[u] \in {"last", "give_tail", "give_only", "give_next"}
          PROVE  /\ pc'[u] = "last" => seen'[u] \in Threads \ {u}
                 /\ pc'[u] # "last" => seen'[u] \in Threads /\ seen'[u] = head'[want'[u]]
      BY <1>0, <1>1, <2>1, <2>4 DEF QueuingSeen
    <2>5. ASSUME NEW u \in Threads, pc'[u] \in Queuing!Waking
          PROVE  /\ seen'[u] \in Threads /\ pc'[seen'[u]] = "spin" /\ want'[seen'[u]] = want'[u]
                 /\ spin_here'[seen'[u]]
                 /\ pc'[u] = "wake" => next_waiting'[seen'[u]] = None
                 /\ \A v \in Threads : pc'[v] \in Queuing!Waking /\ seen'[v] = seen'[u] => v = u
      <3>1. pc[u] \in Queuing!Waking /\ pc'[u] = pc[u] /\ seen[u] # t
        BY <1>2, <1>4, <1>6, <2>5 DEF Queuing!Waking
      <3>2. seen[u] \in Threads /\ pc[seen[u]] = "spin" /\ want[seen[u]] = want[u] /\ spin_here[seen[u]]
            /\ (pc[u] = "wake" => next_waiting[seen[u]] = None)
            /\ \A v \in Threads : pc[v] \in Queuing!Waking /\ seen[v] = seen[u] => v = u
        BY <1>0, <3>1 DEF QueuingSeen
      <3> QED
        BY <1>1, <1>2, <1>6, <3>1, <3>2
    <2> QED
      BY <1>1, <2>2, <2>3, <2>4, <2>5 DEF QueuingSeen
  <1>20. QueuingPlace' /\ QueuingSpin'
    BY <1>0, <1>1, <1>2 DEF QueuingPlace, QueuingSpin, Queuing!Releasing, Queuing!Waking
  <1> QED
    BY <1>1, <1>3, <1>9, <1>10, <1>11, <1>12, <1>15, <1>16, <1>17, <1>18, <1>19, <1>20
    DEF QueuingLine, QueuesStay

\* The link to a thread that is woken is cleared, and then it is told.
LEMMA QueuingWaking ==
    ASSUME QueuingLine, Queuing!TypeOK', NEW t \in Threads,
           Queuing!Unlink(t) \/ Queuing!Wake(t)
    PROVE  QueuesStay /\ HoldersStay
  <1> DEFINE h == seen[t]
  <1>0. Queuing!TypeOK /\ QueuingPlace /\ QueuingSpin /\ QueuingSeen /\ QueuingLinked
    BY DEF QueuingLine
  <1>1. /\ UNCHANGED <<head, tail, owner_id, depth>>
        /\ \A u \in Threads \ {t} : pc'[u] = pc[u] /\ want'[u] = want[u] /\ seen'[u] = seen[u]
        /\ \A u \in Threads \ {h} : spin_here'[u] = spin_here[u] /\ next_waiting'[u] = next_waiting[u]
        /\ h \in Threads /\ pc[h] = "spin" /\ want[h] = want[t] /\ spin_here[h]
        /\ want[t] \in Locks /\ h # t
        /\ \A u \in Threads : pc[u] \in Queuing!Waking /\ seen[u] = h => u = t
        /\ pc[t] \in Queuing!Waking
    <2>1. pc[t] \in Queuing!Waking
      BY DEF Queuing!Unlink, Queuing!Wake, Queuing!Go, Queuing!Return, Queuing!Waking
    <2>2. /\ h \in Threads /\ pc[h] = "spin" /\ want[h] = want[t] /\ spin_here[h]
          /\ want[t] \in Locks /\ h # t
          /\ \A u \in Threads : pc[u] \in Queuing!Waking /\ seen[u] = h => u = t
      BY <1>0, <2>1 DEF QueuingSeen, QueuingPlace, Queuing!Waking
    <2>3. CASE Queuing!Unlink(t)
      BY <1>0, <2>1, <2>2, <2>3 DEF Queuing!Unlink, Queuing!Go, Queuing!lock, Queuing!TypeOK
    <2>4. CASE Queuing!Wake(t)
      BY <1>0, <2>1, <2>2, <2>4
      DEF Queuing!Wake, Queuing!Go, Queuing!Return, Queuing!Forget, Queuing!lock, Queuing!TypeOK
    <2> QED
      BY <2>1, <2>2, <2>3, <2>4
  <1>2. \/ /\ pc[t] = "unlink" /\ pc'[t] = "wake" /\ seen'[t] = h /\ want'[t] = want[t]
           /\ spin_here' = spin_here /\ next_waiting'[h] = None
        \/ /\ pc[t] = "wake" /\ pc'[t] = "program" /\ want'[t] = None
           /\ next_waiting' = next_waiting /\ next_waiting[h] = None /\ spin_here'[h] = FALSE
    BY <1>0, <1>1 DEF Queuing!Unlink, Queuing!Wake, Queuing!Go, Queuing!Return, Queuing!Forget,
           Queuing!lock, Queuing!TypeOK, QueuingSeen
  <1>3. ~spin_here[t] /\ ~spin_here'[t] /\ pc'[h] = "spin" /\ want'[h] = want[h]
    <2>1. ~spin_here[t]
      BY <1>0, <1>1 DEF QueuingSpin
    <2> QED
      BY <1>1, <2>1
  <1>4. Queuing!Given(h, want[t]) /\ (pc'[h] = "spin" /\ (~spin_here'[h] \/ \E u \in Threads : pc'[u] \in Queuing!Waking /\ seen'[u] = h))
    <2>1. Queuing!Given(h, want[t])
      BY <1>1 DEF Queuing!Given
    <2>2. CASE pc'[t] = "wake"
      <3>1. pc'[t] \in Queuing!Waking /\ seen'[t] = h /\ want'[t] = want[t]
        BY <1>2, <2>2 DEF Queuing!Waking
      <3> QED
        BY <1>1, <1>3, <2>1, <3>1 DEF Queuing!Given
    <2>3. CASE pc'[t] # "wake"
      <3>1. ~spin_here'[h]
        BY <1>2, <2>3
      <3> QED
        BY <1>1, <1>3, <2>1, <3>1 DEF Queuing!Given
    <2> QED
      BY <2>2, <2>3
  <1>5. ASSUME NEW u \in Threads, NEW k \in Locks
        PROVE  Queuing!Given(u, k)' <=> Queuing!Given(u, k)
    <2>1. CASE u = h
      BY <1>1, <1>3, <1>4, <2>1 DEF Queuing!Given
    <2>2. CASE u # h
      <3>1. \A w \in Threads : (pc'[w] \in Queuing!Waking /\ seen'[w] = u) <=> (pc[w] \in Queuing!Waking /\ seen[w] = u)
        BY <1>1, <1>2, <2>2 DEF Queuing!Waking
      <3>2. CASE u = t
        BY <1>1, <1>2, <3>2 DEF Queuing!Given, Queuing!Waking
      <3>3. CASE u # t
        BY <1>1, <2>2, <3>1, <3>3 DEF Queuing!Given
      <3> QED
        BY <3>2, <3>3
    <2> QED
      BY <2>1, <2>2
  <1>6. \A u \in Threads, k \in Locks : Queuing!Queued(u, k)' <=> Queuing!Queued(u, k)
    <2>1. \A k \in Locks : ~Queuing!Queued(t, k) /\ ~Queuing!Queued(t, k)'
      BY <1>2 DEF Queuing!Queued
    <2>2. \A u \in Threads \ {t}, k \in Locks : Queuing!Queued(u, k)' <=> Queuing!Queued(u, k)
      BY <1>1, <1>5 DEF Queuing!Queued
    <2> QED
      BY <2>1, <2>2
  <1>7. \A k \in Locks : ~Queuing!Queued(h, k)
    BY <1>1, <1>4 DEF Queuing!Queued
  <1>8. \A u \in Threads, k \in Locks : Queuing!Inside(u, k)' <=> Queuing!Inside(u, k)
    <2>1. \A k \in Locks : Queuing!Inside(t, k)' <=> Queuing!Inside(t, k)
      BY <1>1, <1>2 DEF Queuing!Inside, Queuing!Releasing
    <2>2. \A u \in Threads \ {t}, k \in Locks : Queuing!Inside(u, k)' <=> Queuing!Inside(u, k)
      BY <1>1 DEF Queuing!Inside
    <2> QED
      BY <2>1, <2>2
  <1>9. \A k \in Locks : QueuedOn(k)' = QueuedOn(k)
    BY <1>6 DEF QueuedOn
  <1>10. \A k \in Locks : Queuing!Holders(k)' = Queuing!Holders(k)
    BY <1>5, <1>8 DEF Queuing!Holders
  <1>11. ASSUME NEW u \in Threads, NEW v \in Threads, v # h, Queuing!Follows(u, v)
         PROVE  Queuing!Follows(u, v)'
    BY <1>1, <1>2, <1>11 DEF Queuing!Follows
  <1>12. \A k \in Locks, n \in Nat : \A s : IsQueue(s, n, k) => IsQueue(s, n, k)'
    <2> SUFFICES ASSUME NEW k \in Locks, NEW n \in Nat, NEW s, IsQueue(s, n, k)
                 PROVE  IsQueue(s, n, k)'
      OBVIOUS
    <2>1. \A u, v \in QueuedOn(k) : Queuing!Follows(u, v) => Queuing!Follows(u, v)'
      BY <1>7, <1>11 DEF QueuedOn
    <2> QED
      BY <1>1, <1>9, <2>1, QueueStays
  <1>13. \A k \in Locks : \E n \in Nat : \E s \in [1 .. n -> QueuedOn(k)'] : IsQueue(s, n, k)'
    BY <1>9, <1>12 DEF QueuingLine
  <1>14. QueuingHolder'
    BY <1>1, <1>10 DEF QueuingLine, QueuingHolder
  <1>15. QueuingLinked'
    <2>1. ASSUME NEW u \in Threads, next_waiting'[u] # None
          PROVE  /\ next_waiting'[u] = next_waiting[u] /\ u # h
                 /\ next_waiting[u] # t /\ next_waiting[u] \in Threads /\ want[u] \in Locks
                 /\ pc[u] \in {"link", "spin"} /\ spin_here[u] /\ u # t
                 /\ pc[next_waiting[u]] = "spin" /\ Queuing!Queued(next_waiting[u], want[u])
      <3>1. u # h /\ next_waiting'[u] = next_waiting[u]
        BY <1>1, <1>2, <2>1
      <3> QED
        BY <1>0, <1>2, <2>1, <3>1 DEF QueuingLinked, QueuingPlace, Queuing!TypeOK
    <2>2. \A u \in Threads : next_waiting'[u] = next_waiting[u] \/ next_waiting'[u] = None
      BY <1>1, <1>2
    <2>3. \A k \in Locks : tail'[k] # None => next_waiting'[tail'[k]] = None
      BY <1>0, <1>1, <2>2 DEF QueuingLinked, Queuing!TypeOK
    <2>4. ASSUME NEW u \in Threads, next_waiting'[u] # None
          PROVE  Queuing!Queued(next_waiting[u], want[u])'
      BY <1>1, <1>6, <2>1, <2>4
    <2> QED
      BY <1>1, <2>1, <2>3, <2>4 DEF QueuingLinked
  <1>16. QueuingSeen'
    <2>1. ASSUME NEW u \in Threads, pc'[u] \notin {"program", "wake"}
          PROVE  u # t /\ pc'[u] = pc[u] /\ seen'[u] = seen[u] /\ want'[u] = want[u]
      BY <1>1, <1>2, <2>1
    <2>2. \A u \in Threads : next_waiting'[u] = next_waiting[u] \/ next_waiting'[u] = None
      BY <1>1, <1>2
    <2>3. ASSUME NEW u \in Threads, pc'[u] = "link"
          PROVE  /\ seen[u] \in Threads /\ next_waiting[seen[u]] = None
                 /\ Queuing!Queued(seen[u], want[u]) /\ want[u] \in Locks
                 /\ head[want[u]] # u /\ \A v \in Threads : next_waiting[v] # u
      BY <1>0, <2>1, <2>3 DEF QueuingSeen, QueuingPlace
    <2>4. ASSUME NEW u \in Threads, pc'[u] = "link"
          PROVE  /\ Queuing!Queued(seen[u], want[u])' /\ seen'[u] \in Threads
                 /\ next_waiting'[seen'[u]] = None /\ head'[want'[u]] # u
                 /\ \A v \in Threads : next_waiting'[v] # u
      <3>1. Queuing!Queued(seen[u], want[u])'
        BY <1>6, <2>1, <2>3, <2>4
      <3> QED
        BY <1>1, <2>1, <2>2, <2>3, <2>4, <3>1, NoneAssumption
    <2>5. ASSUME NEW u \in Threads, pc'[u] \in {"last", "give_tail", "give_only", "give_next"}
          PROVE  /\ pc'[u] = "last" => seen'[u] \in Threads \ {u}
                 /\ pc'[u] # "last" => seen'[u] \in Threads /\ seen'[u] = head'[want'[u]]
      BY <1>0, <1>1, <2>1, <2>5 DEF QueuingSeen
    <2>6. ASSUME NEW u \in Threads, pc'[u] \in Queuing!Waking
          PROVE  /\ seen'[u] \in Threads /\ pc'[seen'[u]] = "spin" /\ want'[seen'[u]] = want'[u]
                 /\ spin_here'[seen'[u]]
                 /\ pc'[u] = "wake" => next_waiting'[seen'[u]] = None
                 /\ \A v \in Threads : pc'[v] \in Queuing!Waking /\ seen'[v] = seen'[u] => v = u
      <3>1. \A v \in Threads : pc'[v] \in Queuing!Waking =>
                pc[v] \in Queuing!Waking /\ seen'[v] = seen[v] /\ want'[v] = want[v]
        BY <1>1, <1>2 DEF Queuing!Waking
      <3>2. /\ seen[u] \in Threads /\ pc[seen[u]] = "spin" /\ want[seen[u]] = want[u] /\ spin_here[seen[u]]
            /\ (pc[u] = "wake" => next_waiting[seen[u]] = None)
            /\ \A v \in Threads : pc[v] \in Queuing!Waking /\ seen[v] = seen[u] => v = u
        BY <1>0, <2>6, <3>1 DEF QueuingSeen
      <3>3. CASE u = t
        BY <1>1, <1>2, <1>3, <2>6, <3>1, <3>2, <3>3 DEF Queuing!Waking
      <3>4. CASE u # t
        <4>1. seen[u] # h /\ pc'[u] = pc[u] /\ seen[u] # t
          BY <1>1, <2>6, <3>1, <3>2, <3>4 DEF Queuing!Waking
        <4> QED
          BY <1>1, <2>6, <3>1, <3>2, <4>1
      <3> QED
        BY <3>3, <3>4
    <2> QED
      BY <1>1, <2>1, <2>3, <2>4, <2>5, <2>6 DEF QueuingSeen
  <1>17. QueuingPlace'
    BY <1>0, <1>1, <1>2, NoneAssumption, LocksAssumption DEF QueuingPlace, Queuing!TypeOK
  <1>18. QueuingSpin'
    <2>1. \A u \in Threads : spin_here'[u] => spin_here[u]
      BY <1>1, <1>3
    <2> QED
      BY <1>0, <1>1, <1>2, <1>3, <2>1 DEF QueuingSpin, Queuing!Releasing, Queuing!Waking
  <1> QED
    BY <1>1, <1>8, <1>10, <1>12, <1>13, <1>14, <1>15, <1>16, <1>17, <1>18
    DEF QueuingLine, QueuesStay, HoldersStay

\* The holder gives the lock to the first thread of the queue.
LEMMA QueuingGive ==
    ASSUME QueuingLine, Queuing!TypeOK', NEW t \in Threads, NEW l \in Locks, want[t] = l,
           Queuing!GiveOnly(t) \/ Queuing!GiveNext(t), pc'[t] = "unlink"
    PROVE  /\ QueuingLine'
           /\ \A k \in Locks \ {l}, n \in Nat : \A s : IsQueue(s, n, k) => IsQueue(s, n, k)'
           /\ \A n \in Nat : \A s : IsQueue(s, n, l) => n # 0 /\ IsQueue(Tail(s), n - 1, l)'
           /\ \A k \in Locks \ {l} : head'[k] = head[k] /\ Queuing!Holders(k)' = Queuing!Holders(k)
           /\ Queuing!Holders(l) = {t} /\ Queuing!Holders(l)' = {head[l]}
           /\ head[l] # None /\ head'[l] # None
           /\ \A u \in Threads, k \in Locks :
                  Queuing!Inside(u, k)' <=> Queuing!Inside(u, k) /\ k # l
           /\ Queuing!Inside(t, l)
  <1> USE NoneAssumption, ThreadsAssumption
  <1> DEFINE h == seen[t]
  <1>0. Queuing!TypeOK /\ QueuingPlace /\ QueuingSpin /\ QueuingSeen /\ QueuingLinked
    BY DEF QueuingLine
  <1>1. /\ UNCHANGED <<owner_id, depth, spin_here, next_waiting, want, seen>>
        /\ pc[t] \in {"give_only", "give_next"} /\ pc' = [pc EXCEPT ![t] = "unlink"]
        /\ \A u \in Threads \ {t} : pc'[u] = pc[u]
        /\ \A k \in Locks \ {l} : head'[k] = head[k] /\ tail'[k] = tail[k]
    BY <1>0 DEF Queuing!TypeOK, Queuing!GiveOnly, Queuing!GiveNext, Queuing!Go, Queuing!Queue, Queuing!links
  <1>2. \/ /\ pc[t] = "give_only" /\ tail[l] = h /\ head'[l] = Queuing!NoQueue /\ tail'[l] = None
        \/ /\ pc[t] = "give_next" /\ next_waiting[h] # None
           /\ head'[l] = next_waiting[h] /\ tail'[l] = tail[l]
    BY <1>0 DEF Queuing!TypeOK, Queuing!GiveOnly, Queuing!GiveNext, Queuing!Go, Queuing!Queue
  <1>3. h \in Threads /\ head[l] = h
    BY <1>0, <1>1 DEF QueuingSeen
  <1>4. Queuing!Inside(t, l) /\ owner_id[l] # t
    <2>1. Queuing!Inside(t, l)
      BY <1>1 DEF Queuing!Inside, Queuing!Releasing
    <2> QED
      BY <2>1, QueuingOwner
  <1>5. /\ \A u \in Threads : Queuing!Inside(u, l) => u = t
        /\ \A u \in Threads : ~Queuing!Given(u, l)
    BY <1>4, QueuingOwner
  <1>6. PICK n0 \in Nat, s0 \in Seq(QueuedOn(l)) : IsQueue(s0, n0, l)
    BY QueueExists
  <1>7. ASSUME NEW n \in Nat, NEW s, IsQueue(s, n, l)
        PROVE  /\ n # 0 /\ s[1] = h /\ 1 \in 1 .. n /\ h \in QueuedOn(l)
               /\ pc[h] = "spin" /\ want[h] = l /\ spin_here[h]
               /\ \/ n = 1 /\ head'[l] = Queuing!NoQueue /\ tail'[l] = None
                  \/ n > 1 /\ next_waiting[h] # None /\ head'[l] = s[2] /\ tail'[l] = s[n]
    <2>0. h \notin {None, Queuing!NoQueue}
      BY <1>3 DEF Queuing!NoQueue
    <2>1. n # 0
      BY <1>3, <1>7, <2>0, QueueEnds
    <2>2. s[1] = h /\ s[n] = tail[l] /\ 1 \in 1 .. n /\ n \in 1 .. n /\ h \in QueuedOn(l)
          /\ pc[h] = "spin" /\ next_waiting[tail[l]] = None
      BY <1>3, <1>7, <2>1, QueueEnds
    <2>3. want[h] = l /\ spin_here[h]
      BY <1>3, <2>2 DEF QueuedOn, Queuing!Queued, Queuing!Given
    <2>4. CASE pc[t] = "give_only"
      <3>1. s[n] = s[1]
        BY <1>2, <2>2, <2>4
      <3>2. n = 1
        BY <1>7, <2>2, <3>1 DEF IsQueue
      <3> QED
        BY <1>2, <2>1, <2>2, <2>3, <2>4, <3>2
    <2>5. CASE pc[t] # "give_only"
      <3>1. next_waiting[h] # None /\ head'[l] = next_waiting[h] /\ tail'[l] = tail[l]
        BY <1>2, <2>5
      <3>2. n # 1
        BY <2>2, <3>1
      <3>3. n > 1 /\ 1 \in 1 .. n - 1 /\ 1 + 1 = 2
        BY <2>1, <3>2
      <3>4. Queuing!Follows(s[2], s[1])
        BY <1>7, <3>3 DEF IsQueue
      <3>5. next_waiting[h] = s[2]
        BY <2>2, <3>1, <3>4 DEF Queuing!Follows
      <3> QED
        BY <2>1, <2>2, <2>3, <3>1, <3>3, <3>5
    <2> QED
      BY <2>4, <2>5
  <1>8. /\ h # t /\ h \in QueuedOn(l) /\ pc[h] = "spin" /\ want[h] = l /\ spin_here[h]
        /\ head'[l] # None
    <2>1. h # t /\ h \in QueuedOn(l) /\ pc[h] = "spin" /\ want[h] = l /\ spin_here[h]
      BY <1>1, <1>6, <1>7
    <2>2. head'[l] # None
      BY <1>2 DEF Queuing!NoQueue
    <2> QED
      BY <2>1, <2>2
  <1>9. \A u \in Threads : next_waiting[u] # h
    <2> SUFFICES ASSUME NEW u \in Threads, next_waiting[u] = h PROVE FALSE
      OBVIOUS
    <2>1. Queuing!Queued(h, want[u]) /\ pc[u] \in {"link", "spin"}
      BY <1>0, <1>3 DEF QueuingLinked
    <2>2. want[u] = l
      BY <1>8, <2>1 DEF Queuing!Queued
    <2>3. u \in QueuedOn(l)
      BY <1>5, <2>1, <2>2 DEF QueuedOn, Queuing!Queued
    <2>4. PICK i \in 1 .. n0 : s0[i] = u
      BY <1>6, <2>3 DEF IsQueue
    <2>5. i # n0
      BY <1>3, <1>6, <1>7, <2>4, QueueEnds
    <2>6. i \in 1 .. n0 - 1 /\ i + 1 \in 1 .. n0
      BY <2>4, <2>5
    <2>7. Queuing!Follows(s0[i + 1], s0[i])
      BY <1>6, <2>6 DEF IsQueue
    <2>8. s0[i + 1] = h
      BY <1>3, <2>4, <2>7 DEF Queuing!Follows
    <2>9. i + 1 = 1
      <3>1. s0[1] = h /\ 1 \in 1 .. n0
        BY <1>6, <1>7
      <3>2. \A a, b \in 1 .. n0 : s0[a] = s0[b] => a = b
        BY <1>6 DEF IsQueue
      <3> QED
        BY <2>6, <2>8, <3>1, <3>2
    <2> QED
      BY <2>4, <2>9
  <1>10. \A u \in Threads : pc[u] = "link" => seen[u] # h
    <2> SUFFICES ASSUME NEW u \in Threads, pc[u] = "link", seen[u] = h PROVE FALSE
      OBVIOUS
    <2>1. next_waiting[h] = None /\ want[u] = l
      BY <1>0, <1>8 DEF QueuingSeen, Queuing!Queued
    <2>2. n0 = 1
      BY <1>6, <1>7, <2>1
    <2>3. \E m \in 1 .. n0 - 1 : s0[m] = seen[u] /\ s0[m + 1] = u
      BY <1>6, <2>1, LinkerInQueue
    <2> QED
      BY <2>2, <2>3
  <1>11. \A u \in Threads : /\ pc'[u] \in Queuing!Waking <=> pc[u] \in Queuing!Waking \/ u = t
                            /\ pc[u] \in Queuing!Waking => u # t /\ seen[u] # h
    <2>1. \A u \in Threads : pc[u] \in Queuing!Waking => Queuing!Given(seen[u], want[u]) /\ seen[u] \in Threads
      BY <1>0 DEF QueuingSeen, Queuing!Given
    <2>2. \A k \in Locks : ~Queuing!Given(h, k)
      BY <1>8 DEF QueuedOn, Queuing!Queued, Queuing!Given
    <2>3. \A u \in Threads : pc[u] \in Queuing!Waking => want[u] \in Locks
      BY <1>0 DEF QueuingPlace, Queuing!Waking
    <2> QED
      BY <1>1, <2>1, <2>2, <2>3 DEF Queuing!Waking
  <1>12. ASSUME NEW u \in Threads, NEW k \in Locks
         PROVE  Queuing!Given(u, k)' <=> Queuing!Given(u, k) \/ (u = h /\ k = l)
    <2>1. CASE u = h
      BY <1>1, <1>8, <1>11, <2>1 DEF Queuing!Given
    <2>2. CASE u # h
      <3>1. \A w \in Threads : (pc'[w] \in Queuing!Waking /\ seen[w] = u) <=> (pc[w] \in Queuing!Waking /\ seen[w] = u)
        BY <1>11, <2>2
      <3>2. pc'[u] = "spin" <=> pc[u] = "spin"
        BY <1>1
      <3> QED
        BY <1>1, <2>2, <3>1, <3>2 DEF Queuing!Given
    <2> QED
      BY <2>1, <2>2
  <1>13. \A u \in Threads, k \in Locks : Queuing!Queued(u, k)' <=> Queuing!Queued(u, k) /\ u # h
    <2>1. \A k \in Locks : Queuing!Queued(h, k) => k = l
      BY <1>8 DEF Queuing!Queued
    <2>2. \A u \in Threads, k \in Locks : want'[u] = k /\ pc'[u] \in {"link", "spin"} <=> want[u] = k /\ pc[u] \in {"link", "spin"}
      BY <1>1
    <2> QED
      BY <1>8, <1>12, <2>1, <2>2 DEF Queuing!Queued
  <1>14. \A u \in Threads, k \in Locks : Queuing!Inside(u, k)' <=> Queuing!Inside(u, k) /\ k # l
    <2>1. \A u \in Threads, k \in Locks :
              Queuing!Inside(u, k)' <=> Queuing!Inside(u, k) /\ ~(u = t /\ k = l)
      BY <1>1, <1>4 DEF Queuing!Inside, Queuing!Releasing
    <2> QED
      BY <1>5, <2>1
  <1>15. Queuing!Holders(l) = {t} /\ Queuing!Holders(l)' = {h}
    BY <1>3, <1>4, <1>5, <1>12, <1>14 DEF Queuing!Holders
  <1>16. \A k \in Locks \ {l} : Queuing!Holders(k)' = Queuing!Holders(k)
    BY <1>12, <1>14 DEF Queuing!Holders
  <1>17. QueuingHolder'
    BY <1>1, <1>3, <1>8, <1>15, <1>16 DEF QueuingLine, QueuingHolder
  <1>18. /\ \A k \in Locks \ {l} : QueuedOn(k)' = QueuedOn(k)
         /\ QueuedOn(l)' = QueuedOn(l) \ {h}
    <2>1. \A k \in Locks \ {l} : ~Queuing!Queued(h, k)
      BY <1>8 DEF Queuing!Queued
    <2> QED
      BY <1>13, <2>1 DEF QueuedOn
  <1>19. ASSUME NEW u \in Threads, NEW v \in Threads, Queuing!Follows(u, v)
         PROVE  Queuing!Follows(u, v)'
    BY <1>1, <1>19 DEF Queuing!Follows
  <1>20. ASSUME NEW k \in Locks \ {l}, NEW n \in Nat, NEW s, IsQueue(s, n, k)
         PROVE  IsQueue(s, n, k)'
    <2>1. \A u, v \in QueuedOn(k) : Queuing!Follows(u, v) => Queuing!Follows(u, v)'
      BY <1>19 DEF QueuedOn
    <2> QED
      BY <1>1, <1>18, <1>20, <2>1, QueueStays
  <1>21. ASSUME NEW n \in Nat, NEW s, IsQueue(s, n, l)
         PROVE  n # 0 /\ n - 1 \in Nat /\ IsQueue(Tail(s), n - 1, l)'
    <2>0. s \in [1 .. n -> QueuedOn(l)] /\ n # 0 /\ 1 \in 1 .. n /\ s[1] = h /\ n - 1 \in Nat
      BY <1>7, <1>21 DEF IsQueue
    <2> DEFINE m == n - 1
               r == Tail(s)
    <2>1. /\ r \in [1 .. m -> QueuedOn(l)] /\ \A i \in 1 .. m : r[i] = s[i + 1]
      <3>1. s \in Seq(QueuedOn(l)) /\ Len(s) = n /\ s # << >>
        BY <2>0
      <3>2. r \in Seq(QueuedOn(l)) /\ Len(r) = m
        BY <2>0, <3>1
      <3>3. \A i \in 1 .. m : r[i] = s[i + 1]
        BY <3>1
      <3> HIDE DEF r, m
      <3> QED
        BY <3>2, <3>3
    <2>2. \A i \in 1 .. m : i + 1 \in 1 .. n /\ i + 1 # 1
      BY <2>0
    <2>3. \A i, j \in 1 .. n : s[i] = s[j] => i = j
      BY <1>21 DEF IsQueue
    <2>4. r \in [1 .. m -> QueuedOn(l) \ {h}]
      <3>1. \A i \in 1 .. m : r[i] # h
        BY <2>0, <2>1, <2>2, <2>3
      <3> HIDE DEF r, m
      <3> QED
        BY <2>1, <3>1
    <2>5. \A u \in QueuedOn(l) \ {h} : \E i \in 1 .. m : r[i] = u
      <3> SUFFICES ASSUME NEW u \in QueuedOn(l) \ {h} PROVE \E i \in 1 .. m : r[i] = u
        OBVIOUS
      <3>1. PICK j \in 1 .. n : s[j] = u
        BY <1>21 DEF IsQueue
      <3>2. j # 1 /\ j - 1 \in 1 .. m /\ (j - 1) + 1 = j
        BY <2>0, <3>1
      <3>3. r[j - 1] = u
        BY <2>1, <3>1, <3>2
      <3> HIDE DEF r, m
      <3> QED
        BY <3>2, <3>3
    <2>6. \A i, j \in 1 .. m : r[i] = r[j] => i = j
      <3> SUFFICES ASSUME NEW i \in 1 .. m, NEW j \in 1 .. m, r[i] = r[j] PROVE i = j
        OBVIOUS
      <3>1. i + 1 = j + 1
        BY <2>1, <2>2, <2>3
      <3> QED
        BY <3>1
    <2>7. \A i \in 1 .. m - 1 : Queuing!Follows(r[i + 1], r[i])'
      <3> SUFFICES ASSUME NEW i \in 1 .. m - 1 PROVE Queuing!Follows(r[i + 1], r[i])'
        OBVIOUS
      <3>1. /\ i \in 1 .. m /\ i + 1 \in 1 .. m /\ i + 1 \in 1 .. n - 1
            /\ (i + 1) + 1 \in 1 .. n /\ i + 1 \in 1 .. n
        BY <2>0
      <3>2. Queuing!Follows(s[(i + 1) + 1], s[i + 1])
        BY <1>21, <3>1 DEF IsQueue
      <3>3. s[(i + 1) + 1] \in Threads /\ s[i + 1] \in Threads
        BY <2>0, <3>1 DEF QueuedOn
      <3>4. Queuing!Follows(s[(i + 1) + 1], s[i + 1])'
        BY <1>19, <3>2, <3>3
      <3>5. r[i + 1] = s[(i + 1) + 1] /\ r[i] = s[i + 1]
        BY <2>1, <3>1
      <3> HIDE DEF r
      <3> QED
        BY <3>4, <3>5
    <2>8. IF m = 0 THEN head'[l] \in {None, Queuing!NoQueue} /\ tail'[l] = None
                   ELSE head'[l] = r[1] /\ tail'[l] = r[m]
      <3>1. \/ n = 1 /\ head'[l] = Queuing!NoQueue /\ tail'[l] = None
            \/ n > 1 /\ next_waiting[h] # None /\ head'[l] = s[2] /\ tail'[l] = s[n]
        BY <1>7, <1>21
      <3>2. n > 1 => 1 \in 1 .. m /\ m \in 1 .. m /\ m + 1 = n /\ 1 + 1 = 2 /\ m # 0
        BY <2>0
      <3>3. n > 1 => r[1] = s[2] /\ r[m] = s[n]
        BY <2>1, <3>2
      <3>4. n = 1 => m = 0
        OBVIOUS
      <3> HIDE DEF r, m
      <3> QED
        BY <3>1, <3>2, <3>3, <3>4
    <2> HIDE DEF r, m
    <2>9. IsQueue(r, m, l)'
      BY <1>18, <2>4, <2>5, <2>6, <2>7, <2>8 DEF IsQueue
    <2> QED
      BY <2>0, <2>9 DEF r, m
  <1>22. \A k \in Locks : \E n \in Nat : \E s \in [1 .. n -> QueuedOn(k)'] : IsQueue(s, n, k)'
    <2>1. ASSUME NEW k \in Locks \ {l}
          PROVE  \E n \in Nat : \E s \in [1 .. n -> QueuedOn(k)'] : IsQueue(s, n, k)'
      <3>1. PICK n \in Nat, s \in Seq(QueuedOn(k)) : IsQueue(s, n, k)
        BY QueueExists
      <3>2. IsQueue(s, n, k)'
        BY <1>20, <3>1
      <3>3. s \in [1 .. n -> QueuedOn(k)']
        BY <3>2 DEF IsQueue
      <3> QED
        BY <3>2, <3>3
    <2>2. \E n \in Nat : \E s \in [1 .. n -> QueuedOn(l)'] : IsQueue(s, n, l)'
      <3> DEFINE m == n0 - 1
                 r == Tail(s0)
      <3>1. m \in Nat /\ IsQueue(r, m, l)'
        BY <1>6, <1>21
      <3> HIDE DEF m, r
      <3>2. r \in [1 .. m -> QueuedOn(l)']
        BY <3>1 DEF IsQueue
      <3> QED
        BY <3>1, <3>2
    <2> QED
      BY <2>1, <2>2
  <1>23. QueuingLinked'
    <2>1. ASSUME NEW u \in Threads, next_waiting[u] # None
          PROVE  /\ u # t /\ next_waiting[u] # t /\ next_waiting[u] # h /\ next_waiting[u] \in Threads
                 /\ want[u] \in Locks
                 /\ pc[u] \in {"link", "spin"} /\ spin_here[u]
                 /\ pc[next_waiting[u]] = "spin" /\ Queuing!Queued(next_waiting[u], want[u])
      BY <1>0, <1>1, <1>9, <2>1 DEF QueuingLinked, QueuingPlace, Queuing!TypeOK
    <2>2. ASSUME NEW k \in Locks, tail'[k] # None PROVE next_waiting[tail'[k]] = None
      <3>1. tail'[k] = tail[k]
        BY <1>1, <1>2, <2>2
      <3> QED
        BY <1>0, <2>2, <3>1 DEF QueuingLinked
    <2>3. ASSUME NEW u \in Threads, next_waiting[u] # None
          PROVE  Queuing!Queued(next_waiting[u], want[u])'
      BY <1>1, <1>13, <2>1, <2>3
    <2>4. ASSUME NEW u \in Threads, next_waiting'[u] # None
          PROVE  pc'[u] \in {"link", "spin"} /\ spin_here'[u] /\ pc'[next_waiting'[u]] = "spin"
      BY <1>1, <2>1, <2>4
    <2> QED
      BY <1>1, <2>2, <2>3, <2>4 DEF QueuingLinked
  <1>24. QueuingSeen'
    <2>1. ASSUME NEW u \in Threads, pc'[u] = "last" PROVE seen'[u] \in Threads \ {u}
      BY <1>0, <1>1, <2>1 DEF QueuingSeen
    <2>2. ASSUME NEW u \in Threads, pc'[u] = "link"
          PROVE  /\ seen[u] \in Threads /\ Queuing!Queued(seen[u], want[u]) /\ want[u] \in Locks
                 /\ next_waiting[seen[u]] = None /\ seen[u] # h
                 /\ head'[want[u]] # u
                 /\ \A v \in Threads : next_waiting[v] # u
      <3>1. u # t /\ pc[u] = "link" /\ want[u] \in Locks
        BY <1>0, <1>1, <2>2 DEF QueuingPlace
      <3>2. /\ seen[u] \in Threads /\ Queuing!Queued(seen[u], want[u])
            /\ next_waiting[seen[u]] = None /\ head[want[u]] # u /\ seen[u] # h
            /\ \A v \in Threads : next_waiting[v] # u
        BY <1>0, <1>10, <3>1 DEF QueuingSeen
      <3>3. head'[want[u]] # u
        <4>1. CASE want[u] = l
          BY <1>2, <1>3, <3>2, <4>1 DEF Queuing!NoQueue
        <4>2. CASE want[u] # l
          BY <1>1, <3>1, <3>2, <4>2
        <4> QED
          BY <4>1, <4>2
      <3> QED
        BY <3>1, <3>2, <3>3
    <2>3. ASSUME NEW u \in Threads, pc'[u] \in {"give_tail", "give_only", "give_next"}
          PROVE  seen'[u] \in Threads /\ seen'[u] = head'[want'[u]]
      <3>1. u # t /\ want[u] \in Locks /\ seen[u] \in Threads /\ seen[u] = head[want[u]] /\ pc[u] = pc'[u]
        BY <1>0, <1>1, <2>3 DEF QueuingSeen, QueuingPlace
      <3>2. want[u] # l
        BY <1>5, <2>3, <3>1 DEF Queuing!Inside, Queuing!Releasing
      <3> QED
        BY <1>1, <3>1, <3>2
    <2>4. ASSUME NEW u \in Threads, pc'[u] \in Queuing!Waking
          PROVE  /\ seen'[u] \in Threads /\ pc'[seen'[u]] = "spin" /\ want'[seen'[u]] = want'[u]
                 /\ spin_here'[seen'[u]]
                 /\ pc'[u] = "wake" => next_waiting'[seen'[u]] = None
                 /\ \A v \in Threads : pc'[v] \in Queuing!Waking /\ seen'[v] = seen'[u] => v = u
      <3>1. CASE u = t
        <4>1. pc'[u] = "unlink"
          BY <1>1, <3>1
        <4>2. \A v \in Threads : pc'[v] \in Queuing!Waking /\ seen'[v] = h => v = t
          BY <1>1, <1>11
        <4> QED
          BY <1>1, <1>3, <1>8, <3>1, <4>1, <4>2
      <3>2. CASE u # t
        <4>1. pc[u] \in Queuing!Waking /\ pc'[u] = pc[u]
          BY <1>1, <1>11, <2>4, <3>2
        <4>2. /\ seen[u] \in Threads /\ pc[seen[u]] = "spin" /\ want[seen[u]] = want[u] /\ spin_here[seen[u]]
              /\ (pc[u] = "wake" => next_waiting[seen[u]] = None) /\ seen[u] # h
              /\ \A v \in Threads : pc[v] \in Queuing!Waking /\ seen[v] = seen[u] => v = u
          BY <1>0, <1>11, <4>1 DEF QueuingSeen
        <4>3. \A v \in Threads : pc'[v] \in Queuing!Waking /\ seen[v] = seen[u] => v = u
          BY <1>11, <4>2
        <4>4. seen[u] # t
          BY <1>1, <4>2
        <4> QED
          BY <1>1, <4>1, <4>2, <4>3, <4>4
      <3> QED
        BY <3>1, <3>2
    <2>5. ASSUME NEW u \in Threads, pc'[u] = "link" PROVE Queuing!Queued(seen[u], want[u])'
      BY <1>1, <1>13, <2>2, <2>5
    <2>6. ASSUME NEW u \in Threads, pc'[u] = "link"
          PROVE  /\ seen'[u] \in Threads /\ next_waiting'[seen'[u]] = None /\ head'[want'[u]] # u
                 /\ \A v \in Threads : next_waiting'[v] # u
      BY <1>1, <2>2, <2>6
    <2> QED
      BY <2>1, <2>3, <2>4, <2>5, <2>6 DEF QueuingSeen
  <1>25. QueuingPlace' /\ QueuingSpin'
    BY <1>0, <1>1 DEF QueuingPlace, QueuingSpin, Queuing!Releasing, Queuing!Waking
  <1> QED
    BY <1>1, <1>3, <1>4, <1>8, <1>14, <1>15, <1>16, <1>17, <1>20, <1>21, <1>22, <1>23, <1>24, <1>25
    DEF QueuingLine

\* The steps that change the line of a lock: its first thread takes it or gives it back,
\* and another one joins, enters, or is given the lock by the one that leaves.
TakesLock(t, l) == Queuing!Test(t, l) \/ (want[t] = l /\ Queuing!TakeFree(t) /\ pc'[t] = "own")
FreesLock(t, l) == want[t] = l /\ Queuing!GiveFree(t) /\ pc'[t] = "program"
JoinsLine(t, l) ==
    /\ want[t] = l
    /\ \/ Queuing!BeFirst(t) /\ pc'[t] = "spin"
       \/ Queuing!BeLast(t) /\ pc'[t] = "link"
EntersLock(t, l) == want[t] = l /\ Queuing!Spin(t)
GivesLock(t, l) ==
    /\ want[t] = l
    /\ Queuing!GiveOnly(t) \/ Queuing!GiveNext(t)
    /\ pc'[t] = "unlink"

\* Every step is one of these, or touches neither the queue nor the holder.
LEMMA QueuingCases ==
    ASSUME QueuingLine, Queuing!Next
    PROVE  \/ QueuesStay /\ HoldersStay
           \/ \E t \in Threads, l \in Locks :
                  \/ TakesLock(t, l) \/ FreesLock(t, l) \/ JoinsLine(t, l)
                  \/ EntersLock(t, l) \/ GivesLock(t, l)
  <1>0. Queuing!TypeOK'
    BY QueuingTypeNext
  <1>1. PICK t \in Threads :
            Queuing!Step(t) \/ \E l \in Locks : \/ Queuing!Nest(t, l) \/ Queuing!Set(t, l)
                                                \/ Queuing!Test(t, l) \/ Queuing!Unset(t, l)
    BY DEF Queuing!Next
  <1>2. pc \in [Threads -> {"program"} \cup Queuing!Acquiring \cup Queuing!Releasing \cup Queuing!Waking]
    BY DEF QueuingLine, Queuing!TypeOK
  <1>3. want[t] \in Locks \/ pc[t] = "program"
    BY DEF QueuingLine, QueuingPlace
  <1>4. CASE \E l \in Locks : Queuing!Nest(t, l) \/ Queuing!Set(t, l) \/ Queuing!Unset(t, l)
    BY <1>0, <1>4, QueuingQuiet
  <1>5. CASE \E l \in Locks : Queuing!Test(t, l)
    BY <1>5 DEF TakesLock
  <1>6. CASE Queuing!TakeFree(t)
    <2>1. pc[t] = "free" /\ pc'[t] \in {"own", "head"}
      BY <1>2, <1>6 DEF Queuing!TakeFree, Queuing!Local, Queuing!Go
    <2>2. CASE pc'[t] = "own"
      BY <1>3, <1>6, <2>1, <2>2 DEF TakesLock
    <2>3. CASE pc'[t] = "head"
      BY <1>0, <1>6, <2>3, QueuingQuiet
    <2> QED
      BY <2>1, <2>2, <2>3
  <1>7. CASE Queuing!BeFirst(t)
    <2>1. pc[t] = "first" /\ pc'[t] \in {"spin", "head"}
      BY <1>2, <1>7 DEF Queuing!BeFirst, Queuing!Local, Queuing!Go
    <2>2. CASE pc'[t] = "spin"
      BY <1>3, <1>7, <2>1, <2>2 DEF JoinsLine
    <2>3. CASE pc'[t] = "head"
      BY <1>0, <1>7, <2>3, QueuingQuiet
    <2> QED
      BY <2>1, <2>2, <2>3
  <1>8. CASE Queuing!BeLast(t)
    <2>1. pc[t] = "last" /\ pc'[t] \in {"link", "head"}
      BY <1>2, <1>8 DEF Queuing!BeLast, Queuing!Go
    <2>2. CASE pc'[t] = "link"
      BY <1>3, <1>8, <2>1, <2>2 DEF JoinsLine
    <2>3. CASE pc'[t] = "head"
      BY <1>0, <1>8, <2>3, QueuingQuiet
    <2> QED
      BY <2>1, <2>2, <2>3
  <1>9. CASE Queuing!GiveFree(t)
    <2>1. pc[t] = "give_free" /\ pc'[t] \in {"program", "release"}
      BY <1>2, <1>9 DEF Queuing!GiveFree, Queuing!Local, Queuing!Return, Queuing!Go
    <2>2. CASE pc'[t] = "program"
      BY <1>3, <1>9, <2>1, <2>2 DEF FreesLock
    <2>3. CASE pc'[t] = "release"
      BY <1>0, <1>9, <2>3, QueuingQuiet
    <2> QED
      BY <2>1, <2>2, <2>3
  <1>10. CASE Queuing!GiveOnly(t)
    <2>1. pc[t] = "give_only" /\ pc'[t] \in {"unlink", "release"}
      BY <1>2, <1>10 DEF Queuing!GiveOnly, Queuing!Go
    <2>2. CASE pc'[t] = "unlink"
      BY <1>3, <1>10, <2>1, <2>2 DEF GivesLock
    <2>3. CASE pc'[t] = "release"
      BY <1>0, <1>10, <2>3, QueuingQuiet
    <2> QED
      BY <2>1, <2>2, <2>3
  <1>11. CASE Queuing!GiveNext(t)
    <2>1. pc[t] = "give_next" /\ pc'[t] = "unlink"
      BY <1>2, <1>11 DEF Queuing!GiveNext, Queuing!Go
    <2> QED
      BY <1>3, <1>11, <2>1 DEF GivesLock
  <1>12. CASE \/ Queuing!ReadHead(t) \/ Queuing!ReadTail(t) \/ Queuing!Own(t)
              \/ Queuing!ReadRelease(t) \/ Queuing!ReadReleaseTail(t)
    BY <1>0, <1>12, QueuingQuiet
  <1>13. CASE Queuing!Link(t)
    BY <1>0, <1>13, QueuingLink
  <1>14. CASE Queuing!Spin(t)
    <2>1. pc[t] = "spin"
      BY <1>14 DEF Queuing!Spin, Queuing!Local, Queuing!Go
    <2> QED
      BY <1>3, <1>14, <2>1 DEF EntersLock
  <1>15. CASE Queuing!Unlink(t) \/ Queuing!Wake(t)
    BY <1>0, <1>15, QueuingWaking
  <1> QED
    BY <1>1, <1>4, <1>5, <1>6, <1>7, <1>8, <1>9, <1>10, <1>11, <1>12, <1>13, <1>14, <1>15
    DEF Queuing!Step

\* Every step of the queuing locks keeps the invariant.
LEMMA QueuingNext == QueuingLine /\ Queuing!Next => QueuingLine'
  <1> SUFFICES ASSUME QueuingLine, Queuing!Next PROVE QueuingLine'
    OBVIOUS
  <1>0. Queuing!TypeOK'
    BY QueuingTypeNext
  <1>1. CASE QueuesStay
    BY <1>1 DEF QueuesStay
  <1>2. ASSUME NEW t \in Threads, NEW l \in Locks,
               TakesLock(t, l) \/ FreesLock(t, l) \/ EntersLock(t, l)
        PROVE  QueuingLine'
    <2>1. CASE TakesLock(t, l) \/ FreesLock(t, l)
      BY <1>0, <2>1, QueuingHead DEF TakesLock, FreesLock, QueuesStay
    <2>2. CASE EntersLock(t, l)
      BY <1>0, <2>2, QueuingSpinStep DEF EntersLock, QueuesStay
    <2> QED
      BY <1>2, <2>1, <2>2
  <1>3. ASSUME NEW t \in Threads, NEW l \in Locks, JoinsLine(t, l) PROVE QueuingLine'
    BY <1>0, <1>3, QueuingJoin DEF JoinsLine
  <1>4. ASSUME NEW t \in Threads, NEW l \in Locks, GivesLock(t, l) PROVE QueuingLine'
    BY <1>0, <1>4, QueuingGive DEF GivesLock
  <1> QED
    BY <1>1, <1>2, <1>3, <1>4, QueuingCases

\* The queue of a lock is determined by its words and by the links.
LEMMA OneQueue ==
    ASSUME QueuingLine, NEW l \in Locks, NEW n \in Nat, NEW s, NEW r,
           IsQueue(s, n, l), r \in [1 .. n -> QueuedOn(l)], n # 0 => r[1] = head[l],
           \A i \in 1 .. n - 1 : Queuing!Follows(r[i + 1], r[i])
    PROVE  r = s
  <1> DEFINE A == {i \in 1 .. n : r[i] = s[i]}
  <1>1. ASSUME NEW i \in 1 .. n - 1, r[i] = s[i] PROVE r[i + 1] = s[i + 1]
    <2>1. /\ i \in 1 .. n /\ i + 1 \in 1 .. n
          /\ Queuing!Follows(r[i + 1], s[i]) /\ Queuing!Follows(s[i + 1], s[i])
          /\ r[i + 1] \in Threads /\ s[i + 1] \in Threads
          /\ r[i + 1] \in QueuedOn(l)
      <3>1. i \in 1 .. n /\ i + 1 \in 1 .. n
        OBVIOUS
      <3> QED
        BY <1>1, <3>1 DEF IsQueue, QueuedOn
    <2>2. CASE next_waiting[s[i]] # None
      BY <2>1, <2>2 DEF Queuing!Follows
    <2>3. CASE next_waiting[s[i]] = None
      <3>1. pc[r[i + 1]] = "link" /\ seen[r[i + 1]] = s[i] /\ want[r[i + 1]] = l
        BY <2>1, <2>3, NoneAssumption DEF Queuing!Follows, QueuedOn, Queuing!Queued
      <3>2. PICK m \in 1 .. n - 1 : s[m] = s[i] /\ s[m + 1] = r[i + 1]
        BY <2>1, <3>1, LinkerInQueue
      <3>3. m = i
        <4>1. m \in 1 .. n
          OBVIOUS
        <4> QED
          BY <2>1, <3>2, <4>1 DEF IsQueue
      <3> QED
        BY <3>2, <3>3
    <2> QED
      BY <2>2, <2>3
  <1>2. n # 0 => 1 \in A
    BY DEF IsQueue
  <1>3. \A i \in A : i < n => i + 1 \in A
    BY <1>1
  <1>4. A \subseteq 1 .. n
    OBVIOUS
  <1> HIDE DEF A
  <1>5. A = 1 .. n
    BY <1>2, <1>3, <1>4, IntervalFilled
  <1>6. \A i \in 1 .. n : r[i] = s[i]
    BY <1>5 DEF A
  <1> QED
    BY <1>6 DEF IsQueue

\* The Cardinality of that module is that of FiniteSets.
LEMMA QueuingCardinality == \A S : Queuing!Cardinality(S) = Cardinality(S)
  BY DEF Queuing!Cardinality, Cardinality

\* The set Queues has this queue in it and nothing else.
LEMMA QueuingQueues ==
    ASSUME QueuingLine, NEW l \in Locks, NEW n \in Nat, NEW s, IsQueue(s, n, l)
    PROVE  Queuing!Queues(l) = {s}
  <1>1. IsFiniteSet(QueuedOn(l)) /\ Cardinality(QueuedOn(l)) = n
    <2>1. s \in Bijection(1 .. n, QueuedOn(l))
      BY DEF IsQueue, Bijection, Injection, Surjection, IsInjective
    <2>2. IsFiniteSet(1 .. n) /\ Cardinality(1 .. n) = n
      BY FS_Interval
    <2> QED
      BY <2>1, <2>2, FS_Bijection DEF ExistsBijection
  <1>2. Queuing!Queues(l) =
            IF head[l] \in {None, Queuing!NoQueue} THEN IF n = 0 /\ tail[l] = None THEN {<< >>} ELSE {}
            ELSE {r \in [1 .. n -> QueuedOn(l)] :
                      /\ r[1] = head[l] /\ r[n] = tail[l]
                      /\ \A i \in 1 .. n - 1 : Queuing!Follows(r[i + 1], r[i])
                      /\ \A i, j \in 1 .. n : r[i] = r[j] => i = j}
    BY <1>1, QueuingCardinality DEF Queuing!Queues, QueuedOn
  <1>3. CASE n = 0
    <2>1. s = << >>
      BY <1>3 DEF IsQueue
    <2> QED
      BY <1>2, <1>3, <2>1, QueueEnds
  <1>4. CASE n # 0
    <2>1. head[l] \notin {None, Queuing!NoQueue}
      BY <1>4, QueueEnds
    <2>2. \A r \in Queuing!Queues(l) : r = s
      BY <1>2, <2>1, OneQueue
    <2>3. s \in Queuing!Queues(l)
      BY <1>2, <1>4, <2>1 DEF IsQueue
    <2> QED
      BY <2>2, <2>3
  <1> QED
    BY <1>3, <1>4

\* Unused queuing locks have empty queues.
LEMMA QueuingInit == Queuing!Init => QueuingLine
  <1> SUFFICES ASSUME Queuing!Init PROVE QueuingLine
    OBVIOUS
  <1> USE NoneAssumption, ThreadsAssumption, LocksAssumption, BoundsAssumption
  <1>1. Queuing!TypeOK
    <2>1. spin_here \in [Threads -> BOOLEAN]
      BY Zenon DEF Queuing!Init
    <2> QED
      BY <2>1 DEF Queuing!Init, Queuing!TypeOK, Queuing!NoQueue
  <1>2. QueuingPlace /\ QueuingSpin /\ QueuingSeen
    BY DEF Queuing!Init, QueuingPlace, QueuingSpin, QueuingSeen, Queuing!Waking
  <1>3. QueuingLinked
    BY DEF Queuing!Init, QueuingLinked
  <1>4. ASSUME NEW l \in Locks PROVE Queuing!Holders(l) = {} /\ QueuedOn(l) = {}
    BY DEF Queuing!Init, Queuing!Holders, Queuing!Inside, Queuing!Given, Queuing!Queued, QueuedOn,
           Queuing!Releasing
  <1>5. QueuingHolder
    BY <1>4 DEF Queuing!Init, QueuingHolder
  <1>6. ASSUME NEW l \in Locks PROVE \E n \in Nat : \E s \in [1 .. n -> QueuedOn(l)] : IsQueue(s, n, l)
    <2>1. IsQueue(<< >>, 0, l) /\ << >> \in [1 .. 0 -> QueuedOn(l)]
      BY <1>4 DEF Queuing!Init, IsQueue
    <2> QED
      BY <2>1
  <1> QED
    BY <1>1, <1>2, <1>3, <1>5, <1>6 DEF QueuingLine

\* A release that found two threads in the queue still has more than the first one: it
\* waits for a link that is there or comes.
QueuingTail == \A t \in Threads : pc[t] = "give_next" => tail[want[t]] # seen[t]

\* The first in a queue spins.
LEMMA HeadSpins ==
    ASSUME QueuingLine, NEW l \in Locks, head[l] \in Threads
    PROVE  pc[head[l]] = "spin"
  <1>1. PICK n \in Nat, s \in Seq(QueuedOn(l)) : IsQueue(s, n, l)
    BY QueueExists
  <1> QED
    BY <1>1, QueueEnds, NoneAssumption, ThreadsAssumption DEF Queuing!NoQueue

\* The tail of a lock changes only to a thread that joins the queue, or to no thread.
LEMMA QueuingTailNext == ASSUME QueuingLine, QueuingTail, Queuing!Next PROVE QueuingTail'
  <1> USE DEF Queuing!Go, Queuing!Local, Queuing!Return, Queuing!Forget, Queuing!Queue,
              Queuing!lock, Queuing!links
  <1>0. Queuing!TypeOK /\ QueuingPlace /\ QueuingSeen
    BY DEF QueuingLine
  <1> SUFFICES ASSUME NEW t \in Threads, pc'[t] = "give_next"
               PROVE  tail'[want'[t]] # seen'[t]
    BY DEF QueuingTail
  <1>1. PICK u \in Threads :
            Queuing!Step(u) \/ \E l \in Locks : \/ Queuing!Nest(u, l) \/ Queuing!Set(u, l)
                                                \/ Queuing!Test(u, l) \/ Queuing!Unset(u, l)
    BY DEF Queuing!Next
  <1>2. CASE u = t
    <2>1. ASSUME NEW l \in Locks, Queuing!Nest(t, l) \/ Queuing!Set(t, l) \/ Queuing!Test(t, l) \/ Queuing!Unset(t, l)
          PROVE  FALSE
      BY <1>0, <2>1 DEF Queuing!TypeOK, Queuing!Nest, Queuing!Set, Queuing!Test, Queuing!Unset
    <2>2. ASSUME \/ Queuing!ReadHead(t) \/ Queuing!TakeFree(t) \/ Queuing!BeFirst(t)
                 \/ Queuing!ReadTail(t) \/ Queuing!BeLast(t) \/ Queuing!Link(t) \/ Queuing!Spin(t) \/ Queuing!Own(t)
          PROVE  FALSE
      BY <1>0, <2>2 DEF Queuing!TypeOK, Queuing!ReadHead, Queuing!TakeFree, Queuing!BeFirst, Queuing!ReadTail,
                        Queuing!BeLast, Queuing!Link, Queuing!Spin, Queuing!Own
    <2>3. ASSUME \/ Queuing!ReadRelease(t) \/ Queuing!GiveFree(t) \/ Queuing!GiveOnly(t)
                 \/ Queuing!GiveNext(t) \/ Queuing!Unlink(t) \/ Queuing!Wake(t)
          PROVE  FALSE
      BY <1>0, <2>3 DEF Queuing!TypeOK, Queuing!ReadRelease, Queuing!GiveFree, Queuing!GiveOnly,
                        Queuing!GiveNext, Queuing!Unlink, Queuing!Wake
    <2>4. Queuing!ReadReleaseTail(t)
      BY <1>1, <1>2, <2>1, <2>2, <2>3 DEF Queuing!Step
    <2> QED
      BY <1>0, <2>4 DEF Queuing!TypeOK, Queuing!ReadReleaseTail
  <1>3. CASE u # t
    <2>1. want'[t] = want[t] /\ seen'[t] = seen[t] /\ pc[t] = "give_next"
      <3>1. ASSUME NEW l \in Locks, Queuing!Nest(u, l) \/ Queuing!Set(u, l) \/ Queuing!Test(u, l) \/ Queuing!Unset(u, l)
            PROVE  want'[t] = want[t] /\ seen'[t] = seen[t] /\ pc[t] = "give_next"
        BY <1>0, <1>3, <3>1 DEF Queuing!TypeOK, Queuing!Nest, Queuing!Set, Queuing!Test, Queuing!Unset
      <3>2. ASSUME Queuing!Step(u) PROVE want'[t] = want[t] /\ seen'[t] = seen[t] /\ pc[t] = "give_next"
        BY <1>0, <1>3, <3>2
        DEF Queuing!TypeOK, Queuing!Step, Queuing!ReadHead, Queuing!TakeFree, Queuing!BeFirst, Queuing!ReadTail,
            Queuing!BeLast, Queuing!Link, Queuing!Spin, Queuing!Own, Queuing!ReadRelease, Queuing!GiveFree,
            Queuing!ReadReleaseTail, Queuing!GiveOnly, Queuing!GiveNext, Queuing!Unlink, Queuing!Wake
      <3> QED
        BY <1>1, <3>1, <3>2
    <2>2. want[t] \in Locks /\ seen[t] \in Threads /\ pc[seen[t]] = "spin"
      BY <1>0, <2>1, HeadSpins DEF QueuingPlace, QueuingSeen
    <2>3. tail'[want[t]] = tail[want[t]] \/ tail'[want[t]] = None
          \/ (tail'[want[t]] = u /\ pc[u] \in {"first", "last"})
      <3>1. ASSUME NEW l \in Locks, Queuing!Nest(u, l) \/ Queuing!Set(u, l) \/ Queuing!Test(u, l) \/ Queuing!Unset(u, l)
            PROVE  tail' = tail
        BY <3>1 DEF Queuing!Nest, Queuing!Set, Queuing!Test, Queuing!Unset
      <3>2. CASE \/ Queuing!ReadHead(u) \/ Queuing!ReadTail(u) \/ Queuing!Link(u) \/ Queuing!Spin(u) \/ Queuing!Own(u)
                 \/ Queuing!ReadRelease(u) \/ Queuing!ReadReleaseTail(u) \/ Queuing!Unlink(u) \/ Queuing!Wake(u)
        BY <3>2 DEF Queuing!ReadHead, Queuing!ReadTail, Queuing!Link, Queuing!Spin, Queuing!Own,
                    Queuing!ReadRelease, Queuing!ReadReleaseTail, Queuing!Unlink, Queuing!Wake
      <3>3. CASE Queuing!TakeFree(u) \/ Queuing!GiveFree(u) \/ Queuing!GiveNext(u)
        BY <1>0, <2>2, <3>3 DEF Queuing!TypeOK, Queuing!TakeFree, Queuing!GiveFree, Queuing!GiveNext
      <3>4. CASE Queuing!BeFirst(u) \/ Queuing!BeLast(u) \/ Queuing!GiveOnly(u)
        BY <1>0, <2>2, <3>4 DEF Queuing!TypeOK, Queuing!BeFirst, Queuing!BeLast, Queuing!GiveOnly
      <3> QED
        BY <1>1, <3>1, <3>2, <3>3, <3>4 DEF Queuing!Step
    <2> QED
      BY <2>1, <2>2, <2>3, NoneAssumption DEF QueuingTail
  <1> QED
    BY <1>2, <1>3

\* If the second in the queue is not linked to the first yet, it is about to link itself.
LEMMA LinkComes == ASSUME QueuingLine, QueuingTail PROVE Queuing!LinkIsComing
  <1> SUFFICES ASSUME NEW t \in Threads, pc[t] = "give_next", next_waiting[seen[t]] = None
               PROVE  \E u \in Threads : pc[u] = "link" /\ want[u] = want[t] /\ seen[u] = seen[t]
    BY DEF Queuing!LinkIsComing
  <1>1. want[t] \in Locks /\ seen[t] \in Threads /\ seen[t] = head[want[t]] /\ tail[want[t]] # seen[t]
    BY DEF QueuingLine, QueuingPlace, QueuingSeen, QueuingTail
  <1>2. PICK n \in Nat, s \in Seq(QueuedOn(want[t])) : IsQueue(s, n, want[t])
    BY <1>1, QueueExists
  <1>3. n # 0 /\ s[1] = seen[t] /\ s[n] # s[1]
    BY <1>1, <1>2, QueueEnds, NoneAssumption, ThreadsAssumption DEF Queuing!NoQueue
  <1>4. 1 \in 1 .. n - 1 /\ 2 \in 1 .. n /\ 1 + 1 = 2
    BY <1>3
  <1>5. Queuing!Follows(s[2], s[1]) /\ s[2] \in QueuedOn(want[t])
    BY <1>2, <1>4 DEF IsQueue
  <1>6. s[2] \in Threads /\ want[s[2]] = want[t]
    BY <1>5 DEF QueuedOn, Queuing!Queued
  <1> QED
    BY <1>3, <1>5, <1>6, NoneAssumption DEF Queuing!Follows

\* The invariant of the model follows: it counts the holders and the queues.
LEMMA QueuingImpliesInv == QueuingLine /\ QueuingTail => Queuing!Inv
  <1> SUFFICES ASSUME QueuingLine, QueuingTail PROVE Queuing!Inv
    OBVIOUS
  <1> USE NoneAssumption, ThreadsAssumption
  <1>1. ASSUME NEW l \in Locks
        PROVE  /\ Queuing!Cardinality(Queuing!Holders(l)) = IF head[l] = None THEN 0 ELSE 1
               /\ Queuing!Cardinality(Queuing!Queues(l)) = 1
    <2>1. PICK n \in Nat, s \in Seq(QueuedOn(l)) : IsQueue(s, n, l)
      BY QueueExists
    <2>2. Queuing!Queues(l) = {s}
      BY <2>1, QueuingQueues
    <2>3. Cardinality(Queuing!Queues(l)) = 1
      BY <2>2, FS_Singleton
    <2>4. CASE head[l] = None
      <3>1. Queuing!Holders(l) = {}
        BY <2>4 DEF QueuingLine, QueuingHolder
      <3>2. Cardinality(Queuing!Holders(l)) = 0
        BY <3>1, FS_EmptySet
      <3> QED
        BY <2>3, <2>4, <3>2, QueuingCardinality
    <2>5. CASE head[l] # None
      <3>1. PICK t \in Threads : Queuing!Holders(l) = {t}
        BY <2>5 DEF QueuingLine, QueuingHolder
      <3>2. Cardinality(Queuing!Holders(l)) = 1
        BY <3>1, FS_Singleton
      <3> QED
        BY <2>3, <2>5, <3>2, QueuingCardinality
    <2> QED
      BY <2>4, <2>5
  <1>2. ASSUME NEW t \in Threads
        PROVE  /\ pc[t] \in {"program", "head", "own"} \cup Queuing!Releasing => next_waiting[t] = None
               /\ pc[t] \in {"program", "own"} \cup Queuing!Releasing \cup Queuing!Waking => ~spin_here[t]
               /\ (\E l \in Locks : Queuing!Queued(t, l)) => spin_here[t]
               /\ pc[t] = "last" => seen[t] # t
    BY DEF QueuingLine, QueuingLinked, QueuingSpin, QueuingSeen, Queuing!Queued, Queuing!Given,
           Queuing!Releasing
  <1>3. ASSUME NEW t \in Threads, pc[t] \in {"give_only", "give_next"} PROVE tail[want[t]] # None
    <2>1. want[t] \in Locks /\ head[want[t]] \in Threads
      BY <1>3 DEF QueuingLine, QueuingPlace, QueuingSeen
    <2>2. PICK n \in Nat, s \in Seq(QueuedOn(want[t])) : IsQueue(s, n, want[t])
      BY <2>1, QueueExists
    <2>3. n # 0
      BY <2>1, <2>2, QueueEnds DEF Queuing!NoQueue
    <2> QED
      BY <2>1, <2>2, <2>3, QueueEnds
  <1> QED
    BY <1>1, <1>2, <1>3, LinkComes DEF Queuing!Inv, QueuingLine

-----------------------------------------------------------------------------
\* The line of each lock, first the thread that has it, and whether it is inside.
QueuingOrder ==
    [l \in Locks |-> IF head[l] = None THEN << >>
                     ELSE <<CHOOSE t \in Queuing!Holders(l) : TRUE>> \o CHOOSE s \in Queuing!Queues(l) : TRUE]

QueuingInside == [l \in Locks |-> \E t \in Threads : Queuing!Inside(t, l)]

OrderIsQueue ==
    \A l \in Locks, n \in Nat : \A s, h :
        IsQueue(s, n, l) =>
            /\ head[l] = None => QueuingOrder[l] = << >>
            /\ head[l] # None /\ Queuing!Holders(l) = {h} => QueuingOrder[l] = <<h>> \o s

\* The line of a lock is its holder and its queue.
LEMMA QueuingOrderIs == QueuingLine => OrderIsQueue
  <1> SUFFICES ASSUME QueuingLine, NEW l \in Locks, NEW n \in Nat, NEW s, NEW h, IsQueue(s, n, l)
               PROVE  /\ head[l] = None => QueuingOrder[l] = << >>
                      /\ head[l] # None /\ Queuing!Holders(l) = {h} => QueuingOrder[l] = <<h>> \o s
    BY DEF OrderIsQueue
  <1>1. Queuing!Queues(l) = {s}
    BY QueuingQueues
  <1>2. (CHOOSE r \in Queuing!Queues(l) : TRUE) = s
    BY <1>1
  <1>3. Queuing!Holders(l) = {h} => (CHOOSE t \in Queuing!Holders(l) : TRUE) = h
    OBVIOUS
  <1> QED
    BY <1>2, <1>3 DEF QueuingOrder

\* The same after a step.
LEMMA QueuingOrderIsNext == QueuingLine' => OrderIsQueue'
  BY QueuingOrderIs, PTL

\* What the steps do to such a line.
LEMMA HolderFirst ==
    ASSUME NEW S, NEW s \in Seq(S), NEW h \in S
    PROVE  /\ \A t \in S : Append(<<h>> \o s, t) = <<h>> \o Append(s, t)
           /\ Tail(<<h>> \o s) = s
           /\ <<h>> \o s # << >>
           /\ Append(<< >>, h) = <<h>> \o << >> /\ Tail(<<h>> \o << >>) = << >>
           /\ s # << >> => <<s[1]>> \o Tail(s) = s
  <1>1. ASSUME NEW t \in S PROVE Append(<<h>> \o s, t) = <<h>> \o Append(s, t)
    <2>1. /\ Append(<<h>> \o s, t) \in Seq(S) /\ Len(Append(<<h>> \o s, t)) = Len(s) + 2
          /\ <<h>> \o Append(s, t) \in Seq(S) /\ Len(<<h>> \o Append(s, t)) = Len(s) + 2
      OBVIOUS
    <2>2. \A i \in 1 .. Len(s) + 2 : Append(<<h>> \o s, t)[i] = (<<h>> \o Append(s, t))[i]
      OBVIOUS
    <2> QED
      BY <2>1, <2>2, SeqEqual
  <1>2. Tail(<<h>> \o s) = s /\ <<h>> \o s # << >>
    <2>1. <<h>> \o s \in Seq(S) /\ Len(<<h>> \o s) = Len(s) + 1 /\ <<h>> \o s # << >>
      OBVIOUS
    <2>2. Tail(<<h>> \o s) \in Seq(S) /\ Len(Tail(<<h>> \o s)) = Len(s)
      BY <2>1
    <2>3. \A i \in 1 .. Len(s) : Tail(<<h>> \o s)[i] = s[i]
      BY <2>1
    <2> QED
      BY <2>1, <2>2, <2>3, SeqEqual
  <1>3. Append(<< >>, h) = <<h>> \o << >> /\ Tail(<<h>> \o << >>) = << >>
    OBVIOUS
  <1>4. ASSUME s # << >> PROVE <<s[1]>> \o Tail(s) = s
    <2>1. /\ s[1] \in S /\ Tail(s) \in Seq(S) /\ Len(Tail(s)) = Len(s) - 1
          /\ Len(s) \in Nat /\ Len(s) # 0
      BY <1>4
    <2>2. <<s[1]>> \o Tail(s) \in Seq(S) /\ Len(<<s[1]>> \o Tail(s)) = Len(s)
      BY <2>1
    <2>3. \A i \in 1 .. Len(s) : (<<s[1]>> \o Tail(s))[i] = s[i]
      BY <1>4, <2>1
    <2> QED
      BY <2>2, <2>3, SeqEqual
  <1> QED
    BY <1>1, <1>2, <1>3, <1>4

\* The lines of the abstract lock are these.
LEMMA QueuingFifoSteps ==
    ASSUME NEW l \in Locks,
           \A k \in Locks \ {l} : /\ QueuingOrder'[k] = QueuingOrder[k]
                                  /\ QueuingInside'[k] = QueuingInside[k]
    PROVE  /\ QueuingOrder'[l] = QueuingOrder[l] /\ QueuingInside'[l] = QueuingInside[l]
                => UNCHANGED <<QueuingOrder, QueuingInside>>
           /\ \A t \in Threads :
                  /\ QueuingOrder'[l] = Append(QueuingOrder[l], t)
                  /\ \/ QueuingInside'[l] = QueuingInside[l]
                     \/ QueuingOrder[l] = << >> /\ QueuingInside'[l] = TRUE
                  => Queuing!Fifo!Join(t, l)
           /\ /\ QueuingOrder[l] # << >> /\ QueuingOrder'[l] = QueuingOrder[l]
              /\ QueuingInside'[l] = TRUE
              => Queuing!Fifo!Enter(l)
           /\ /\ QueuingInside[l] /\ QueuingInside'[l] = FALSE
              /\ QueuingOrder'[l] = Tail(QueuingOrder[l])
              => Queuing!Fifo!Leave(l)
  <1>1. /\ QueuingOrder = [k \in Locks |-> QueuingOrder[k]]
        /\ QueuingOrder' = [k \in Locks |-> QueuingOrder'[k]]
    BY DEF QueuingOrder
  <1>2. /\ QueuingInside = [k \in Locks |-> QueuingInside[k]]
        /\ QueuingInside' = [k \in Locks |-> QueuingInside'[k]]
    BY DEF QueuingInside
  <1>3. QueuingOrder' = [QueuingOrder EXCEPT ![l] = QueuingOrder'[l]]
    BY <1>1
  <1>4. QueuingInside' = [QueuingInside EXCEPT ![l] = QueuingInside'[l]]
    BY <1>2
  <1>5. QueuingOrder'[l] = QueuingOrder[l] => QueuingOrder' = QueuingOrder
    BY <1>1
  <1>6. QueuingInside'[l] = QueuingInside[l] => QueuingInside' = QueuingInside
    BY <1>2
  <1>7. ASSUME NEW t \in Threads, QueuingOrder'[l] = Append(QueuingOrder[l], t),
               \/ QueuingInside'[l] = QueuingInside[l]
               \/ QueuingOrder[l] = << >> /\ QueuingInside'[l] = TRUE
        PROVE  Queuing!Fifo!Join(t, l)
    <2>1. QueuingOrder' = [QueuingOrder EXCEPT ![l] = Append(@, t)]
      BY <1>3, <1>7
    <2>2. \/ QueuingInside' = QueuingInside
          \/ QueuingOrder[l] = << >> /\ QueuingInside' = [QueuingInside EXCEPT ![l] = TRUE]
      BY <1>4, <1>6, <1>7
    <2> QED
      BY <2>1, <2>2 DEF Queuing!Fifo!Join, QueuingOrder, QueuingInside
  <1>8. ASSUME QueuingOrder[l] # << >>, QueuingOrder'[l] = QueuingOrder[l], QueuingInside'[l] = TRUE
        PROVE  Queuing!Fifo!Enter(l)
    <2>1. QueuingOrder' = QueuingOrder /\ QueuingInside' = [QueuingInside EXCEPT ![l] = TRUE]
      BY <1>4, <1>5, <1>8
    <2> QED
      BY <1>8, <2>1 DEF Queuing!Fifo!Enter, QueuingOrder, QueuingInside
  <1>9. ASSUME QueuingInside[l], QueuingInside'[l] = FALSE, QueuingOrder'[l] = Tail(QueuingOrder[l])
        PROVE  Queuing!Fifo!Leave(l)
    <2>1. /\ QueuingOrder' = [QueuingOrder EXCEPT ![l] = Tail(@)]
          /\ QueuingInside' = [QueuingInside EXCEPT ![l] = FALSE]
      BY <1>3, <1>4, <1>9
    <2> QED
      BY <1>9, <2>1 DEF Queuing!Fifo!Leave, QueuingOrder, QueuingInside
  <1> QED
    BY <1>5, <1>6, <1>7, <1>8, <1>9

\* A lock that no queue and no holder of changes.
LEMMA QueuingOrderStays ==
    ASSUME QueuingLine, QueuingLine', NEW l \in Locks,
           \A n \in Nat : \A s : IsQueue(s, n, l) => IsQueue(s, n, l)',
           Queuing!Holders(l)' = Queuing!Holders(l), head'[l] = None <=> head[l] = None
    PROVE  QueuingOrder'[l] = QueuingOrder[l]
  <1>1. PICK n \in Nat, s \in Seq(QueuedOn(l)) : IsQueue(s, n, l)
    BY QueueExists
  <1>2. IsQueue(s, n, l)'
    BY <1>1
  <1>3. OrderIsQueue
    BY QueuingOrderIs
  <1>4. OrderIsQueue'
    BY QueuingOrderIsNext
  <1>6. CASE head[l] = None
    <2>1. QueuingOrder[l] = << >>
      BY <1>1, <1>3, <1>6 DEF OrderIsQueue
    <2>2. QueuingOrder'[l] = << >>
      BY <1>2, <1>4, <1>6 DEF OrderIsQueue
    <2> QED
      BY <2>1, <2>2
  <1>5. CASE head[l] # None
    <2>1. PICK h \in Threads : Queuing!Holders(l) = {h}
      BY <1>5 DEF QueuingLine, QueuingHolder
    <2>2. Queuing!Holders(l)' = {h} /\ head'[l] # None
      BY <1>5, <2>1
    <2>3. QueuingOrder[l] = <<h>> \o s
      BY <1>1, <1>3, <1>5, <2>1 DEF OrderIsQueue
    <2>4. QueuingOrder'[l] = <<h>> \o s
      BY <1>2, <1>4, <2>2 DEF OrderIsQueue
    <2> QED
      BY <2>3, <2>4
  <1> QED
    BY <1>5, <1>6

\* A step that changes no line.
LEMMA QueuingStutter ==
    ASSUME QueuingLine, QueuesStay, HoldersStay
    PROVE  UNCHANGED <<QueuingOrder, QueuingInside>>
  <1>1. ASSUME NEW l \in Locks PROVE QueuingOrder'[l] = QueuingOrder[l] /\ QueuingInside'[l] = QueuingInside[l]
    <2>1. QueuingOrder'[l] = QueuingOrder[l]
      BY QueuingOrderStays DEF QueuesStay, HoldersStay
    <2>2. (\E t \in Threads : Queuing!Inside(t, l)') <=> (\E t \in Threads : Queuing!Inside(t, l))
      BY DEF HoldersStay
    <2>3. QueuingInside'[l] = QueuingInside[l]
      BY <2>2 DEF QueuingInside
    <2> QED
      BY <2>1, <2>3
  <1>2. /\ QueuingOrder = [k \in Locks |-> QueuingOrder[k]]
        /\ QueuingOrder' = [k \in Locks |-> QueuingOrder'[k]]
    BY DEF QueuingOrder
  <1>3. /\ QueuingInside = [k \in Locks |-> QueuingInside[k]]
        /\ QueuingInside' = [k \in Locks |-> QueuingInside'[k]]
    BY DEF QueuingInside
  <1> QED
    BY <1>1, <1>2, <1>3

\* The same threads inside, the same flag.
LEMMA QueuingInsideStays ==
    ASSUME NEW l \in Locks, \A u \in Threads : Queuing!Inside(u, l)' <=> Queuing!Inside(u, l)
    PROVE  QueuingInside'[l] = QueuingInside[l]
  BY DEF QueuingInside

\* A step of a queuing lock is a step of a fair lock.
LEMMA QueuingFifo ==
    ASSUME QueuingLine, Queuing!Next
    PROVE  [Queuing!Fifo!Next]_<<QueuingOrder, QueuingInside>>
  <1>0. QueuingLine' /\ Queuing!TypeOK'
    BY QueuingNext, QueuingTypeNext
  <1>6. OrderIsQueue
    BY QueuingOrderIs
  <1>7. OrderIsQueue'
    BY <1>0, QueuingOrderIsNext
  <1>1. ASSUME NEW t \in Threads, NEW l \in Locks,
               TakesLock(t, l)
        PROVE  Queuing!Fifo!Join(t, l)
    <2>1. /\ QueuesStay /\ {head[l], head'[l]} = {None, Queuing!NoQueue}
          /\ \A k \in Locks \ {l} : /\ head'[k] = head[k] /\ Queuing!Holders(k)' = Queuing!Holders(k)
                                    /\ \A u \in Threads : Queuing!Inside(u, k)' <=> Queuing!Inside(u, k)
          /\ head'[l] # None => Queuing!Holders(l)' = {t}
          /\ \A u \in Threads : Queuing!Inside(u, l)' <=> head'[l] # None /\ u = t
      BY <1>0, <1>1, QueuingHead DEF TakesLock
    <2>2. head[l] = None /\ head'[l] # None
      <3>1. head[l] = None
        BY <1>1 DEF TakesLock, QueuingLine, Queuing!TypeOK, Queuing!Test, Queuing!TakeFree, Queuing!Local, Queuing!Go
      <3> QED
        BY <2>1, <3>1, NoneAssumption DEF Queuing!NoQueue
    <2>3. PICK n \in Nat, s \in Seq(QueuedOn(l)) : IsQueue(s, n, l)
      BY QueueExists
    <2>4. IsQueue(s, n, l)' /\ n = 0
      BY <2>1, <2>2, <2>3, QueueEnds DEF QueuesStay
    <2>5. s = << >>
      BY <2>3, <2>4 DEF IsQueue
    <2>6. QueuingOrder[l] = << >> /\ QueuingOrder'[l] = <<t>> \o << >>
      <3>1. QueuingOrder[l] = << >>
        BY <1>6, <2>2, <2>3 DEF OrderIsQueue
      <3>2. Queuing!Holders(l)' = {t}
        BY <2>1, <2>2
      <3>3. QueuingOrder'[l] = <<t>> \o s
        BY <1>7, <2>2, <2>4, <3>2 DEF OrderIsQueue
      <3> QED
        BY <2>5, <3>1, <3>3
    <2>7. QueuingInside'[l] = TRUE
      BY <2>1, <2>2 DEF QueuingInside
    <2>8. \A k \in Locks \ {l} : QueuingOrder'[k] = QueuingOrder[k] /\ QueuingInside'[k] = QueuingInside[k]
      BY <1>0, <2>1, QueuingOrderStays, QueuingInsideStays DEF QueuesStay
    <2>9. QueuingOrder'[l] = Append(QueuingOrder[l], t)
      BY <2>6
    <2> QED
      BY <2>6, <2>7, <2>8, <2>9, QueuingFifoSteps
  <1>2. ASSUME NEW t \in Threads, NEW l \in Locks, FreesLock(t, l)
        PROVE  Queuing!Fifo!Leave(l)
    <2>1. /\ QueuesStay /\ {head[l], head'[l]} = {None, Queuing!NoQueue}
          /\ \A k \in Locks \ {l} : /\ head'[k] = head[k] /\ Queuing!Holders(k)' = Queuing!Holders(k)
                                    /\ \A u \in Threads : Queuing!Inside(u, k)' <=> Queuing!Inside(u, k)
          /\ \A u \in Threads : /\ Queuing!Inside(u, l)' <=> head'[l] # None /\ u = t
                                /\ Queuing!Inside(u, l) <=> head[l] # None /\ u = t
      BY <1>0, <1>2, QueuingHead DEF FreesLock
    <2>2. head[l] # None /\ head'[l] = None
      <3>1. head[l] = Queuing!NoQueue
        BY <1>2 DEF FreesLock, QueuingLine, Queuing!TypeOK, Queuing!GiveFree, Queuing!Local, Queuing!Go
      <3> QED
        BY <2>1, <3>1, NoneAssumption DEF Queuing!NoQueue
    <2>3. PICK n \in Nat, s \in Seq(QueuedOn(l)) : IsQueue(s, n, l)
      BY QueueExists
    <2>4. IsQueue(s, n, l)' /\ n = 0
      <3>1. head[l] = Queuing!NoQueue
        BY <2>1, <2>2
      <3> QED
        BY <2>1, <2>3, <3>1, QueueEnds DEF QueuesStay
    <2>5. s = << >>
      BY <2>3, <2>4 DEF IsQueue
    <2>6. PICK h \in Threads : Queuing!Holders(l) = {h}
      BY <2>2 DEF QueuingLine, QueuingHolder
    <2>7. QueuingOrder[l] = <<h>> \o << >> /\ QueuingOrder'[l] = << >>
      <3>1. QueuingOrder[l] = <<h>> \o s
        BY <1>6, <2>2, <2>3, <2>6 DEF OrderIsQueue
      <3>2. QueuingOrder'[l] = << >>
        BY <1>7, <2>2, <2>4 DEF OrderIsQueue
      <3> QED
        BY <2>5, <3>1, <3>2
    <2>8. QueuingInside[l] /\ QueuingInside'[l] = FALSE
      BY <2>1, <2>2 DEF QueuingInside
    <2>9. \A k \in Locks \ {l} : QueuingOrder'[k] = QueuingOrder[k] /\ QueuingInside'[k] = QueuingInside[k]
      BY <1>0, <2>1, QueuingOrderStays, QueuingInsideStays DEF QueuesStay
    <2>10. QueuingOrder'[l] = Tail(QueuingOrder[l])
      BY <2>7
    <2> QED
      BY <2>8, <2>9, <2>10, QueuingFifoSteps
  <1>3. ASSUME NEW t \in Threads, NEW l \in Locks, JoinsLine(t, l)
        PROVE  Queuing!Fifo!Join(t, l)
    <2>1. /\ \A k \in Locks \ {l}, n \in Nat : \A s : IsQueue(s, n, k) => IsQueue(s, n, k)'
          /\ \A n \in Nat : \A s : IsQueue(s, n, l) => IsQueue(Append(s, t), n + 1, l)'
          /\ \A k \in Locks : Queuing!Holders(k)' = Queuing!Holders(k)
          /\ \A u \in Threads, k \in Locks : Queuing!Inside(u, k)' <=> Queuing!Inside(u, k)
          /\ \A k \in Locks : head'[k] = None <=> head[k] = None
          /\ head[l] # None
      BY <1>0, <1>3, QueuingJoin DEF JoinsLine
    <2>2. PICK n \in Nat, s \in Seq(QueuedOn(l)) : IsQueue(s, n, l)
      BY QueueExists
    <2>3. PICK h \in Threads : Queuing!Holders(l) = {h}
      BY <2>1 DEF QueuingLine, QueuingHolder
    <2>4. QueuingOrder[l] = <<h>> \o s
      BY <1>6, <2>1, <2>2, <2>3 DEF OrderIsQueue
    <2>5. QueuingOrder'[l] = <<h>> \o Append(s, t)
      <3> DEFINE r == Append(s, t)
                 m == n + 1
      <3>1. IsQueue(r, m, l)' /\ m \in Nat /\ head'[l] # None /\ Queuing!Holders(l)' = {h}
        BY <2>1, <2>2, <2>3
      <3> HIDE DEF r, m
      <3>2. QueuingOrder'[l] = <<h>> \o r
        BY <1>7, <3>1 DEF OrderIsQueue
      <3> QED
        BY <3>2 DEF r
    <2>6. s \in Seq(Threads)
      BY <2>2 DEF IsQueue, QueuedOn
    <2>7. QueuingOrder'[l] = Append(QueuingOrder[l], t)
      BY <2>3, <2>4, <2>5, <2>6, HolderFirst
    <2>8. \A k \in Locks : QueuingInside'[k] = QueuingInside[k]
      BY <2>1, QueuingInsideStays
    <2>9. \A k \in Locks \ {l} : QueuingOrder'[k] = QueuingOrder[k]
      BY <1>0, <2>1, QueuingOrderStays
    <2> QED
      BY <2>7, <2>8, <2>9, QueuingFifoSteps
  <1>4. ASSUME NEW t \in Threads, NEW l \in Locks, EntersLock(t, l)
        PROVE  Queuing!Fifo!Enter(l)
    <2>1. /\ QueuesStay /\ UNCHANGED head
          /\ \A k \in Locks : Queuing!Holders(k)' = Queuing!Holders(k)
          /\ \A u \in Threads, k \in Locks :
                 Queuing!Inside(u, k)' <=> Queuing!Inside(u, k) \/ (u = t /\ k = l)
          /\ Queuing!Holders(l) = {t}
      BY <1>0, <1>4, QueuingSpinStep DEF EntersLock
    <2>2. PICK n \in Nat, s \in Seq(QueuedOn(l)) : IsQueue(s, n, l)
      BY QueueExists
    <2>3. head[l] # None
      BY <2>1 DEF QueuingLine, QueuingHolder
    <2>4. QueuingOrder[l] = <<t>> \o s
      BY <1>6, <2>1, <2>2, <2>3 DEF OrderIsQueue
    <2>5. s \in Seq(Threads)
      BY <2>2 DEF IsQueue, QueuedOn
    <2>6. QueuingOrder[l] # << >>
      BY <2>4, <2>5, HolderFirst
    <2>7. \A k \in Locks : QueuingOrder'[k] = QueuingOrder[k]
      BY <1>0, <2>1, QueuingOrderStays DEF QueuesStay
    <2>8. QueuingInside'[l] = TRUE
      BY <2>1 DEF QueuingInside
    <2>9. \A k \in Locks \ {l} : QueuingInside'[k] = QueuingInside[k]
      BY <2>1, QueuingInsideStays
    <2> QED
      BY <2>6, <2>7, <2>8, <2>9, QueuingFifoSteps
  <1>5. ASSUME NEW t \in Threads, NEW l \in Locks, GivesLock(t, l)
        PROVE  Queuing!Fifo!Leave(l)
    <2>1. /\ \A k \in Locks \ {l}, n \in Nat : \A s : IsQueue(s, n, k) => IsQueue(s, n, k)'
          /\ \A n \in Nat : \A s : IsQueue(s, n, l) => n # 0 /\ IsQueue(Tail(s), n - 1, l)'
          /\ \A k \in Locks \ {l} : head'[k] = head[k] /\ Queuing!Holders(k)' = Queuing!Holders(k)
          /\ Queuing!Holders(l) = {t} /\ Queuing!Holders(l)' = {head[l]}
          /\ head[l] # None /\ head'[l] # None
          /\ \A u \in Threads, k \in Locks :
                 Queuing!Inside(u, k)' <=> Queuing!Inside(u, k) /\ k # l
          /\ Queuing!Inside(t, l)
      BY <1>0, <1>5, QueuingGive DEF GivesLock
    <2>2. PICK n \in Nat, s \in Seq(QueuedOn(l)) : IsQueue(s, n, l)
      BY QueueExists
    <2>3. n # 0 /\ n - 1 \in Nat /\ IsQueue(Tail(s), n - 1, l)' /\ head[l] = s[1]
      <3>1. n # 0 /\ IsQueue(Tail(s), n - 1, l)'
        BY <2>1, <2>2
      <3>2. head[l] = s[1]
        BY <2>2, <3>1, QueueEnds
      <3>3. n - 1 \in Nat
        BY <3>1
      <3> QED
        BY <3>1, <3>2, <3>3
    <2>4. QueuingOrder[l] = <<t>> \o s
      BY <1>6, <2>1, <2>2 DEF OrderIsQueue
    <2>5. QueuingOrder'[l] = <<s[1]>> \o Tail(s)
      <3> DEFINE r == Tail(s)
                 m == n - 1
      <3>1. IsQueue(r, m, l)' /\ m \in Nat /\ head'[l] # None /\ Queuing!Holders(l)' = {s[1]}
        BY <2>1, <2>3
      <3> HIDE DEF r, m
      <3>2. QueuingOrder'[l] = <<s[1]>> \o r
        <4>1. \A q, h : IsQueue(q, m, l)' =>
                  (head'[l] # None /\ Queuing!Holders(l)' = {h} => QueuingOrder'[l] = <<h>> \o q)
          BY <1>7, <3>1 DEF OrderIsQueue
        <4> QED
          BY <3>1, <4>1
      <3> QED
        BY <3>2 DEF r
    <2>6. s \in Seq(Threads) /\ s # << >>
      BY <2>2, <2>3 DEF IsQueue, QueuedOn
    <2>7. QueuingOrder'[l] = Tail(QueuingOrder[l])
      BY <2>4, <2>5, <2>6, HolderFirst
    <2>8. QueuingInside[l] /\ QueuingInside'[l] = FALSE
      BY <2>1 DEF QueuingInside
    <2>9. \A k \in Locks \ {l} : QueuingOrder'[k] = QueuingOrder[k] /\ QueuingInside'[k] = QueuingInside[k]
      <3>1. \A k \in Locks \ {l} : QueuingOrder'[k] = QueuingOrder[k]
        BY <1>0, <2>1, QueuingOrderStays
      <3>2. \A k \in Locks \ {l} : QueuingInside'[k] = QueuingInside[k]
        BY <2>1, QueuingInsideStays
      <3> QED
        BY <3>1, <3>2
    <2> QED
      BY <2>7, <2>8, <2>9, QueuingFifoSteps
  <1>8. CASE QueuesStay /\ HoldersStay
    BY <1>8, QueuingStutter
  <1> QED
    BY <1>1, <1>2, <1>3, <1>4, <1>5, <1>8, QueuingCases DEF Queuing!Fifo!Next

-----------------------------------------------------------------------------
(* DRDPA locks.                                                            *)

\* What a polling area is: counters at 0 .. m, or, when it is freed, nothing.
PollingAreas == {<< >>} \cup UNION {[0 .. m -> Int] : m \in Nat}

\* The threads in line have the tickets from b on; the one inside has b.  A thread that is
\* about to take a ticket by test has seen that all before it have been served.
DrdpaTickets(b) ==
    /\ b \in 0 .. next_ticket
    /\ drdpa_owner # None => drdpa_pc[drdpa_owner] = "program"
    /\ \A t \in Drdpa!Active : Drdpa!TicketOf(t) \in b .. next_ticket - 1
    /\ \A t, u \in Drdpa!Active : Drdpa!TicketOf(t) = Drdpa!TicketOf(u) => t = u
    /\ \A k \in b .. next_ticket - 1 : \E t \in Drdpa!Active : Drdpa!TicketOf(t) = k
    /\ \A t \in Threads :
        /\ Drdpa!Inside(t) => Drdpa!TicketOf(t) = b
        /\ drdpa_pc[t] \in Drdpa!Holding \ {"serve"} => ticket[t] = now_serving
        /\ drdpa_pc[t] \in Drdpa!Testing => ticket[t] \in 0 .. MaxTicket - 1
        /\ drdpa_pc[t] = "test_cas" => ticket[t] <= b

\* No counter is beyond b, and while nobody is inside only the area in use has b.
DrdpaCounters(b) ==
    \A p \in DOMAIN areas : \A i \in DOMAIN areas[p] :
        /\ areas[p][i] <= b
        /\ areas[p][i] = b /\ p # polls => \E t \in Threads : Drdpa!Inside(t)

\* Garbage is there for this thread: its turn is before the cleanup.
Spared(t) ==
    /\ old_polls # None
    /\ ticket[t] < cleanup_ticket \/ \E u \in Threads : drdpa_pc[u] \in {"publish", "cleanup"}

\* What the locals of a thread are worth.
LocalsOf(t) ==
    /\ drdpa_pc[t] = "program" => my_polls[t] = None
    /\ drdpa_pc[t] \in {"test_mask", "test_poll"} => my_polls[t] # None
    /\ drdpa_pc[t] \in {"polls", "poll", "serve"} =>
           my_mask[t] # None /\ (my_mask[t] # mask => Spared(t))
    /\ drdpa_pc[t] = "poll" =>
           my_polls[t] # None /\ (my_polls[t] # polls => my_polls[t] = old_polls /\ Spared(t))
    /\ drdpa_pc[t] \in {"serve", "reconfigure", "publish"} => my_polls[t] = polls
    /\ drdpa_pc[t] = "reconfigure" => my_mask[t] = mask /\ old_polls = None
    /\ drdpa_pc[t] \in {"publish", "cleanup"} => old_polls # None
    /\ drdpa_pc[t] = "publish" => my_mask[t] # None /\ DOMAIN areas[polls] = 0 .. my_mask[t]

DrdpaLocals == \A t \in Threads : LocalsOf(t)

\* The areas that are not freed are the one in use and the garbage.
DrdpaAreas ==
    /\ areas \in Seq(PollingAreas)
    /\ \A p \in DOMAIN areas : areas[p] = << >> <=> p \notin {polls, old_polls}
    /\ old_polls # polls
    /\ (\A t \in Threads : drdpa_pc[t] # "publish") =>
           num_polls = mask + 1 /\ DOMAIN areas[polls] = 0 .. mask

DrdpaAt(b) ==
    /\ Drdpa!TypeOK /\ DrdpaTickets(b) /\ DrdpaCounters(b) /\ DrdpaLocals /\ DrdpaAreas

DrdpaLine == \E b \in Nat : DrdpaAt(b)

\* Powers of 2 count the subsets of an interval.
LEMMA PowerOfTwo ==
    ASSUME NEW k \in Nat
    PROVE  2 ^ k \in Nat /\ 2 ^ (k + 1) = 2 * 2 ^ k
  <1> DEFINE S == SUBSET (1 .. k)
             Added == {X \cup {k + 1} : X \in S}
  <1>1. /\ IsFiniteSet(1 .. k) /\ Cardinality(1 .. k) = k
        /\ IsFiniteSet(1 .. k + 1) /\ Cardinality(1 .. k + 1) = k + 1
    BY FS_Interval
  <1>2. /\ IsFiniteSet(S) /\ Cardinality(S) = 2 ^ k
        /\ Cardinality(SUBSET (1 .. k + 1)) = 2 ^ (k + 1)
    BY <1>1, FS_SUBSET
  <1>3. 2 ^ k \in Nat
    BY <1>2, FS_CardinalityType
  <1>4. IsFiniteSet(Added) /\ Cardinality(Added) = Cardinality(S)
    <2> DEFINE f == [X \in S |-> X \cup {k + 1}]
    <2>1. f \in [S -> Added]
      OBVIOUS
    <2>2. \A X, Y \in S : f[X] = f[Y] => X = Y
      <3> SUFFICES ASSUME NEW X \in S, NEW Y \in S, X \cup {k + 1} = Y \cup {k + 1} PROVE X = Y
        OBVIOUS
      <3>1. k + 1 \notin X /\ k + 1 \notin Y
        OBVIOUS
      <3> QED
        BY <3>1
    <2>3. \A Z \in Added : \E X \in S : f[X] = Z
      OBVIOUS
    <2> HIDE DEF f, S, Added
    <2>4. f \in Bijection(S, Added)
      BY <2>1, <2>2, <2>3 DEF Bijection, Injection, Surjection, IsInjective
    <2> QED
      BY <1>2, <2>4, FS_Bijection DEF ExistsBijection
  <1>5. SUBSET (1 .. k + 1) = S \cup Added
    <2>1. ASSUME NEW Z \in SUBSET (1 .. k + 1) PROVE Z \in S \cup Added
      <3>1. CASE k + 1 \in Z
        <4>1. Z \ {k + 1} \in S /\ Z = (Z \ {k + 1}) \cup {k + 1}
          BY <3>1
        <4> QED
          BY <4>1
      <3>2. CASE k + 1 \notin Z
        <4>1. \A z \in Z : z \in 1 .. k
          BY <3>2
        <4> QED
          BY <4>1
      <3> QED
        BY <3>1, <3>2
    <2>2. ASSUME NEW Z \in S \cup Added PROVE Z \in SUBSET (1 .. k + 1)
      <3>1. 1 .. k \subseteq 1 .. k + 1 /\ k + 1 \in 1 .. k + 1
        OBVIOUS
      <3>2. CASE Z \in S
        BY <3>1, <3>2
      <3>3. CASE Z \in Added
        <4>1. PICK X \in S : Z = X \cup {k + 1}
          BY <3>3
        <4> QED
          BY <3>1, <4>1
      <3> QED
        BY <2>2, <3>2, <3>3
    <2> QED
      BY <2>1, <2>2
  <1>6. S \cap Added = {}
    OBVIOUS
  <1> HIDE DEF S, Added
  <1>7. Cardinality(S \cup Added) = Cardinality(S) + Cardinality(Added) - Cardinality(S \cap Added)
    BY <1>2, <1>4, FS_Union
  <1>8. Cardinality(S \cap Added) = 0
    BY <1>6, FS_EmptySet
  <1>9. 2 ^ (k + 1) = Cardinality(S) + Cardinality(S) - 0
    BY <1>2, <1>4, <1>5, <1>7, <1>8
  <1> QED
    BY <1>2, <1>3, <1>9

\* A power of two is larger than its exponent.
LEMMA PowerExceeds == ASSUME NEW n \in Nat \ {0} PROVE 2 ^ n > n /\ 2 ^ 1 = 2
  <1> DEFINE A == {k \in 1 .. n : 2 ^ k > k}
  <1>1. 2 ^ 1 = 2
    <2>1. IsFiniteSet({}) /\ Cardinality({}) = 0
      BY FS_EmptySet
    <2>2. Cardinality(SUBSET {}) = 2 ^ 0
      BY <2>1, FS_SUBSET
    <2>3. SUBSET {} = {{}}
      OBVIOUS
    <2>4. Cardinality({{}}) = 1
      BY FS_Singleton
    <2>5. 2 ^ (0 + 1) = 2 * 2 ^ 0
      BY PowerOfTwo
    <2> QED
      BY <2>2, <2>3, <2>4, <2>5
  <1>2. 1 \in A
    BY <1>1
  <1>3. ASSUME NEW i \in A, i < n PROVE i + 1 \in A
    <2>1. 2 ^ i \in Nat /\ 2 ^ (i + 1) = 2 * 2 ^ i
      BY PowerOfTwo
    <2> QED
      BY <1>3, <2>1
  <1>4. A \subseteq 1 .. n
    OBVIOUS
  <1> HIDE DEF A
  <1>5. A = 1 .. n
    BY <1>2, <1>3, <1>4, IntervalFilled
  <1> QED
    BY <1>1, <1>5 DEF A

\* The area can grow as far as the waiting threads need.
LEMMA GrowthExists ==
    ASSUME NEW w \in Nat, num_polls \in Nat \ {0}, w > num_polls
    PROVE  Drdpa!Growth(w) \in Nat \ {0}
  <1> DEFINE G(g) == g * num_polls > w /\ (g = 2 \/ (g \div 2) * num_polls <= w)
             A == {k \in 1 .. w : 2 ^ k * num_polls <= w}
  <1>1. \E g \in {2 ^ k : k \in 1 .. w} : G(g)
    <2> SUFFICES ASSUME \A k \in 1 .. w : ~G(2 ^ k) PROVE FALSE
      OBVIOUS
    <2>0. w \in Nat \ {0}
      OBVIOUS
    <2>1. 1 \in A
      <3>1. 2 ^ 1 = 2 /\ 1 \in 1 .. w
        BY <2>0, PowerExceeds
      <3>2. ~G(2 ^ 1)
        BY <3>1
      <3> QED
        BY <3>1, <3>2
    <2>2. ASSUME NEW i \in A, i < w PROVE i + 1 \in A
      <3>1. /\ 2 ^ i \in Nat /\ 2 ^ (i + 1) = 2 * 2 ^ i
            /\ i + 1 \in 1 .. w
        BY <2>2, PowerOfTwo
      <3> DEFINE p == 2 ^ i
                 q == 2 ^ (i + 1)
      <3>2. p * num_polls <= w /\ ~G(q) /\ p \in Nat /\ q = 2 * p
        BY <2>2, <3>1
      <3> HIDE DEF p, q
      <3>3. q \div 2 = p
        BY <3>2
      <3>4. ~(q * num_polls > w)
        BY <3>2, <3>3
      <3>5. q * num_polls \in Int
        BY <3>2
      <3> QED
        BY <3>1, <3>4, <3>5 DEF q
    <2>3. A \subseteq 1 .. w
      OBVIOUS
    <2> HIDE DEF A
    <2>4. A = 1 .. w
      BY <2>0, <2>1, <2>2, <2>3, IntervalFilled
    <2>5. 2 ^ w * num_polls <= w /\ 2 ^ w > w /\ 2 ^ w \in Nat
      BY <2>0, <2>4, PowerExceeds, PowerOfTwo DEF A
    <2> DEFINE p == 2 ^ w
    <2>6. p \in Nat /\ p > w /\ p * num_polls <= w
      BY <2>5
    <2> HIDE DEF p
    <2> QED
      BY <2>6
  <1>2. Drdpa!Growth(w) \in {2 ^ k : k \in 1 .. w}
    BY <1>1 DEF Drdpa!Growth
  <1>3. \A k \in 1 .. w : 2 ^ k \in Nat /\ 2 ^ k # 0
    BY PowerExceeds, PowerOfTwo
  <1> QED
    BY <1>2, <1>3

\* Where a thread is and which ticket it has.
LEMMA DrdpaPlaces ==
    ASSUME NEW b \in Nat, DrdpaAt(b)
    PROVE  /\ \A t \in Threads : drdpa_pc[t] \in Drdpa!Waiting \cup Drdpa!Holding =>
                  /\ drdpa_owner # t /\ t \in Drdpa!Active
                  /\ ticket[t] \in b .. next_ticket - 1 /\ ticket[t] \in 0 .. MaxTicket - 1
           /\ \A t \in Threads : drdpa_pc[t] \in Drdpa!Holding =>
                  /\ ticket[t] = b /\ drdpa_owner = None
                  /\ \A u \in Threads : Drdpa!Inside(u) => u = t
           /\ drdpa_owner # None =>
                  /\ drdpa_owner \in Threads /\ drdpa_pc[drdpa_owner] = "program"
                  /\ now_serving = b /\ b < next_ticket
                  /\ \A u \in Threads : Drdpa!Inside(u) => u = drdpa_owner
                  /\ \A u \in Threads : drdpa_pc[u] \notin Drdpa!Holding
  <1> USE NoneAssumption, ThreadsAssumption
  <1>0. Drdpa!TypeOK /\ DrdpaTickets(b)
    BY DEF DrdpaAt
  <1>1. \A t, u \in Threads : Drdpa!Inside(t) /\ Drdpa!Inside(u) => t = u
    BY <1>0 DEF DrdpaTickets, Drdpa!Active
  <1>2. ASSUME NEW t \in Threads, drdpa_pc[t] \in Drdpa!Waiting \cup Drdpa!Holding
        PROVE  /\ drdpa_owner # t /\ t \in Drdpa!Active /\ ticket[t] \in b .. next_ticket - 1
               /\ ticket[t] \in 0 .. MaxTicket - 1
    <2>1. drdpa_owner # t /\ t \in Drdpa!Active
      BY <1>0, <1>2 DEF DrdpaTickets, Drdpa!Active, Drdpa!Inside, Drdpa!Waiting, Drdpa!Holding
    <2>2. ticket[t] \in b .. next_ticket - 1
      BY <1>0, <2>1 DEF DrdpaTickets, Drdpa!TicketOf
    <2>3. next_ticket \in 0 .. MaxTicket
      BY <1>0 DEF Drdpa!TypeOK
    <2> QED
      BY <2>1, <2>2, <2>3, BoundsAssumption
  <1>3. ASSUME NEW t \in Threads, drdpa_pc[t] \in Drdpa!Holding
        PROVE  ticket[t] = b /\ drdpa_owner = None /\ \A u \in Threads : Drdpa!Inside(u) => u = t
    <2>1. Drdpa!Inside(t) /\ drdpa_owner # t
      BY <1>2, <1>3 DEF Drdpa!Inside
    <2>2. ticket[t] = b
      BY <1>0, <2>1 DEF DrdpaTickets, Drdpa!TicketOf
    <2>3. drdpa_owner = None
      BY <1>0, <1>1, <2>1 DEF Drdpa!Inside, Drdpa!TypeOK
    <2> QED
      BY <1>1, <2>1, <2>2, <2>3
  <1>4. ASSUME drdpa_owner # None
        PROVE  /\ drdpa_owner \in Threads /\ drdpa_pc[drdpa_owner] = "program"
               /\ now_serving = b /\ b < next_ticket
               /\ \A u \in Threads : Drdpa!Inside(u) => u = drdpa_owner
               /\ \A u \in Threads : drdpa_pc[u] \notin Drdpa!Holding
    <2>1. drdpa_owner \in Threads /\ drdpa_pc[drdpa_owner] = "program"
      BY <1>0, <1>4 DEF DrdpaTickets, Drdpa!TypeOK
    <2>2. Drdpa!Inside(drdpa_owner) /\ drdpa_owner \in Drdpa!Active
      BY <2>1 DEF Drdpa!Inside, Drdpa!Active
    <2>3. now_serving = b /\ now_serving \in b .. next_ticket - 1
      BY <1>0, <2>1, <2>2 DEF DrdpaTickets, Drdpa!TicketOf
    <2>4. next_ticket \in Int
      BY <1>0 DEF Drdpa!TypeOK
    <2>5. \A u \in Threads : drdpa_pc[u] \notin Drdpa!Holding
      BY <1>3, <1>4
    <2> QED
      BY <1>1, <2>1, <2>2, <2>3, <2>4, <2>5
  <1> QED
    BY <1>2, <1>3, <1>4

\* The areas that may be used are there.
LEMMA DrdpaUsed ==
    ASSUME NEW b \in Nat, DrdpaAt(b)
    PROVE  /\ polls \in DOMAIN areas /\ DOMAIN areas = 1 .. Len(areas) /\ Len(areas) \in Nat
           /\ \A p \in DOMAIN areas : areas[p] \in PollingAreas
           /\ areas[polls] # << >> /\ None \notin DOMAIN areas
           /\ \A p \in DOMAIN areas : \A i \in DOMAIN areas[p] : areas[p][i] \in Int /\ areas[p][i] <= b
           /\ (\A t \in Threads : drdpa_pc[t] # "publish") =>
                  /\ mask + 1 \in Nat \ {0}
                  /\ \A n \in Nat : Drdpa!Hit(n, mask) \in DOMAIN areas[polls]
  <1> USE NoneAssumption
  <1>0. Drdpa!TypeOK /\ DrdpaAreas /\ DrdpaCounters(b)
    BY DEF DrdpaAt
  <1>1. /\ polls \in DOMAIN areas /\ DOMAIN areas = 1 .. Len(areas) /\ Len(areas) \in Nat
        /\ \A p \in DOMAIN areas : areas[p] \in PollingAreas
    BY <1>0 DEF Drdpa!TypeOK, DrdpaAreas
  <1>2. areas[polls] # << >> /\ None \notin DOMAIN areas
    BY <1>0, <1>1 DEF DrdpaAreas
  <1>3. \A a \in PollingAreas : \A i \in DOMAIN a : a[i] \in Int
    BY DEF PollingAreas
  <1>4. \A p \in DOMAIN areas : \A i \in DOMAIN areas[p] : areas[p][i] \in Int /\ areas[p][i] <= b
    BY <1>0, <1>1, <1>3 DEF DrdpaCounters
  <1>5. ASSUME \A t \in Threads : drdpa_pc[t] # "publish"
        PROVE  /\ mask + 1 \in Nat \ {0}
               /\ \A n \in Nat : Drdpa!Hit(n, mask) \in DOMAIN areas[polls]
    <2>1. DOMAIN areas[polls] = 0 .. mask /\ mask \in Nat
      BY <1>0, <1>5 DEF DrdpaAreas, Drdpa!TypeOK
    <2>2. \A n, m \in Nat : n % (m + 1) \in 0 .. m
      OBVIOUS
    <2> QED
      BY <2>1, <2>2 DEF Drdpa!Hit
  <1> QED
    BY <1>1, <1>2, <1>4, <1>5

\* A thread that waits does not poll an area that is freed.
LEMMA DrdpaPolls ==
    ASSUME NEW b \in Nat, DrdpaAt(b), NEW t \in Threads, drdpa_pc[t] = "poll"
    PROVE  /\ my_polls[t] \in DOMAIN areas /\ DOMAIN areas[my_polls[t]] # {}
           /\ my_mask[t] \in Nat
  <1> USE NoneAssumption
  <1>1. LocalsOf(t) /\ Drdpa!TypeOK /\ DrdpaAreas
    BY DEF DrdpaAt, DrdpaLocals
  <1>2. my_polls[t] \in {polls, old_polls} /\ my_polls[t] # None
    BY <1>1 DEF LocalsOf
  <1>3. my_polls[t] \in DOMAIN areas /\ areas[my_polls[t]] # << >> /\ areas[my_polls[t]] \in PollingAreas
    BY <1>1, <1>2, DrdpaUsed DEF Drdpa!TypeOK, DrdpaAreas
  <1>4. \A a \in PollingAreas : a # << >> => 0 \in DOMAIN a
    BY DEF PollingAreas
  <1>5. my_mask[t] \in Nat
    BY <1>1 DEF LocalsOf, Drdpa!TypeOK
  <1> QED
    BY <1>3, <1>4, <1>5

\* The Cardinality of that module is that of FiniteSets.
LEMMA DrdpaCardinality == \A S : Drdpa!Cardinality(S) = Cardinality(S)
  BY DEF Drdpa!Cardinality, Cardinality

\* The size of a polling area.
LEMMA SizeOfInterval == \A m \in Nat : Cardinality(0 .. m) = m + 1
  BY FS_Interval

\* The polling area of a new lock.
LEMMA FreshArea == [i \in {0} |-> 0] \in PollingAreas \ {<< >>}
  <1>1. 0 .. 0 = {0}
    OBVIOUS
  <1>2. [i \in {0} |-> 0] \in [0 .. 0 -> Int]
    BY <1>1
  <1>3. DOMAIN [i \in {0} |-> 0] # DOMAIN << >>
    OBVIOUS
  <1> QED
    BY <1>2, <1>3 DEF PollingAreas

\* A write to a place of a polling area gives a polling area.
LEMMA WrittenArea ==
    ASSUME NEW m \in Nat, NEW q \in [0 .. m -> Int], NEW h \in DOMAIN q, NEW v \in Int
    PROVE  /\ [q EXCEPT ![h] = v] \in [0 .. m -> Int]
           /\ \A i \in 0 .. m : [q EXCEPT ![h] = v][i] \in {q[i], v}
  OBVIOUS

\* The release writes the next ticket to an element of the area in use, and nowhere else.
LEMMA DrdpaWritten ==
    ASSUME NEW b \in Nat, DrdpaAt(b), NEW t \in Threads, Drdpa!Unset(t)
    PROVE  /\ stray' = stray /\ stray = None
           /\ areas' \in Seq(PollingAreas) /\ DOMAIN areas' = DOMAIN areas
           /\ \A p \in DOMAIN areas : DOMAIN areas'[p] = DOMAIN areas[p]
           /\ \A p \in DOMAIN areas : areas'[p] = << >> <=> areas[p] = << >>
           /\ \A p \in DOMAIN areas : \A i \in DOMAIN areas[p] :
                  areas'[p][i] = areas[p][i] \/ (p = polls /\ areas'[p][i] = b + 1)
  <1> USE NoneAssumption, ThreadsAssumption
  <1>0. Drdpa!TypeOK /\ DrdpaAreas
    BY DEF DrdpaAt
  <1>1. drdpa_owner = t /\ drdpa_owner # None /\ stray = None
    BY DEF Drdpa!Unset, Drdpa!Go
  <1>2. now_serving = b /\ \A u \in Threads : drdpa_pc[u] # "publish"
    BY <1>1, DrdpaPlaces DEF Drdpa!Holding
  <1> DEFINE h == Drdpa!Hit(b + 1, mask)
             a == [areas[polls] EXCEPT ![h] = b + 1]
  <1>3. h \in DOMAIN areas[polls] /\ polls \in DOMAIN areas /\ areas[polls] \in PollingAreas
        /\ areas[polls] # << >>
    BY <1>2, DrdpaUsed
  <1>4. stray' = stray /\ areas' = [areas EXCEPT ![polls] = a]
    BY <1>2, <1>3 DEF Drdpa!Unset
  <1>5. PICK m \in Nat : areas[polls] \in [0 .. m -> Int]
    BY <1>3 DEF PollingAreas
  <1>6. a \in [0 .. m -> Int] /\ \A i \in 0 .. m : a[i] \in {areas[polls][i], b + 1}
    BY <1>3, <1>5, WrittenArea
  <1>7. a \in PollingAreas /\ a # << >> /\ DOMAIN a = DOMAIN areas[polls]
    <2>1. 0 \in DOMAIN a
      BY <1>6
    <2> HIDE DEF a
    <2> QED
      BY <1>5, <1>6, <2>1 DEF PollingAreas
  <1>8. areas \in Seq(PollingAreas)
    BY <1>0 DEF DrdpaAreas
  <1>9. /\ areas' \in Seq(PollingAreas) /\ DOMAIN areas' = DOMAIN areas
        /\ areas'[polls] = a /\ \A p \in DOMAIN areas : p # polls => areas'[p] = areas[p]
    <2> HIDE DEF a
    <2> QED
      BY <1>3, <1>4, <1>7, <1>8
  <1> HIDE DEF a
  <1> QED
    BY <1>1, <1>3, <1>4, <1>5, <1>6, <1>7, <1>9

\* The area that replaces another one is of the size that its mask says.
LEMMA DrdpaReplacement ==
    ASSUME NEW b \in Nat, DrdpaAt(b), NEW t \in Threads, Drdpa!Contract(t) \/ Drdpa!Grow(t)
    PROVE  \E a, m : /\ Drdpa!Replace(t, a, m)
                     /\ m \in Nat /\ a \in [0 .. m -> Int]
                     /\ \A i \in 0 .. m : a[i] <= b
  <1>0. Drdpa!TypeOK /\ LocalsOf(t) /\ DrdpaAreas
    BY DEF DrdpaAt, DrdpaLocals
  <1>1. drdpa_pc[t] = "reconfigure"
    BY DEF Drdpa!Contract, Drdpa!Grow, Drdpa!Replace, Drdpa!Go
  <1>2. ticket[t] = b /\ ticket[t] \in b .. next_ticket - 1
    BY <1>1, DrdpaPlaces DEF Drdpa!Holding
  <1>3. \A u \in Threads : drdpa_pc[u] # "publish"
    <2>1. \A u \in Threads : drdpa_pc[u] \in Drdpa!Holding => u = t
      BY <1>1, DrdpaPlaces DEF Drdpa!Holding, Drdpa!Inside
    <2> QED
      BY <1>1, <2>1 DEF Drdpa!Holding
  <1>4. CASE Drdpa!Contract(t)
    <2> DEFINE a == [i \in {0} |-> ticket[t]]
    <2>1. Drdpa!Replace(t, a, 0)
      BY <1>4 DEF Drdpa!Contract
    <2>2. 0 .. 0 = {0}
      OBVIOUS
    <2>3. a \in [0 .. 0 -> Int] /\ \A i \in 0 .. 0 : a[i] <= b
      BY <1>2, <2>2
    <2> QED
      BY <2>1, <2>3
  <1>5. CASE Drdpa!Grow(t)
    <2> DEFINE w == next_ticket - ticket[t] - 1
               g == Drdpa!Growth(w)
               old == areas[my_polls[t]]
               a == [i \in 0 .. g * num_polls - 1 |-> IF i < num_polls THEN old[i] ELSE 0]
               m == (my_mask[t] + 1) * g - 1
    <2>1. w > num_polls /\ Drdpa!Replace(t, a, m)
      BY <1>5 DEF Drdpa!Grow
    <2>2. num_polls \in Nat \ {0} /\ my_mask[t] + 1 = num_polls /\ my_polls[t] = polls
          /\ DOMAIN areas[polls] = 0 .. num_polls - 1
      <3>1. my_mask[t] = mask /\ my_polls[t] = polls
        BY <1>0, <1>1 DEF LocalsOf
      <3>2. num_polls = mask + 1 /\ DOMAIN areas[polls] = 0 .. mask
        BY <1>0, <1>3 DEF DrdpaAreas
      <3>3. num_polls \in Nat \ {0} /\ mask \in Nat
        BY <1>0 DEF Drdpa!TypeOK
      <3> QED
        BY <3>1, <3>2, <3>3
    <2>3. w \in Nat
      <3>1. next_ticket \in Nat
        BY <1>0 DEF Drdpa!TypeOK
      <3> QED
        BY <1>2, <3>1
    <2>4. g \in Nat \ {0}
      BY <2>1, <2>2, <2>3, GrowthExists
    <2>5. \A i \in 0 .. num_polls - 1 : old[i] \in Int /\ old[i] <= b
      BY <2>2, DrdpaUsed
    <2> HIDE DEF w, g, old
    <2>6. m = g * num_polls - 1 /\ m \in Nat
      BY <2>2, <2>4
    <2>7. \A i \in 0 .. m : a[i] \in Int /\ a[i] <= b
      BY <2>2, <2>5, <2>6
    <2>8. a \in [0 .. m -> Int]
      BY <2>6, <2>7
    <2> HIDE DEF a, m
    <2> QED
      BY <2>1, <2>6, <2>7, <2>8
  <1> QED
    BY <1>4, <1>5

\* The types, by the groups of variables that an action changes.
LEMMA DrdpaTypeNext ==
    ASSUME NEW b \in Nat, DrdpaAt(b), Drdpa!Next
    PROVE  Drdpa!TypeOK' /\ areas' \in Seq(PollingAreas)
  <1> USE NoneAssumption, ThreadsAssumption, BoundsAssumption
      DEF Drdpa!Go, Drdpa!Forget, Drdpa!Return, Drdpa!area, Drdpa!tickets, Drdpa!mine
  <1>0. Drdpa!TypeOK /\ DrdpaAreas /\ DrdpaTickets(b) /\ DrdpaLocals /\ areas \in Seq(PollingAreas)
    BY DEF DrdpaAt, DrdpaAreas
  <1> DEFINE P == {"program"} \cup Drdpa!Waiting \cup Drdpa!Holding \cup Drdpa!Testing
             T == Drdpa!TypeOK' /\ areas' \in Seq(PollingAreas)
  <1>1. ASSUME NEW t \in Threads, Drdpa!TakeTicket(t) \/ Drdpa!Test(t) PROVE T
    <2>1. next_ticket + 1 \in 0 .. MaxTicket /\ next_ticket \in 0 .. MaxTicket
      BY <1>0, <1>1 DEF Drdpa!TypeOK, Drdpa!TakeTicket, Drdpa!Test
    <2>2. drdpa_pc' \in [Threads -> P]
      BY <1>0, <1>1 DEF Drdpa!TypeOK, Drdpa!TakeTicket, Drdpa!Test, Drdpa!Waiting, Drdpa!Testing
    <2>3. ticket' \in [Threads -> 0 .. MaxTicket \cup {None}]
      BY <1>0, <1>1, <2>1 DEF Drdpa!TypeOK, Drdpa!TakeTicket, Drdpa!Test
    <2>4. next_ticket' \in 0 .. MaxTicket
      BY <1>0, <1>1, <2>1 DEF Drdpa!TypeOK, Drdpa!TakeTicket, Drdpa!Test
    <2> QED
      BY <1>0, <1>1, <2>2, <2>3, <2>4 DEF Drdpa!TypeOK, Drdpa!TakeTicket, Drdpa!Test
  <1>2. ASSUME NEW t \in Threads, Drdpa!ReadMask(t) \/ Drdpa!ReadPolls(t) PROVE T
    <2>1. drdpa_pc' \in [Threads -> P]
      BY <1>0, <1>2 DEF Drdpa!TypeOK, Drdpa!ReadMask, Drdpa!ReadPolls, Drdpa!Waiting, Drdpa!Testing
    <2>2. UNCHANGED <<next_ticket, now_serving, cleanup_ticket, polls, mask, num_polls, old_polls,
                      drdpa_owner, areas, ticket>>
      BY <1>2 DEF Drdpa!ReadMask, Drdpa!ReadPolls
    <2>3. /\ my_polls' \in [Threads -> DOMAIN areas \cup {None}]
          /\ my_mask' \in [Threads -> Nat \cup {None}]
      <3>1. CASE Drdpa!ReadMask(t)
        BY <3>1, <1>0 DEF Drdpa!TypeOK, Drdpa!ReadMask
      <3>2. CASE Drdpa!ReadPolls(t)
        BY <3>2, <1>0 DEF Drdpa!TypeOK, Drdpa!ReadPolls
      <3> QED
        BY <1>2, <3>1, <3>2
    <2>4. Drdpa!TypeOK'
      BY <1>0, <2>1, <2>2, <2>3 DEF Drdpa!TypeOK
    <2> QED
      BY <1>0, <2>2, <2>4
  <1>3. ASSUME NEW t \in Threads, Drdpa!Poll(t) PROVE T
    <2>1. drdpa_pc' \in [Threads -> P]
      BY <1>0, <1>3 DEF Drdpa!TypeOK, Drdpa!Poll, Drdpa!Stray, Drdpa!Waiting, Drdpa!Holding
    <2> QED
      BY <1>0, <1>3, <2>1 DEF Drdpa!TypeOK, Drdpa!Poll, Drdpa!Stray
  <1>4. ASSUME NEW t \in Threads, Drdpa!Serve(t) PROVE T
    <2>1. drdpa_pc[t] \in Drdpa!Holding
      BY <1>4 DEF Drdpa!Serve, Drdpa!Enter, Drdpa!Holding
    <2>2. now_serving' \in 0 .. MaxTicket - 1
      BY <1>4, <2>1, DrdpaPlaces DEF Drdpa!Serve, Drdpa!Enter
    <2>3. drdpa_pc' \in [Threads -> P]
      BY <1>0, <1>4 DEF Drdpa!TypeOK, Drdpa!Serve, Drdpa!Enter, Drdpa!Holding
    <2>4. /\ areas' \in Seq(PollingAreas) /\ DOMAIN areas' = DOMAIN areas
          /\ old_polls' \in DOMAIN areas \cup {None}
          /\ cleanup_ticket' \in 0 .. MaxTicket
      <3>1. << >> \in PollingAreas
        BY DEF PollingAreas
      <3>2. old_polls \in DOMAIN areas \cup {None} /\ cleanup_ticket \in 0 .. MaxTicket
        BY <1>0 DEF Drdpa!TypeOK
      <3>3. old_polls # None => [areas EXCEPT ![old_polls] = << >>] \in Seq(PollingAreas)
        BY <1>0, <3>1, <3>2
      <3> QED
        BY <1>0, <1>4, <3>2, <3>3 DEF Drdpa!Serve, Drdpa!Enter
    <2> QED
      BY <1>0, <1>4, <2>2, <2>3, <2>4 DEF Drdpa!TypeOK, Drdpa!Serve, Drdpa!Enter
  <1>5. ASSUME NEW t \in Threads, Drdpa!Reconfigure(t) PROVE T
    <2>1. CASE Drdpa!Contract(t) \/ Drdpa!Grow(t)
      <3>1. PICK a, m : Drdpa!Replace(t, a, m) /\ m \in Nat /\ a \in [0 .. m -> Int]
        BY <2>1, DrdpaReplacement
      <3>2. a \in PollingAreas
        BY <3>1 DEF PollingAreas
      <3>3. /\ areas' \in Seq(PollingAreas) /\ Len(areas') = Len(areas) + 1 /\ Len(areas) \in Nat
            /\ DOMAIN areas = 1 .. Len(areas) /\ DOMAIN areas' = 1 .. Len(areas) + 1
        BY <1>0, <3>1, <3>2 DEF Drdpa!Replace
      <3>4. DOMAIN areas \subseteq DOMAIN areas' /\ Len(areas') \in DOMAIN areas'
        BY <3>3
      <3>5. drdpa_pc' \in [Threads -> P]
        BY <1>0, <3>1 DEF Drdpa!TypeOK, Drdpa!Replace, Drdpa!Holding
      <3>6. my_polls' \in [Threads -> DOMAIN areas' \cup {None}] /\ old_polls' \in DOMAIN areas' \cup {None}
        BY <1>0, <3>1, <3>4 DEF Drdpa!TypeOK, Drdpa!Replace
      <3>7. my_mask' \in [Threads -> Nat \cup {None}]
        BY <1>0, <3>1 DEF Drdpa!TypeOK, Drdpa!Replace
      <3> QED
        BY <1>0, <3>1, <3>3, <3>4, <3>5, <3>6, <3>7 DEF Drdpa!TypeOK, Drdpa!Replace
    <2>2. CASE ~(Drdpa!Contract(t) \/ Drdpa!Grow(t))
      <3>1. drdpa_pc' = [drdpa_pc EXCEPT ![t] = "own"] /\ my_polls' = [my_polls EXCEPT ![t] = None]
            /\ my_mask' = [my_mask EXCEPT ![t] = None]
            /\ UNCHANGED <<next_ticket, now_serving, cleanup_ticket, polls, mask, num_polls, old_polls,
                           areas, drdpa_owner, ticket>>
        BY <1>5, <2>2 DEF Drdpa!Reconfigure
      <3>2. drdpa_pc' \in [Threads -> P]
        BY <1>0, <3>1 DEF Drdpa!TypeOK, Drdpa!Holding
      <3> QED
        BY <1>0, <3>1, <3>2 DEF Drdpa!TypeOK
    <2> QED
      BY <2>1, <2>2
  <1>6. ASSUME NEW t \in Threads, Drdpa!Publish(t) PROVE T
    <2>1. my_mask[t] \in Nat /\ my_polls[t] = polls /\ DOMAIN areas[polls] = 0 .. my_mask[t]
      BY <1>0, <1>6 DEF DrdpaLocals, LocalsOf, Drdpa!Publish, Drdpa!TypeOK
    <2>2. Cardinality(0 .. my_mask[t]) = my_mask[t] + 1
      BY <2>1, SizeOfInterval
    <2>3. num_polls' = my_mask[t] + 1
      BY <1>6, <2>1, <2>2, DrdpaCardinality DEF Drdpa!Publish
    <2>4. drdpa_pc' \in [Threads -> P]
      BY <1>0, <1>6 DEF Drdpa!TypeOK, Drdpa!Publish, Drdpa!Holding
    <2> QED
      BY <1>0, <1>6, <2>1, <2>3, <2>4 DEF Drdpa!TypeOK, Drdpa!Publish
  <1>7. ASSUME NEW t \in Threads, Drdpa!Cleanup(t) \/ Drdpa!Own(t) PROVE T
    <2>1. drdpa_pc' \in [Threads -> P]
      BY <1>0, <1>7 DEF Drdpa!TypeOK, Drdpa!Cleanup, Drdpa!Own, Drdpa!Holding
    <2> QED
      BY <1>0, <1>7, <2>1 DEF Drdpa!TypeOK, Drdpa!Cleanup, Drdpa!Own
  <1>8. ASSUME NEW t \in Threads, Drdpa!TestPoll(t) PROVE T
    <2>1. drdpa_pc' \in [Threads -> P]
      BY <1>0, <1>8 DEF Drdpa!TypeOK, Drdpa!TestPoll, Drdpa!Stray, Drdpa!Testing
    <2> QED
      BY <1>0, <1>8, <2>1 DEF Drdpa!TypeOK, Drdpa!TestPoll, Drdpa!Stray
  <1>9. ASSUME NEW t \in Threads, Drdpa!TestTake(t) PROVE T
    <2>1. drdpa_pc' \in [Threads -> P]
      BY <1>0, <1>9 DEF Drdpa!TypeOK, Drdpa!TestTake, Drdpa!Holding
    <2>2. ticket[t] \in 0 .. MaxTicket - 1
      BY <1>0, <1>9 DEF DrdpaTickets, Drdpa!TestTake, Drdpa!Testing
    <2>3. next_ticket' \in 0 .. MaxTicket /\ now_serving' \in 0 .. MaxTicket - 1
      BY <1>0, <1>9, <2>2 DEF Drdpa!TypeOK, Drdpa!TestTake
    <2> QED
      BY <1>0, <1>9, <2>1, <2>3 DEF Drdpa!TypeOK, Drdpa!TestTake
  <1>10. ASSUME NEW t \in Threads, Drdpa!Unset(t) PROVE T
    <2>1. areas' \in Seq(PollingAreas) /\ DOMAIN areas' = DOMAIN areas
      BY <1>10, DrdpaWritten DEF Drdpa!Unset
    <2>2. drdpa_pc' \in [Threads -> P]
      BY <1>0, <1>10 DEF Drdpa!TypeOK, Drdpa!Unset
    <2> QED
      BY <1>0, <1>10, <2>1, <2>2 DEF Drdpa!TypeOK, Drdpa!Unset
  <1>11. CASE Drdpa!Recreate
    <2>1. /\ areas' = <<[i \in {0} |-> 0]>> /\ next_ticket' = 0 /\ now_serving' = 0 /\ cleanup_ticket' = 0
          /\ polls' = 1 /\ mask' = 0 /\ num_polls' = 1 /\ old_polls' = None /\ drdpa_owner' = None
      BY <1>11 DEF Drdpa!Recreate, Drdpa!Fresh
    <2>2. [i \in {0} |-> 0] \in PollingAreas
      BY FreshArea
    <2> DEFINE a == [i \in {0} |-> 0]
    <2> HIDE DEF a
    <2>3. areas' \in Seq(PollingAreas) /\ DOMAIN areas' = {1}
      BY <2>1, <2>2 DEF a
    <2>4. \A t \in Threads : my_polls[t] = None
      BY <1>0, <1>11 DEF DrdpaLocals, LocalsOf, Drdpa!Recreate
    <2>5. my_polls' \in [Threads -> DOMAIN areas' \cup {None}]
      BY <1>0, <1>11, <2>4 DEF Drdpa!Recreate, Drdpa!TypeOK
    <2> QED
      BY <1>0, <1>11, <2>1, <2>3, <2>5 DEF Drdpa!Recreate, Drdpa!TypeOK
  <1>12. CASE Drdpa!Undefined
    BY <1>0, <1>12 DEF Drdpa!Undefined, Drdpa!vars, Drdpa!TypeOK
  <1> QED
    BY <1>1, <1>2, <1>3, <1>4, <1>5, <1>6, <1>7, <1>8, <1>9, <1>10, <1>11, <1>12
    DEF Drdpa!Next, Drdpa!Step

\* A step of a thread that is in the same place of the line before and after it.
LEMMA DrdpaTicketsStay ==
    ASSUME NEW b \in Nat, DrdpaAt(b), NEW t \in Threads,
           UNCHANGED <<next_ticket, now_serving, drdpa_owner>>, drdpa_owner # t,
           \A u \in Threads \ {t} : drdpa_pc'[u] = drdpa_pc[u] /\ ticket'[u] = ticket[u],
           drdpa_pc'[t] \in Drdpa!Waiting <=> drdpa_pc[t] \in Drdpa!Waiting,
           drdpa_pc'[t] \in Drdpa!Holding <=> drdpa_pc[t] \in Drdpa!Holding,
           drdpa_pc[t] \in Drdpa!Waiting \cup Drdpa!Holding => ticket'[t] = ticket[t],
           drdpa_pc'[t] \in Drdpa!Holding \ {"serve"} => drdpa_pc[t] \in Drdpa!Holding \ {"serve"},
           drdpa_pc'[t] \in Drdpa!Testing => ticket'[t] \in 0 .. MaxTicket - 1,
           drdpa_pc'[t] = "test_cas" => ticket'[t] <= b
    PROVE  /\ DrdpaTickets(b)' /\ Drdpa!Active' = Drdpa!Active
           /\ \A u \in Threads : Drdpa!Inside(u)' <=> Drdpa!Inside(u)
           /\ \A u \in Drdpa!Active : Drdpa!TicketOf(u)' = Drdpa!TicketOf(u)
  <1> USE NoneAssumption
  <1>0. DrdpaTickets(b) /\ Drdpa!TypeOK
    BY DEF DrdpaAt
  <1>1. \A u \in Threads : /\ Drdpa!Inside(u)' <=> Drdpa!Inside(u)
                           /\ drdpa_pc'[u] \in Drdpa!Waiting <=> drdpa_pc[u] \in Drdpa!Waiting
    BY DEF Drdpa!Inside
  <1>2. Drdpa!Active' = Drdpa!Active
    BY <1>1 DEF Drdpa!Active
  <1>3. \A u \in Drdpa!Active : Drdpa!TicketOf(u)' = Drdpa!TicketOf(u)
    BY <1>0 DEF Drdpa!Active, Drdpa!Inside, Drdpa!TicketOf
  <1>4. ASSUME NEW u \in Threads
        PROVE  /\ Drdpa!Inside(u)' => Drdpa!TicketOf(u)' = b
               /\ drdpa_pc'[u] \in Drdpa!Holding \ {"serve"} => ticket'[u] = now_serving'
               /\ drdpa_pc'[u] \in Drdpa!Testing => ticket'[u] \in 0 .. MaxTicket - 1
               /\ drdpa_pc'[u] = "test_cas" => ticket'[u] <= b
    <2>1. Drdpa!Inside(u)' => Drdpa!TicketOf(u)' = b
      BY <1>0, <1>1, <1>3 DEF DrdpaTickets, Drdpa!Active
    <2>2. CASE u = t
      BY <1>0, <2>1, <2>2 DEF DrdpaTickets
    <2>3. CASE u # t
      BY <1>0, <2>1, <2>3 DEF DrdpaTickets
    <2> QED
      BY <2>2, <2>3
  <1>5. drdpa_owner' # None => drdpa_pc'[drdpa_owner'] = "program"
    BY <1>0, DrdpaPlaces DEF DrdpaTickets
  <1>6. /\ b \in 0 .. next_ticket'
        /\ \A u \in Drdpa!Active' : Drdpa!TicketOf(u)' \in b .. next_ticket' - 1
        /\ \A u, v \in Drdpa!Active' : Drdpa!TicketOf(u)' = Drdpa!TicketOf(v)' => u = v
        /\ \A k \in b .. next_ticket' - 1 : \E u \in Drdpa!Active' : Drdpa!TicketOf(u)' = k
    BY <1>0, <1>2, <1>3 DEF DrdpaTickets
  <1>7. DrdpaTickets(b)'
    BY <1>4, <1>5, <1>6 DEF DrdpaTickets
  <1> QED
    BY <1>1, <1>2, <1>3, <1>7

\* A step that leaves the words of the lock and the areas alone.
LEMMA DrdpaWordsStay ==
    ASSUME NEW b \in Nat, DrdpaAt(b), NEW t \in Threads,
           UNCHANGED <<cleanup_ticket, polls, mask, num_polls, old_polls, areas>>,
           \A u \in Threads \ {t} : /\ drdpa_pc'[u] = drdpa_pc[u] /\ ticket'[u] = ticket[u]
                                    /\ my_polls'[u] = my_polls[u] /\ my_mask'[u] = my_mask[u],
           drdpa_pc[t] \notin {"publish", "cleanup"}, drdpa_pc'[t] \notin {"publish", "cleanup"},
           (\E u \in Threads : Drdpa!Inside(u)) => \E u \in Threads : Drdpa!Inside(u)',
           areas' \in Seq(PollingAreas)
    PROVE  /\ DrdpaCounters(b)' /\ DrdpaAreas'
           /\ \A u \in Threads \ {t} : LocalsOf(u)'
           /\ ticket'[t] = ticket[t] => (Spared(t)' <=> Spared(t))
  <1>0. DrdpaLocals /\ DrdpaAreas /\ DrdpaCounters(b)
    BY DEF DrdpaAt
  <1>1. \A u \in Threads : drdpa_pc'[u] \in {"publish", "cleanup"} <=> drdpa_pc[u] \in {"publish", "cleanup"}
    OBVIOUS
  <1>2. \A u \in Threads : ticket'[u] = ticket[u] => (Spared(u)' <=> Spared(u))
    BY <1>1 DEF Spared
  <1>3. ASSUME NEW u \in Threads \ {t} PROVE LocalsOf(u)'
    <2>1. LocalsOf(u) /\ (Spared(u)' <=> Spared(u))
      BY <1>0, <1>2 DEF DrdpaLocals
    <2> QED
      BY <2>1 DEF LocalsOf
  <1>4. DrdpaCounters(b)'
    BY <1>0 DEF DrdpaCounters
  <1>5. \A u \in Threads : drdpa_pc'[u] = "publish" <=> drdpa_pc[u] = "publish"
    OBVIOUS
  <1>6. DrdpaAreas'
    BY <1>0, <1>5 DEF DrdpaAreas
  <1> QED
    BY <1>2, <1>3, <1>4, <1>6

\* The steps of threads that stay where they are in the line, and outside the lock or inside.
LEMMA DrdpaQuiet ==
    ASSUME NEW b \in Nat, DrdpaAt(b), Drdpa!Next, NEW t \in Threads,
           \/ Drdpa!Test(t) \/ Drdpa!ReadMask(t) \/ Drdpa!ReadPolls(t) \/ Drdpa!TestPoll(t)
           \/ Drdpa!Poll(t) /\ drdpa_pc'[t] # "serve"
           \/ Drdpa!TestTake(t) /\ drdpa_pc'[t] # "own"
           \/ Drdpa!Reconfigure(t) /\ drdpa_pc'[t] = "own"
    PROVE  /\ DrdpaAt(b)' /\ UNCHANGED <<next_ticket, now_serving>> /\ Drdpa!Active' = Drdpa!Active
           /\ \A u \in Threads : Drdpa!Inside(u)' <=> Drdpa!Inside(u)
           /\ \A u \in Drdpa!Active : Drdpa!TicketOf(u)' = Drdpa!TicketOf(u)
  <1> USE NoneAssumption, ThreadsAssumption
      DEF Drdpa!Go, Drdpa!Forget, Drdpa!Return, Drdpa!area, Drdpa!tickets, Drdpa!mine
  <1>0. /\ Drdpa!TypeOK /\ DrdpaTickets(b) /\ DrdpaLocals /\ DrdpaAreas /\ LocalsOf(t)
        /\ Drdpa!TypeOK' /\ areas' \in Seq(PollingAreas)
    BY DrdpaTypeNext DEF DrdpaAt, DrdpaLocals
  <1> DEFINE Calm ==
                 /\ UNCHANGED <<next_ticket, now_serving, drdpa_owner, cleanup_ticket, polls, mask,
                                num_polls, old_polls, areas>>
                 /\ drdpa_owner # t
                 /\ \A u \in Threads \ {t} :
                        /\ drdpa_pc'[u] = drdpa_pc[u] /\ ticket'[u] = ticket[u]
                        /\ my_polls'[u] = my_polls[u] /\ my_mask'[u] = my_mask[u]
                 /\ drdpa_pc'[t] \in Drdpa!Waiting <=> drdpa_pc[t] \in Drdpa!Waiting
                 /\ drdpa_pc'[t] \in Drdpa!Holding <=> drdpa_pc[t] \in Drdpa!Holding
                 /\ drdpa_pc[t] \in Drdpa!Waiting \cup Drdpa!Holding => ticket'[t] = ticket[t]
                 /\ drdpa_pc'[t] \in Drdpa!Holding \ {"serve"} => drdpa_pc[t] \in Drdpa!Holding \ {"serve"}
                 /\ drdpa_pc'[t] \in Drdpa!Testing => ticket'[t] \in 0 .. MaxTicket - 1
                 /\ drdpa_pc'[t] = "test_cas" => ticket'[t] <= b
                 /\ drdpa_pc[t] \notin {"publish", "cleanup"} /\ drdpa_pc'[t] \notin {"publish", "cleanup"}
             LocalsKept == (ticket'[t] = ticket[t] => (Spared(t)' <=> Spared(t))) => LocalsOf(t)'
  <1>1. ASSUME Calm, LocalsKept
        PROVE  /\ DrdpaAt(b)' /\ UNCHANGED <<next_ticket, now_serving>> /\ Drdpa!Active' = Drdpa!Active
               /\ \A u \in Threads : Drdpa!Inside(u)' <=> Drdpa!Inside(u)
               /\ \A u \in Drdpa!Active : Drdpa!TicketOf(u)' = Drdpa!TicketOf(u)
    <2>1. /\ DrdpaTickets(b)' /\ Drdpa!Active' = Drdpa!Active
          /\ \A u \in Threads : Drdpa!Inside(u)' <=> Drdpa!Inside(u)
          /\ \A u \in Drdpa!Active : Drdpa!TicketOf(u)' = Drdpa!TicketOf(u)
      BY <1>1, DrdpaTicketsStay
    <2>2. /\ DrdpaCounters(b)' /\ DrdpaAreas'
          /\ \A u \in Threads \ {t} : LocalsOf(u)'
          /\ ticket'[t] = ticket[t] => (Spared(t)' <=> Spared(t))
      BY <1>0, <1>1, <2>1, DrdpaWordsStay
    <2>3. DrdpaLocals'
      BY <1>1, <2>2 DEF DrdpaLocals
    <2> QED
      BY <1>0, <1>1, <2>1, <2>2, <2>3 DEF DrdpaAt
  <1>2. drdpa_pc[t] \in Drdpa!Waiting \cup Drdpa!Holding \cup Drdpa!Testing => drdpa_owner # t
    BY <1>0 DEF DrdpaTickets, Drdpa!Waiting, Drdpa!Holding, Drdpa!Testing
  <1>3. drdpa_pc[t] \in Drdpa!Testing => ticket[t] \in 0 .. MaxTicket - 1
    BY <1>0 DEF DrdpaTickets
  <1>4. CASE Drdpa!Test(t)
    <2>1. ticket'[t] \in 0 .. MaxTicket - 1
      <3>1. next_ticket \in 0 .. MaxTicket /\ next_ticket < MaxTicket /\ ticket'[t] = next_ticket
        BY <1>0, <1>4 DEF Drdpa!Test, Drdpa!TypeOK
      <3> QED
        BY <3>1, BoundsAssumption
    <2>2. Calm
      BY <1>0, <1>4, <2>1 DEF Drdpa!Test, Drdpa!TypeOK, Drdpa!Waiting, Drdpa!Holding, Drdpa!Testing
    <2>3. LocalsKept
      BY <1>0, <1>4 DEF Drdpa!Test, Drdpa!TypeOK, LocalsOf
    <2> QED
      BY <1>1, <2>2, <2>3
  <1>5. CASE Drdpa!ReadMask(t)
    <2>2. Calm
      BY <1>0, <1>2, <1>3, <1>5 DEF Drdpa!ReadMask, Drdpa!TypeOK, Drdpa!Waiting, Drdpa!Holding,
                             Drdpa!Testing
    <2>3. LocalsKept
      BY <1>0, <1>5 DEF Drdpa!ReadMask, Drdpa!TypeOK, LocalsOf
    <2> QED
      BY <1>1, <2>2, <2>3
  <1>6. CASE Drdpa!ReadPolls(t)
    <2>2. Calm
      BY <1>0, <1>2, <1>3, <1>6 DEF Drdpa!ReadPolls, Drdpa!TypeOK, Drdpa!Waiting, Drdpa!Holding,
                             Drdpa!Testing
    <2>3. LocalsKept
      BY <1>0, <1>6, DrdpaUsed DEF Drdpa!ReadPolls, Drdpa!TypeOK, LocalsOf
    <2> QED
      BY <1>1, <2>2, <2>3
  <1>7. CASE Drdpa!TestPoll(t)
    <2>1. drdpa_pc[t] = "test_poll" /\ my_polls[t] \in DOMAIN areas
      BY <1>0, <1>7 DEF Drdpa!TestPoll, Drdpa!Stray, LocalsOf, Drdpa!TypeOK
    <2>2. drdpa_pc'[t] = "test_cas" => ticket'[t] <= b
      BY <1>0, <1>7, <2>1, DrdpaUsed DEF Drdpa!TestPoll, Drdpa!Stray, Drdpa!InArea, Drdpa!Polled, Drdpa!TypeOK
    <2>3. Calm
      BY <1>0, <1>2, <1>3, <1>7, <2>1, <2>2
      DEF Drdpa!TestPoll, Drdpa!Stray, Drdpa!TypeOK, Drdpa!Waiting, Drdpa!Holding, Drdpa!Testing
    <2>4. LocalsKept
      BY <1>0, <1>7 DEF Drdpa!TestPoll, Drdpa!Stray, Drdpa!TypeOK, LocalsOf
    <2> QED
      BY <1>1, <2>3, <2>4
  <1>8. CASE Drdpa!Poll(t) /\ drdpa_pc'[t] # "serve"
    <2>1. drdpa_pc[t] = "poll"
      BY <1>8 DEF Drdpa!Poll, Drdpa!Stray
    <2>2. Calm
      BY <1>0, <1>2, <1>8, <2>1
      DEF Drdpa!Poll, Drdpa!Stray, Drdpa!TypeOK, Drdpa!Waiting, Drdpa!Holding, Drdpa!Testing
    <2>3. LocalsKept
      BY <1>0, <1>8 DEF Drdpa!Poll, Drdpa!Stray, Drdpa!TypeOK, LocalsOf
    <2> QED
      BY <1>1, <2>2, <2>3
  <1>9. CASE Drdpa!TestTake(t) /\ drdpa_pc'[t] # "own"
    <2>1. Calm
      BY <1>0, <1>2, <1>9
      DEF Drdpa!TestTake, Drdpa!TypeOK, Drdpa!Waiting, Drdpa!Holding, Drdpa!Testing
    <2>2. LocalsKept
      BY <1>0, <1>9 DEF Drdpa!TestTake, Drdpa!TypeOK, LocalsOf
    <2> QED
      BY <1>1, <2>1, <2>2
  <1>10. CASE Drdpa!Reconfigure(t) /\ drdpa_pc'[t] = "own"
    <2>1. /\ drdpa_pc[t] = "reconfigure" /\ drdpa_pc' = [drdpa_pc EXCEPT ![t] = "own"]
          /\ my_polls' = [my_polls EXCEPT ![t] = None] /\ my_mask' = [my_mask EXCEPT ![t] = None]
          /\ UNCHANGED <<next_ticket, now_serving, cleanup_ticket, polls, mask, num_polls, old_polls,
                         areas, drdpa_owner, ticket, stray>>
      BY <1>0, <1>10 DEF Drdpa!Reconfigure, Drdpa!Contract, Drdpa!Grow, Drdpa!Replace, Drdpa!TypeOK
    <2>2. Calm
      BY <1>0, <1>2, <2>1
      DEF Drdpa!TypeOK, Drdpa!Waiting, Drdpa!Holding, Drdpa!Testing
    <2>3. LocalsKept
      BY <1>0, <2>1 DEF Drdpa!TypeOK, LocalsOf
    <2> QED
      BY <1>1, <2>2, <2>3
  <1> QED
    BY <1>4, <1>5, <1>6, <1>7, <1>8, <1>9, <1>10

\* What a step does that leaves the line as it is.
DrdpaKept ==
    /\ next_ticket' = next_ticket /\ Drdpa!Active' = Drdpa!Active
    /\ \A u \in Drdpa!Active : Drdpa!TicketOf(u)' = Drdpa!TicketOf(u)

\* A thread that asks for the lock gets the next ticket.
LEMMA DrdpaTake ==
    ASSUME NEW b \in Nat, DrdpaAt(b), Drdpa!Next, NEW t \in Threads, Drdpa!TakeTicket(t)
    PROVE  /\ DrdpaAt(b)' /\ t \notin Drdpa!Active /\ Drdpa!Active' = Drdpa!Active \cup {t}
           /\ next_ticket' = next_ticket + 1 /\ Drdpa!TicketOf(t)' = next_ticket
           /\ \A u \in Drdpa!Active : Drdpa!TicketOf(u)' = Drdpa!TicketOf(u)
           /\ \A u \in Threads : Drdpa!Inside(u)' <=> Drdpa!Inside(u)
  <1> USE NoneAssumption, ThreadsAssumption
      DEF Drdpa!Go, Drdpa!area, Drdpa!tickets
  <1>0. /\ Drdpa!TypeOK /\ DrdpaTickets(b) /\ DrdpaLocals /\ DrdpaAreas
        /\ Drdpa!TypeOK' /\ areas' \in Seq(PollingAreas)
    BY DrdpaTypeNext DEF DrdpaAt
  <1>1. /\ drdpa_pc[t] = "program" /\ drdpa_pc'[t] = "mask" /\ drdpa_owner # t
        /\ ticket'[t] = next_ticket /\ next_ticket' = next_ticket + 1
        /\ UNCHANGED <<now_serving, cleanup_ticket, polls, mask, num_polls, old_polls, areas,
                       drdpa_owner, my_polls, my_mask, stray>>
        /\ \A u \in Threads \ {t} : drdpa_pc'[u] = drdpa_pc[u] /\ ticket'[u] = ticket[u]
    BY <1>0 DEF Drdpa!TakeTicket, Drdpa!TypeOK
  <1>2. \A u \in Threads : Drdpa!Inside(u)' <=> Drdpa!Inside(u)
    BY <1>1 DEF Drdpa!Inside, Drdpa!Holding
  <1>3. t \notin Drdpa!Active /\ Drdpa!Active' = Drdpa!Active \cup {t}
    BY <1>1, <1>2 DEF Drdpa!Active, Drdpa!Inside, Drdpa!Holding, Drdpa!Waiting
  <1>4. /\ Drdpa!TicketOf(t)' = next_ticket
        /\ \A u \in Drdpa!Active : Drdpa!TicketOf(u)' = Drdpa!TicketOf(u)
    BY <1>1, <1>3 DEF Drdpa!TicketOf, Drdpa!Active
  <1>5. DrdpaTickets(b)'
    <2>1. next_ticket \in Nat /\ b \in 0 .. next_ticket
      BY <1>0, BoundsAssumption DEF Drdpa!TypeOK, DrdpaTickets
    <2>2. \A u \in Drdpa!Active : Drdpa!TicketOf(u) \in b .. next_ticket - 1
      BY <1>0 DEF DrdpaTickets
    <2>3. \A u \in Drdpa!Active' : Drdpa!TicketOf(u)' \in b .. next_ticket' - 1
      BY <1>1, <1>3, <1>4, <2>1, <2>2
    <2>4. \A u, v \in Drdpa!Active : Drdpa!TicketOf(u) = Drdpa!TicketOf(v) => u = v
      BY <1>0 DEF DrdpaTickets
    <2>5. \A u, v \in Drdpa!Active' : Drdpa!TicketOf(u)' = Drdpa!TicketOf(v)' => u = v
      BY <1>1, <1>3, <1>4, <2>1, <2>2, <2>4
    <2>6. \A k \in b .. next_ticket - 1 : \E u \in Drdpa!Active : Drdpa!TicketOf(u) = k
      BY <1>0 DEF DrdpaTickets
    <2>7. \A k \in b .. next_ticket' - 1 : \E u \in Drdpa!Active' : Drdpa!TicketOf(u)' = k
      <3> SUFFICES ASSUME NEW k \in b .. next_ticket' - 1
                   PROVE  \E u \in Drdpa!Active' : Drdpa!TicketOf(u)' = k
        OBVIOUS
      <3>1. CASE k = next_ticket
        BY <1>3, <1>4, <3>1
      <3>2. CASE k \in b .. next_ticket - 1
        BY <1>3, <1>4, <2>6, <3>2
      <3>3. k = next_ticket \/ k \in b .. next_ticket - 1
        BY <1>1, <2>1
      <3> QED
        BY <3>1, <3>2, <3>3
    <2>8. ASSUME NEW u \in Threads
          PROVE  /\ Drdpa!Inside(u)' => Drdpa!TicketOf(u)' = b
                 /\ drdpa_pc'[u] \in Drdpa!Holding \ {"serve"} => ticket'[u] = now_serving'
                 /\ drdpa_pc'[u] \in Drdpa!Testing => ticket'[u] \in 0 .. MaxTicket - 1
                 /\ drdpa_pc'[u] = "test_cas" => ticket'[u] <= b
      <3>1. Drdpa!Inside(u)' => Drdpa!TicketOf(u)' = b
        BY <1>0, <1>2, <1>4 DEF DrdpaTickets, Drdpa!Active
      <3>2. CASE u = t
        BY <1>1, <3>1, <3>2 DEF Drdpa!Holding, Drdpa!Testing
      <3>3. CASE u # t
        BY <1>0, <1>1, <3>1, <3>3 DEF DrdpaTickets
      <3> QED
        BY <3>2, <3>3
    <2>9. drdpa_owner' # None => drdpa_pc'[drdpa_owner'] = "program"
      BY <1>1, DrdpaPlaces
    <2>10. b \in 0 .. next_ticket'
      BY <1>1, <2>1
    <2> QED
      BY <2>3, <2>5, <2>7, <2>8, <2>9, <2>10 DEF DrdpaTickets
  <1>6. /\ DrdpaCounters(b)' /\ DrdpaAreas'
        /\ \A u \in Threads \ {t} : LocalsOf(u)'
    BY <1>0, <1>1, <1>2, DrdpaWordsStay
  <1>7. LocalsOf(t)'
    BY <1>1 DEF LocalsOf
  <1>8. DrdpaLocals'
    BY <1>6, <1>7 DEF DrdpaLocals
  <1> QED
    BY <1>0, <1>1, <1>2, <1>3, <1>4, <1>5, <1>6, <1>8 DEF DrdpaAt

\* A thread that sees its ticket served is alone, and sees it in the area in use.
LEMMA DrdpaTurn ==
    ASSUME NEW b \in Nat, DrdpaAt(b), Drdpa!Next, NEW t \in Threads, Drdpa!Poll(t),
           drdpa_pc'[t] = "serve"
    PROVE  DrdpaAt(b)' /\ DrdpaKept /\ Drdpa!Inside(t)' /\ t \in Drdpa!Active
  <1> USE NoneAssumption, ThreadsAssumption
      DEF Drdpa!Go, Drdpa!area, Drdpa!tickets, Drdpa!mine
  <1>0. /\ Drdpa!TypeOK /\ DrdpaTickets(b) /\ DrdpaLocals /\ DrdpaAreas /\ LocalsOf(t)
        /\ Drdpa!TypeOK' /\ areas' \in Seq(PollingAreas) /\ DrdpaCounters(b)
    BY DrdpaTypeNext DEF DrdpaAt, DrdpaLocals
  <1>1. /\ drdpa_pc[t] = "poll" /\ Drdpa!InArea(t) /\ Drdpa!Polled(t) >= ticket[t]
        /\ UNCHANGED <<next_ticket, now_serving, cleanup_ticket, polls, mask, num_polls, old_polls,
                       areas, drdpa_owner, ticket, my_polls, my_mask, stray>>
        /\ \A u \in Threads \ {t} : drdpa_pc'[u] = drdpa_pc[u]
    BY <1>0 DEF Drdpa!Poll, Drdpa!Stray, Drdpa!TypeOK
  <1>2. my_polls[t] \in DOMAIN areas
    BY <1>1, DrdpaPolls
  <1>3. /\ drdpa_owner # t /\ t \in Drdpa!Active /\ Drdpa!TicketOf(t) = ticket[t]
        /\ ticket[t] \in b .. next_ticket - 1
    BY <1>1, DrdpaPlaces DEF Drdpa!Waiting, Drdpa!TicketOf
  <1> DEFINE h == Drdpa!Hit(ticket[t], my_mask[t])
             v == areas[my_polls[t]][h]
  <1>4. h \in DOMAIN areas[my_polls[t]] /\ v \in Int /\ v <= b /\ v >= ticket[t]
    BY <1>1, <1>2, DrdpaUsed DEF Drdpa!InArea, Drdpa!Polled
  <1>5. ticket[t] = b /\ v = b
    BY <1>3, <1>4
  <1>6. \A u \in Threads : ~Drdpa!Inside(u)
    <2> SUFFICES ASSUME NEW u \in Threads, Drdpa!Inside(u) PROVE FALSE
      OBVIOUS
    <2>1. u \in Drdpa!Active /\ Drdpa!TicketOf(u) = b
      BY <1>0 DEF DrdpaTickets, Drdpa!Active
    <2>2. u = t
      BY <1>0, <1>3, <1>5, <2>1 DEF DrdpaTickets
    <2> QED
      BY <1>1, <1>3, <2>2 DEF Drdpa!Inside, Drdpa!Holding
  <1>7. my_polls[t] = polls
    BY <1>0, <1>2, <1>4, <1>5, <1>6 DEF DrdpaCounters
  <1>8. Drdpa!Inside(t)' /\ \A u \in Threads \ {t} : ~Drdpa!Inside(u)'
    BY <1>1, <1>6 DEF Drdpa!Inside, Drdpa!Holding
  <1>9. Drdpa!Active' = Drdpa!Active
    BY <1>1, <1>3, <1>6, <1>8 DEF Drdpa!Active
  <1>10. \A u \in Drdpa!Active : Drdpa!TicketOf(u)' = Drdpa!TicketOf(u)
    BY <1>1 DEF Drdpa!TicketOf
  <1>11. DrdpaTickets(b)'
    <2>1. ASSUME NEW u \in Threads
          PROVE  /\ Drdpa!Inside(u)' => Drdpa!TicketOf(u)' = b
                 /\ drdpa_pc'[u] \in Drdpa!Holding \ {"serve"} => ticket'[u] = now_serving'
                 /\ drdpa_pc'[u] \in Drdpa!Testing => ticket'[u] \in 0 .. MaxTicket - 1
                 /\ drdpa_pc'[u] = "test_cas" => ticket'[u] <= b
      <3>1. CASE u = t
        BY <1>1, <1>3, <1>5, <1>10, <3>1 DEF Drdpa!Testing
      <3>2. CASE u # t
        BY <1>0, <1>1, <1>8, <3>2 DEF DrdpaTickets
      <3> QED
        BY <3>1, <3>2
    <2>2. drdpa_owner' # None => drdpa_pc'[drdpa_owner'] = "program"
      BY <1>1, <1>3, DrdpaPlaces
    <2>3. /\ b \in 0 .. next_ticket'
          /\ \A u \in Drdpa!Active' : Drdpa!TicketOf(u)' \in b .. next_ticket' - 1
          /\ \A u, w \in Drdpa!Active' : Drdpa!TicketOf(u)' = Drdpa!TicketOf(w)' => u = w
          /\ \A k \in b .. next_ticket' - 1 : \E u \in Drdpa!Active' : Drdpa!TicketOf(u)' = k
      BY <1>0, <1>1, <1>9, <1>10 DEF DrdpaTickets
    <2> QED
      BY <2>1, <2>2, <2>3 DEF DrdpaTickets
  <1>12. /\ DrdpaCounters(b)' /\ DrdpaAreas'
         /\ \A u \in Threads \ {t} : LocalsOf(u)'
         /\ Spared(t)' <=> Spared(t)
    BY <1>0, <1>1, <1>8, DrdpaWordsStay
  <1>13. LocalsOf(t)'
    BY <1>0, <1>1, <1>7, <1>12 DEF LocalsOf
  <1>14. DrdpaLocals'
    BY <1>12, <1>13 DEF DrdpaLocals
  <1> QED
    BY <1>0, <1>1, <1>3, <1>8, <1>9, <1>10, <1>11, <1>12, <1>14 DEF DrdpaAt, DrdpaKept

\* The thread that has the lock is alone: where the others are.
LEMMA DrdpaAlone ==
    ASSUME NEW b \in Nat, DrdpaAt(b), NEW t \in Threads, drdpa_pc[t] \in Drdpa!Holding
    PROVE  /\ drdpa_owner = None /\ Drdpa!Inside(t) /\ t \in Drdpa!Active /\ ticket[t] = b
           /\ \A u \in Threads \ {t} : ~Drdpa!Inside(u) /\ drdpa_pc[u] \notin Drdpa!Holding
  BY DrdpaPlaces DEF Drdpa!Inside, Drdpa!Active

\* The garbage that a thread frees is of no use to the threads that wait.
LEMMA DrdpaServed ==
    ASSUME NEW b \in Nat, DrdpaAt(b), Drdpa!Next, NEW t \in Threads, Drdpa!Serve(t)
    PROVE  DrdpaAt(b)' /\ DrdpaKept /\ Drdpa!Inside(t) /\ Drdpa!Inside(t)'
  <1> USE NoneAssumption, ThreadsAssumption
      DEF Drdpa!Go, Drdpa!area, Drdpa!tickets, Drdpa!mine
  <1>0. /\ Drdpa!TypeOK /\ DrdpaTickets(b) /\ DrdpaLocals /\ DrdpaAreas /\ LocalsOf(t)
        /\ Drdpa!TypeOK' /\ areas' \in Seq(PollingAreas) /\ DrdpaCounters(b)
    BY DrdpaTypeNext DEF DrdpaAt, DrdpaLocals
  <1> DEFINE free == old_polls # None /\ ticket[t] >= cleanup_ticket
  <1>1. /\ drdpa_pc[t] = "serve" /\ now_serving' = ticket[t]
        /\ UNCHANGED <<next_ticket, polls, mask, num_polls, drdpa_owner, ticket, my_polls, my_mask, stray>>
        /\ \A u \in Threads \ {t} : drdpa_pc'[u] = drdpa_pc[u]
        /\ drdpa_pc'[t] \in {"reconfigure", "own"}
        /\ drdpa_pc'[t] = "reconfigure" => free \/ old_polls = None
    BY <1>0 DEF Drdpa!Serve, Drdpa!Enter, Drdpa!TypeOK
  <1>2. /\ free => areas' = [areas EXCEPT ![old_polls] = << >>] /\ old_polls' = None
        /\ ~free => UNCHANGED <<areas, old_polls, cleanup_ticket>>
    BY DEF Drdpa!Serve, Drdpa!Enter
  <1>3. /\ drdpa_owner = None /\ Drdpa!Inside(t) /\ t \in Drdpa!Active /\ ticket[t] = b
        /\ \A u \in Threads \ {t} : ~Drdpa!Inside(u) /\ drdpa_pc[u] \notin Drdpa!Holding
    BY <1>1, DrdpaAlone DEF Drdpa!Holding
  <1>4. /\ Drdpa!Inside(t)' /\ \A u \in Threads \ {t} : ~Drdpa!Inside(u)'
        /\ \A u \in Threads : drdpa_pc'[u] \in Drdpa!Waiting <=> drdpa_pc[u] \in Drdpa!Waiting
    BY <1>1, <1>3 DEF Drdpa!Inside, Drdpa!Holding, Drdpa!Waiting
  <1>5. Drdpa!Active' = Drdpa!Active
    BY <1>3, <1>4 DEF Drdpa!Active
  <1>6. \A u \in Drdpa!Active : Drdpa!TicketOf(u)' = Drdpa!TicketOf(u)
    BY <1>1, <1>3 DEF Drdpa!TicketOf, Drdpa!Active
  <1>7. DrdpaTickets(b)'
    <2>1. ASSUME NEW u \in Threads
          PROVE  /\ Drdpa!Inside(u)' => Drdpa!TicketOf(u)' = b
                 /\ drdpa_pc'[u] \in Drdpa!Holding \ {"serve"} => ticket'[u] = now_serving'
                 /\ drdpa_pc'[u] \in Drdpa!Testing => ticket'[u] \in 0 .. MaxTicket - 1
                 /\ drdpa_pc'[u] = "test_cas" => ticket'[u] <= b
      <3>1. Drdpa!Inside(u)' => Drdpa!TicketOf(u)' = b
        BY <1>0, <1>3, <1>4, <1>6 DEF DrdpaTickets
      <3>2. CASE u = t
        BY <1>1, <3>1, <3>2 DEF Drdpa!Testing
      <3>3. CASE u # t
        BY <1>0, <1>1, <1>3, <3>1, <3>3 DEF DrdpaTickets
      <3> QED
        BY <3>2, <3>3
    <2>2. drdpa_owner' = None
      BY <1>1, <1>3
    <2>3. /\ b \in 0 .. next_ticket'
          /\ \A u \in Drdpa!Active' : Drdpa!TicketOf(u)' \in b .. next_ticket' - 1
          /\ \A u, w \in Drdpa!Active' : Drdpa!TicketOf(u)' = Drdpa!TicketOf(w)' => u = w
          /\ \A k \in b .. next_ticket' - 1 : \E u \in Drdpa!Active' : Drdpa!TicketOf(u)' = k
      BY <1>0, <1>1, <1>5, <1>6 DEF DrdpaTickets
    <2> QED
      BY <2>1, <2>2, <2>3 DEF DrdpaTickets
  <1>8. /\ DOMAIN areas' = DOMAIN areas /\ areas'[polls] = areas[polls]
        /\ \A p \in DOMAIN areas : areas'[p] = areas[p] \/ (free /\ p = old_polls /\ areas'[p] = << >>)
        /\ free => old_polls \in DOMAIN areas /\ areas'[old_polls] = << >>
    BY <1>0, <1>2 DEF DrdpaAreas, Drdpa!TypeOK
  <1>9. DrdpaCounters(b)'
    BY <1>0, <1>1, <1>3, <1>4, <1>8 DEF DrdpaCounters
  <1>10. DrdpaAreas'
    <2>1. \A u \in Threads : drdpa_pc[u] # "publish"
      BY <1>1, <1>3 DEF Drdpa!Holding
    <2>2. num_polls' = mask' + 1 /\ DOMAIN areas'[polls'] = 0 .. mask'
      BY <1>0, <1>1, <1>8, <2>1 DEF DrdpaAreas
    <2>3. old_polls' # polls'
      BY <1>0, <1>1, <1>2 DEF DrdpaAreas, Drdpa!TypeOK
    <2>4. \A p \in DOMAIN areas' : areas'[p] = << >> <=> p \notin {polls', old_polls'}
      <3> SUFFICES ASSUME NEW p \in DOMAIN areas
                   PROVE  areas'[p] = << >> <=> p \notin {polls', old_polls'}
        BY <1>8
      <3>0. areas[p] = << >> <=> p \notin {polls, old_polls}
        BY <1>0 DEF DrdpaAreas
      <3>1. CASE free
        <4>1. CASE p = old_polls
          BY <1>0, <1>1, <1>2, <1>8, <3>1, <4>1 DEF DrdpaAreas, Drdpa!TypeOK
        <4>2. CASE p # old_polls
          <5>1. p # None
            BY <1>0 DEF DrdpaAreas
          <5> QED
            BY <1>1, <1>2, <1>8, <3>0, <3>1, <4>2, <5>1
        <4> QED
          BY <4>1, <4>2
      <3>2. CASE ~free
        BY <1>1, <1>2, <3>0, <3>2
      <3> QED
        BY <3>1, <3>2
    <2> QED
      BY <1>0, <2>2, <2>3, <2>4 DEF DrdpaAreas
  <1>11. ASSUME NEW u \in Threads, drdpa_pc[u] \in {"polls", "poll", "serve"}, free
         PROVE  ~Spared(u)
    <2>1. ticket[u] \in b .. next_ticket - 1 /\ next_ticket \in Int /\ cleanup_ticket \in Int
      BY <1>0, <1>11, DrdpaPlaces DEF Drdpa!Waiting, Drdpa!Holding, Drdpa!TypeOK
    <2>2. \A w \in Threads : drdpa_pc[w] \notin {"publish", "cleanup"}
      BY <1>1, <1>3 DEF Drdpa!Holding
    <2> QED
      BY <1>3, <1>11, <2>1, <2>2 DEF Spared
  <1>12. ASSUME NEW u \in Threads, ~free PROVE Spared(u)' <=> Spared(u)
    <2>1. \A w \in Threads : drdpa_pc[w] \notin {"publish", "cleanup"}
      BY <1>1, <1>3 DEF Drdpa!Holding
    <2>2. \A w \in Threads : drdpa_pc'[w] \notin {"publish", "cleanup"}
      BY <1>1, <2>1
    <2> QED
      BY <1>1, <1>2, <1>12, <2>1, <2>2 DEF Spared
  <1>13. ASSUME NEW u \in Threads PROVE LocalsOf(u)'
    <2>0. LocalsOf(u)
      BY <1>0 DEF DrdpaLocals
    <2>1. CASE u = t
      <3>1. CASE drdpa_pc'[t] = "own"
        BY <2>1, <3>1 DEF LocalsOf
      <3>2. CASE drdpa_pc'[t] = "reconfigure"
        <4>1. ~Spared(t)
          BY <1>1, <1>11, <3>2 DEF Spared
        <4>2. my_mask[t] = mask /\ my_polls[t] = polls
          BY <1>0, <1>1, <4>1 DEF LocalsOf
        <4>3. old_polls' = None
          BY <1>1, <1>2, <3>2
        <4> QED
          BY <1>1, <2>1, <3>2, <4>2, <4>3 DEF LocalsOf
      <3> QED
        BY <1>1, <3>1, <3>2
    <2>2. CASE u # t
      <3>1. drdpa_pc'[u] = drdpa_pc[u] /\ drdpa_pc[u] \notin Drdpa!Holding
        BY <1>1, <1>3, <2>2
      <3>2. CASE free
        BY <1>1, <1>11, <2>0, <3>1, <3>2 DEF LocalsOf, Drdpa!Holding
      <3>3. CASE ~free
        <4>1. Spared(u)' <=> Spared(u)
          BY <1>12, <3>3
        <4> QED
          BY <1>1, <1>2, <2>0, <3>1, <3>3, <4>1 DEF LocalsOf, Drdpa!Holding
      <3> QED
        BY <3>2, <3>3
    <2> QED
      BY <2>1, <2>2
  <1>14. DrdpaLocals'
    BY <1>13 DEF DrdpaLocals
  <1> QED
    BY <1>0, <1>1, <1>3, <1>4, <1>5, <1>6, <1>7, <1>9, <1>10, <1>14 DEF DrdpaAt, DrdpaKept

\* The holder's steps until it is the owner, and what they leave alone.
LEMMA DrdpaHolds ==
    ASSUME NEW b \in Nat, DrdpaAt(b), NEW t \in Threads,
           drdpa_pc[t] \in Drdpa!Holding \ {"serve"}, drdpa_pc'[t] \in Drdpa!Holding \ {"serve"},
           UNCHANGED <<next_ticket, now_serving, drdpa_owner, ticket>>,
           \A u \in Threads \ {t} : drdpa_pc'[u] = drdpa_pc[u]
    PROVE  /\ DrdpaTickets(b)' /\ DrdpaKept /\ Drdpa!Inside(t) /\ Drdpa!Inside(t)'
           /\ \A u \in Threads \ {t} : drdpa_pc'[u] = drdpa_pc[u] /\ drdpa_pc[u] \notin Drdpa!Holding
           /\ ticket[t] = b
  <1>1. /\ drdpa_owner = None /\ Drdpa!Inside(t) /\ ticket[t] = b
        /\ \A u \in Threads \ {t} : drdpa_pc[u] \notin Drdpa!Holding
    BY DrdpaAlone
  <1>2. /\ drdpa_pc[t] \notin Drdpa!Waiting /\ drdpa_pc'[t] \notin Drdpa!Waiting
        /\ drdpa_pc'[t] \notin Drdpa!Testing /\ drdpa_pc'[t] # "test_cas"
    BY DEF Drdpa!Holding, Drdpa!Waiting, Drdpa!Testing
  <1>3. /\ DrdpaTickets(b)' /\ Drdpa!Active' = Drdpa!Active
        /\ \A u \in Threads : Drdpa!Inside(u)' <=> Drdpa!Inside(u)
        /\ \A u \in Drdpa!Active : Drdpa!TicketOf(u)' = Drdpa!TicketOf(u)
    <2>1. drdpa_owner # t
      BY <1>1, NoneAssumption
    <2> QED
      BY <1>2, <2>1, DrdpaTicketsStay
  <1> QED
    BY <1>1, <1>3 DEF DrdpaKept

\* What a thread that waits has read is the area that is replaced.
LEMMA DrdpaReplaced ==
    ASSUME NEW b \in Nat, DrdpaAt(b), Drdpa!Next, NEW t \in Threads,
           Drdpa!Contract(t) \/ Drdpa!Grow(t)
    PROVE  DrdpaAt(b)' /\ DrdpaKept /\ Drdpa!Inside(t) /\ Drdpa!Inside(t)'
  <1> USE NoneAssumption, ThreadsAssumption
      DEF Drdpa!Go, Drdpa!area, Drdpa!tickets, Drdpa!mine
  <1>0. /\ Drdpa!TypeOK /\ DrdpaTickets(b) /\ DrdpaLocals /\ DrdpaAreas /\ LocalsOf(t)
        /\ Drdpa!TypeOK' /\ areas' \in Seq(PollingAreas) /\ DrdpaCounters(b)
    BY DrdpaTypeNext DEF DrdpaAt, DrdpaLocals
  <1>1. PICK a, m : /\ Drdpa!Replace(t, a, m) /\ m \in Nat /\ a \in [0 .. m -> Int]
                    /\ \A i \in 0 .. m : a[i] <= b
    BY DrdpaReplacement
  <1>2. /\ drdpa_pc[t] = "reconfigure" /\ drdpa_pc'[t] = "publish"
        /\ my_polls'[t] = polls' /\ my_mask'[t] = m
        /\ areas' = Append(areas, a) /\ polls' = Len(areas') /\ old_polls' = my_polls[t]
        /\ UNCHANGED <<next_ticket, now_serving, cleanup_ticket, mask, num_polls, drdpa_owner, ticket, stray>>
        /\ \A u \in Threads \ {t} : /\ drdpa_pc'[u] = drdpa_pc[u] /\ my_polls'[u] = my_polls[u]
                                    /\ my_mask'[u] = my_mask[u]
    BY <1>0, <1>1 DEF Drdpa!Replace, Drdpa!TypeOK
  <1>3. my_polls[t] = polls /\ old_polls = None
    BY <1>0, <1>2 DEF LocalsOf
  <1>4. /\ DrdpaTickets(b)' /\ DrdpaKept /\ Drdpa!Inside(t) /\ Drdpa!Inside(t)'
        /\ \A u \in Threads \ {t} : drdpa_pc'[u] = drdpa_pc[u] /\ drdpa_pc[u] \notin Drdpa!Holding
    BY <1>2, DrdpaHolds DEF Drdpa!Holding
  <1>5. /\ a # << >> /\ DOMAIN a = 0 .. m
        /\ DOMAIN areas = 1 .. Len(areas) /\ Len(areas) \in Nat /\ polls \in 1 .. Len(areas)
    <2>1. 0 \in DOMAIN a
      BY <1>1
    <2> QED
      BY <1>1, <2>1, DrdpaUsed
  <1>6. /\ Len(areas') = Len(areas) + 1 /\ DOMAIN areas' = 1 .. Len(areas) + 1
        /\ areas'[Len(areas) + 1] = a /\ \A p \in 1 .. Len(areas) : areas'[p] = areas[p]
        /\ polls' = Len(areas) + 1
    BY <1>0, <1>2, <1>5 DEF DrdpaAreas
  <1>7. \A p \in DOMAIN areas' : p = polls' \/ (p \in DOMAIN areas /\ p # polls')
    BY <1>5, <1>6
  <1>8. DrdpaCounters(b)'
    <2> SUFFICES ASSUME NEW p \in DOMAIN areas', NEW i \in DOMAIN areas'[p]
                 PROVE  /\ areas'[p][i] <= b
                        /\ areas'[p][i] = b /\ p # polls' => \E u \in Threads : Drdpa!Inside(u)'
      BY DEF DrdpaCounters
    <2>1. CASE p = polls'
      BY <1>1, <1>4, <1>5, <1>6, <2>1
    <2>2. CASE p \in DOMAIN areas
      BY <1>0, <1>4, <1>5, <1>6, <2>2 DEF DrdpaCounters
    <2> QED
      BY <1>7, <2>1, <2>2
  <1>9. DrdpaAreas'
    <2>1. \A p \in DOMAIN areas' : areas'[p] = << >> <=> p \notin {polls', old_polls'}
      <3> SUFFICES ASSUME NEW p \in DOMAIN areas'
                   PROVE  areas'[p] = << >> <=> p \notin {polls', old_polls'}
        OBVIOUS
      <3>1. CASE p = polls'
        BY <1>5, <1>6, <3>1
      <3>2. CASE p \in DOMAIN areas /\ p # polls'
        <4>1. areas'[p] = areas[p] /\ p # None
          BY <1>0, <1>5, <1>6, <3>2, DrdpaUsed
        <4>2. areas[p] = << >> <=> p \notin {polls, old_polls}
          BY <1>0, <3>2 DEF DrdpaAreas
        <4> QED
          BY <1>2, <1>3, <3>2, <4>1, <4>2
      <3> QED
        BY <1>7, <3>1, <3>2
    <2>2. old_polls' # polls'
      BY <1>2, <1>3, <1>5, <1>6
    <2> QED
      BY <1>0, <1>2, <2>1, <2>2 DEF DrdpaAreas
  <1>10. ASSUME NEW u \in Threads PROVE LocalsOf(u)'
    <2>1. Spared(u)'
      BY <1>0, <1>2, <1>3 DEF Spared, Drdpa!TypeOK
    <2>2. CASE u = t
      <3>1. old_polls' # None
        BY <2>1 DEF Spared
      <3>2. DOMAIN areas'[polls'] = 0 .. my_mask'[t] /\ my_mask'[t] # None
        BY <1>1, <1>2, <1>5, <1>6
      <3> QED
        BY <1>2, <2>2, <3>1, <3>2 DEF LocalsOf
    <2>3. CASE u # t
      <3>1. LocalsOf(u) /\ drdpa_pc[u] \notin Drdpa!Holding
        BY <1>0, <1>4, <2>3 DEF DrdpaLocals
      <3>2. /\ drdpa_pc'[u] = drdpa_pc[u] /\ my_polls'[u] = my_polls[u] /\ my_mask'[u] = my_mask[u]
        BY <1>2, <2>3
      <3>3. drdpa_pc[u] = "poll" => my_polls[u] = old_polls'
        BY <1>2, <1>3, <3>1 DEF LocalsOf
      <3> QED
        BY <2>1, <3>1, <3>2, <3>3 DEF LocalsOf, Drdpa!Holding
    <2> QED
      BY <2>2, <2>3
  <1>11. DrdpaLocals'
    BY <1>10 DEF DrdpaLocals
  <1> QED
    BY <1>0, <1>4, <1>8, <1>9, <1>11 DEF DrdpaAt

\* The new area is known by its size and mask; the garbage is there for all who wait.
LEMMA DrdpaPublished ==
    ASSUME NEW b \in Nat, DrdpaAt(b), Drdpa!Next, NEW t \in Threads, Drdpa!Publish(t)
    PROVE  DrdpaAt(b)' /\ DrdpaKept /\ Drdpa!Inside(t) /\ Drdpa!Inside(t)'
  <1> USE NoneAssumption, ThreadsAssumption
      DEF Drdpa!Go, Drdpa!Forget, Drdpa!area, Drdpa!tickets, Drdpa!mine
  <1>0. /\ Drdpa!TypeOK /\ DrdpaTickets(b) /\ DrdpaLocals /\ DrdpaAreas /\ LocalsOf(t)
        /\ Drdpa!TypeOK' /\ areas' \in Seq(PollingAreas) /\ DrdpaCounters(b)
    BY DrdpaTypeNext DEF DrdpaAt, DrdpaLocals
  <1>1. /\ drdpa_pc[t] = "publish" /\ drdpa_pc'[t] = "cleanup" /\ mask' = my_mask[t]
        /\ num_polls' = Drdpa!Cardinality(DOMAIN areas[my_polls[t]])
        /\ UNCHANGED <<next_ticket, now_serving, cleanup_ticket, polls, old_polls, areas, drdpa_owner,
                       ticket, stray>>
        /\ \A u \in Threads \ {t} : /\ drdpa_pc'[u] = drdpa_pc[u] /\ my_polls'[u] = my_polls[u]
                                    /\ my_mask'[u] = my_mask[u]
    BY <1>0 DEF Drdpa!Publish, Drdpa!TypeOK
  <1>2. my_polls[t] = polls /\ my_mask[t] \in Nat /\ DOMAIN areas[polls] = 0 .. my_mask[t]
        /\ old_polls # None
    BY <1>0, <1>1 DEF LocalsOf, Drdpa!TypeOK
  <1>3. num_polls' = my_mask[t] + 1
    BY <1>1, <1>2, SizeOfInterval, DrdpaCardinality
  <1>4. /\ DrdpaTickets(b)' /\ DrdpaKept /\ Drdpa!Inside(t) /\ Drdpa!Inside(t)'
        /\ \A u \in Threads \ {t} : drdpa_pc'[u] = drdpa_pc[u] /\ drdpa_pc[u] \notin Drdpa!Holding
    BY <1>1, DrdpaHolds DEF Drdpa!Holding
  <1>5. DrdpaCounters(b)'
    BY <1>0, <1>1, <1>4 DEF DrdpaCounters
  <1>6. DrdpaAreas'
    BY <1>0, <1>1, <1>2, <1>3 DEF DrdpaAreas
  <1>7. ASSUME NEW u \in Threads PROVE LocalsOf(u)'
    <2>1. Spared(u)'
      BY <1>1, <1>2 DEF Spared
    <2>2. CASE u = t
      BY <1>1, <1>2, <2>2 DEF LocalsOf
    <2>3. CASE u # t
      <3>1. LocalsOf(u) /\ drdpa_pc[u] \notin Drdpa!Holding
        BY <1>0, <1>4, <2>3 DEF DrdpaLocals
      <3>2. /\ drdpa_pc'[u] = drdpa_pc[u] /\ my_polls'[u] = my_polls[u] /\ my_mask'[u] = my_mask[u]
        BY <1>1, <2>3
      <3> QED
        BY <1>1, <2>1, <3>1, <3>2 DEF LocalsOf, Drdpa!Holding
    <2> QED
      BY <2>2, <2>3
  <1>8. DrdpaLocals'
    BY <1>7 DEF DrdpaLocals
  <1> QED
    BY <1>0, <1>4, <1>5, <1>6, <1>8 DEF DrdpaAt

\* The tickets that are out are before the cleanup.
LEMMA DrdpaCleaned ==
    ASSUME NEW b \in Nat, DrdpaAt(b), Drdpa!Next, NEW t \in Threads, Drdpa!Cleanup(t)
    PROVE  DrdpaAt(b)' /\ DrdpaKept /\ Drdpa!Inside(t) /\ Drdpa!Inside(t)'
  <1> USE NoneAssumption, ThreadsAssumption
      DEF Drdpa!Go, Drdpa!area, Drdpa!tickets, Drdpa!mine
  <1>0. /\ Drdpa!TypeOK /\ DrdpaTickets(b) /\ DrdpaLocals /\ DrdpaAreas /\ LocalsOf(t)
        /\ Drdpa!TypeOK' /\ areas' \in Seq(PollingAreas) /\ DrdpaCounters(b)
    BY DrdpaTypeNext DEF DrdpaAt, DrdpaLocals
  <1>1. /\ drdpa_pc[t] = "cleanup" /\ drdpa_pc'[t] = "own" /\ cleanup_ticket' = next_ticket
        /\ UNCHANGED <<next_ticket, now_serving, polls, mask, num_polls, old_polls, areas, drdpa_owner,
                       ticket, my_polls, my_mask, stray>>
        /\ \A u \in Threads \ {t} : drdpa_pc'[u] = drdpa_pc[u]
    BY <1>0 DEF Drdpa!Cleanup, Drdpa!TypeOK
  <1>2. old_polls # None
    BY <1>0, <1>1 DEF LocalsOf
  <1>3. /\ DrdpaTickets(b)' /\ DrdpaKept /\ Drdpa!Inside(t) /\ Drdpa!Inside(t)'
        /\ \A u \in Threads \ {t} : drdpa_pc'[u] = drdpa_pc[u] /\ drdpa_pc[u] \notin Drdpa!Holding
    BY <1>1, DrdpaHolds DEF Drdpa!Holding
  <1>4. DrdpaCounters(b)'
    BY <1>0, <1>1, <1>3 DEF DrdpaCounters
  <1>5. DrdpaAreas'
    BY <1>0, <1>1, <1>3 DEF DrdpaAreas, Drdpa!Holding
  <1>6. ASSUME NEW u \in Threads PROVE LocalsOf(u)'
    <2>1. CASE u = t
      BY <1>1, <2>1 DEF LocalsOf
    <2>2. CASE u # t
      <3>1. LocalsOf(u) /\ drdpa_pc[u] \notin Drdpa!Holding /\ drdpa_pc'[u] = drdpa_pc[u]
        BY <1>0, <1>3, <2>2 DEF DrdpaLocals
      <3>2. drdpa_pc[u] \in {"polls", "poll"} => Spared(u)'
        <4> SUFFICES ASSUME drdpa_pc[u] \in {"polls", "poll"} PROVE Spared(u)'
          OBVIOUS
        <4>1. ticket[u] \in b .. next_ticket - 1 /\ next_ticket \in Int
          BY <1>0, DrdpaPlaces DEF Drdpa!Waiting, Drdpa!TypeOK
        <4> QED
          BY <1>1, <1>2, <4>1 DEF Spared
      <3> QED
        BY <1>1, <3>1, <3>2 DEF LocalsOf, Drdpa!Holding
    <2> QED
      BY <2>1, <2>2
  <1>7. DrdpaLocals'
    BY <1>6 DEF DrdpaLocals
  <1> QED
    BY <1>0, <1>3, <1>4, <1>5, <1>7 DEF DrdpaAt

\* The thread that has the lock says so.
LEMMA DrdpaOwned ==
    ASSUME NEW b \in Nat, DrdpaAt(b), Drdpa!Next, NEW t \in Threads, Drdpa!Own(t)
    PROVE  DrdpaAt(b)' /\ DrdpaKept /\ Drdpa!Inside(t) /\ Drdpa!Inside(t)'
  <1> USE NoneAssumption, ThreadsAssumption
      DEF Drdpa!Go, Drdpa!Forget, Drdpa!Return, Drdpa!area, Drdpa!tickets
  <1>0. /\ Drdpa!TypeOK /\ DrdpaTickets(b) /\ DrdpaLocals /\ DrdpaAreas /\ LocalsOf(t)
        /\ Drdpa!TypeOK' /\ areas' \in Seq(PollingAreas) /\ DrdpaCounters(b)
    BY DrdpaTypeNext DEF DrdpaAt, DrdpaLocals
  <1>1. /\ drdpa_pc[t] = "own" /\ drdpa_pc'[t] = "program" /\ drdpa_owner' = t /\ my_polls'[t] = None
        /\ UNCHANGED <<next_ticket, now_serving, cleanup_ticket, polls, mask, num_polls, old_polls,
                       areas, stray>>
        /\ \A u \in Threads \ {t} : /\ drdpa_pc'[u] = drdpa_pc[u] /\ ticket'[u] = ticket[u]
                                    /\ my_polls'[u] = my_polls[u] /\ my_mask'[u] = my_mask[u]
    BY <1>0 DEF Drdpa!Own, Drdpa!TypeOK
  <1>2. /\ drdpa_owner = None /\ Drdpa!Inside(t) /\ t \in Drdpa!Active /\ ticket[t] = b
        /\ \A u \in Threads \ {t} : ~Drdpa!Inside(u) /\ drdpa_pc[u] \notin Drdpa!Holding
    BY <1>1, DrdpaAlone DEF Drdpa!Holding
  <1>3. now_serving = b
    BY <1>0, <1>1, <1>2 DEF DrdpaTickets, Drdpa!Holding
  <1>4. Drdpa!Inside(t)' /\ \A u \in Threads \ {t} : ~Drdpa!Inside(u)'
    BY <1>1, <1>2 DEF Drdpa!Inside
  <1>5. Drdpa!Active' = Drdpa!Active
    BY <1>1, <1>2, <1>4 DEF Drdpa!Active
  <1>6. \A u \in Drdpa!Active : Drdpa!TicketOf(u)' = Drdpa!TicketOf(u)
    BY <1>1, <1>2, <1>3 DEF Drdpa!TicketOf, Drdpa!Active
  <1>7. DrdpaTickets(b)'
    <2>1. ASSUME NEW u \in Threads
          PROVE  /\ Drdpa!Inside(u)' => Drdpa!TicketOf(u)' = b
                 /\ drdpa_pc'[u] \in Drdpa!Holding \ {"serve"} => ticket'[u] = now_serving'
                 /\ drdpa_pc'[u] \in Drdpa!Testing => ticket'[u] \in 0 .. MaxTicket - 1
                 /\ drdpa_pc'[u] = "test_cas" => ticket'[u] <= b
      <3>1. Drdpa!Inside(u)' => Drdpa!TicketOf(u)' = b
        BY <1>0, <1>2, <1>4, <1>6 DEF DrdpaTickets
      <3>2. CASE u = t
        BY <1>1, <3>1, <3>2 DEF Drdpa!Testing, Drdpa!Holding
      <3>3. CASE u # t
        BY <1>0, <1>1, <1>2, <3>1, <3>3 DEF DrdpaTickets
      <3> QED
        BY <3>2, <3>3
    <2>2. /\ b \in 0 .. next_ticket'
          /\ \A u \in Drdpa!Active' : Drdpa!TicketOf(u)' \in b .. next_ticket' - 1
          /\ \A u, w \in Drdpa!Active' : Drdpa!TicketOf(u)' = Drdpa!TicketOf(w)' => u = w
          /\ \A k \in b .. next_ticket' - 1 : \E u \in Drdpa!Active' : Drdpa!TicketOf(u)' = k
      BY <1>0, <1>1, <1>5, <1>6 DEF DrdpaTickets
    <2> QED
      BY <1>1, <2>1, <2>2 DEF DrdpaTickets
  <1>8. DrdpaCounters(b)' /\ DrdpaAreas' /\ \A u \in Threads \ {t} : LocalsOf(u)'
    BY <1>0, <1>1, <1>4, DrdpaWordsStay
  <1>9. LocalsOf(t)'
    BY <1>1 DEF LocalsOf
  <1>10. DrdpaLocals'
    BY <1>8, <1>9 DEF DrdpaLocals
  <1> QED
    BY <1>0, <1>1, <1>2, <1>4, <1>5, <1>6, <1>7, <1>8, <1>10 DEF DrdpaAt, DrdpaKept

\* A test takes a ticket when no other is out.
LEMMA DrdpaTested ==
    ASSUME NEW b \in Nat, DrdpaAt(b), Drdpa!Next, NEW t \in Threads, Drdpa!TestTake(t),
           drdpa_pc'[t] = "own"
    PROVE  /\ DrdpaAt(b)' /\ Drdpa!Active = {} /\ Drdpa!Active' = {t} /\ b = next_ticket
           /\ next_ticket' = next_ticket + 1 /\ Drdpa!TicketOf(t)' = next_ticket /\ Drdpa!Inside(t)'
  <1> USE NoneAssumption, ThreadsAssumption
      DEF Drdpa!Go, Drdpa!Forget, Drdpa!Return, Drdpa!area, Drdpa!tickets, Drdpa!mine
  <1>0. /\ Drdpa!TypeOK /\ DrdpaTickets(b) /\ DrdpaLocals /\ DrdpaAreas /\ LocalsOf(t)
        /\ Drdpa!TypeOK' /\ areas' \in Seq(PollingAreas) /\ DrdpaCounters(b)
    BY DrdpaTypeNext DEF DrdpaAt, DrdpaLocals
  <1>1. /\ drdpa_pc[t] = "test_cas" /\ next_ticket = ticket[t] /\ next_ticket' = next_ticket + 1
        /\ now_serving' = ticket[t]
        /\ UNCHANGED <<cleanup_ticket, polls, mask, num_polls, old_polls, areas, drdpa_owner, ticket,
                       my_polls, my_mask, stray>>
        /\ \A u \in Threads \ {t} : drdpa_pc'[u] = drdpa_pc[u]
    BY <1>0 DEF Drdpa!TestTake, Drdpa!TypeOK
  <1>2. b = next_ticket /\ next_ticket \in Nat
    BY <1>0, <1>1, BoundsAssumption DEF DrdpaTickets, Drdpa!TypeOK
  <1>3. Drdpa!Active = {}
    <2> SUFFICES ASSUME NEW u \in Drdpa!Active PROVE FALSE
      OBVIOUS
    <2>1. Drdpa!TicketOf(u) \in b .. next_ticket - 1
      BY <1>0 DEF DrdpaTickets
    <2> QED
      BY <1>2, <2>1
  <1>4. drdpa_owner = None /\ \A u \in Threads : ~Drdpa!Inside(u) /\ drdpa_pc[u] \notin Drdpa!Holding
    BY <1>0, <1>3 DEF Drdpa!Active, Drdpa!Inside, Drdpa!TypeOK
  <1>5. Drdpa!Inside(t)' /\ \A u \in Threads \ {t} : ~Drdpa!Inside(u)'
    BY <1>1, <1>4 DEF Drdpa!Inside, Drdpa!Holding
  <1>6. Drdpa!Active' = {t}
    <2>1. \A u \in Threads : drdpa_pc[u] \notin Drdpa!Waiting
      BY <1>3 DEF Drdpa!Active
    <2> QED
      BY <1>1, <1>5, <2>1 DEF Drdpa!Active
  <1>7. Drdpa!TicketOf(t)' = b
    BY <1>1, <1>2, <1>4 DEF Drdpa!TicketOf
  <1>8. DrdpaTickets(b)'
    <2>1. ASSUME NEW u \in Threads
          PROVE  /\ Drdpa!Inside(u)' => Drdpa!TicketOf(u)' = b
                 /\ drdpa_pc'[u] \in Drdpa!Holding \ {"serve"} => ticket'[u] = now_serving'
                 /\ drdpa_pc'[u] \in Drdpa!Testing => ticket'[u] \in 0 .. MaxTicket - 1
                 /\ drdpa_pc'[u] = "test_cas" => ticket'[u] <= b
      <3>1. CASE u = t
        BY <1>1, <1>7, <3>1 DEF Drdpa!Testing
      <3>2. CASE u # t
        BY <1>0, <1>1, <1>4, <1>5, <3>2 DEF DrdpaTickets
      <3> QED
        BY <3>1, <3>2
    <2>2. \A u \in Drdpa!Active' : Drdpa!TicketOf(u)' \in b .. next_ticket' - 1
      BY <1>1, <1>2, <1>6, <1>7
    <2>3. \A k \in b .. next_ticket' - 1 : \E u \in Drdpa!Active' : Drdpa!TicketOf(u)' = k
      <3>1. \A k \in b .. next_ticket' - 1 : k = b
        BY <1>1, <1>2
      <3> QED
        BY <1>6, <1>7, <3>1
    <2>4. \A u, w \in Drdpa!Active' : Drdpa!TicketOf(u)' = Drdpa!TicketOf(w)' => u = w
      BY <1>6
    <2>5. b \in 0 .. next_ticket' /\ drdpa_owner' = None
      BY <1>1, <1>2, <1>4
    <2> QED
      BY <2>1, <2>2, <2>3, <2>4, <2>5 DEF DrdpaTickets
  <1>9. DrdpaCounters(b)' /\ DrdpaAreas' /\ \A u \in Threads \ {t} : LocalsOf(u)'
    BY <1>0, <1>1, <1>5, DrdpaWordsStay
  <1>10. LocalsOf(t)'
    BY DEF LocalsOf
  <1>11. DrdpaLocals'
    BY <1>9, <1>10 DEF DrdpaLocals
  <1> QED
    BY <1>0, <1>1, <1>2, <1>3, <1>5, <1>6, <1>7, <1>8, <1>9, <1>11 DEF DrdpaAt

\* The release serves the next ticket; its thread finds it in the area in use only.
LEMMA DrdpaReleased ==
    ASSUME NEW b \in Nat, DrdpaAt(b), Drdpa!Next, NEW t \in Threads, Drdpa!Unset(t)
    PROVE  /\ DrdpaAt(b + 1)' /\ t \in Drdpa!Active /\ Drdpa!Active' = Drdpa!Active \ {t}
           /\ Drdpa!TicketOf(t) = b /\ next_ticket' = next_ticket /\ Drdpa!Inside(t)
           /\ \A u \in Drdpa!Active \ {t} : Drdpa!TicketOf(u)' = Drdpa!TicketOf(u)
           /\ \A u \in Threads : ~Drdpa!Inside(u)'
  <1> USE NoneAssumption, ThreadsAssumption
      DEF Drdpa!Go, Drdpa!tickets, Drdpa!mine
  <1>0. /\ Drdpa!TypeOK /\ DrdpaTickets(b) /\ DrdpaLocals /\ DrdpaAreas
        /\ Drdpa!TypeOK' /\ areas' \in Seq(PollingAreas) /\ DrdpaCounters(b)
    BY DrdpaTypeNext DEF DrdpaAt
  <1>1. /\ drdpa_owner = t /\ drdpa_owner' = None
        /\ UNCHANGED <<next_ticket, now_serving, cleanup_ticket, polls, mask, num_polls, old_polls,
                       drdpa_pc, ticket, my_polls, my_mask>>
    BY <1>0 DEF Drdpa!Unset, Drdpa!TypeOK
  <1>2. /\ stray' = stray /\ DOMAIN areas' = DOMAIN areas
        /\ \A p \in DOMAIN areas : DOMAIN areas'[p] = DOMAIN areas[p]
        /\ \A p \in DOMAIN areas : areas'[p] = << >> <=> areas[p] = << >>
        /\ \A p \in DOMAIN areas : \A i \in DOMAIN areas[p] :
               areas'[p][i] = areas[p][i] \/ (p = polls /\ areas'[p][i] = b + 1)
    BY DrdpaWritten
  <1>3. /\ drdpa_pc[t] = "program" /\ now_serving = b /\ b < next_ticket /\ next_ticket \in Nat
        /\ \A u \in Threads : Drdpa!Inside(u) => u = t
        /\ \A u \in Threads : drdpa_pc[u] \notin Drdpa!Holding
    BY <1>0, <1>1, DrdpaPlaces, BoundsAssumption DEF Drdpa!TypeOK
  <1>4. Drdpa!Inside(t) /\ \A u \in Threads : ~Drdpa!Inside(u)'
    BY <1>1, <1>3 DEF Drdpa!Inside
  <1>5. t \in Drdpa!Active /\ Drdpa!Active' = Drdpa!Active \ {t}
    BY <1>1, <1>3, <1>4 DEF Drdpa!Active, Drdpa!Waiting
  <1>6. /\ Drdpa!TicketOf(t) = b
        /\ \A u \in Drdpa!Active \ {t} : Drdpa!TicketOf(u)' = Drdpa!TicketOf(u)
    BY <1>1, <1>3 DEF Drdpa!TicketOf, Drdpa!Active
  <1>7. DrdpaTickets(b + 1)'
    <2>1. \A u \in Drdpa!Active \ {t} : Drdpa!TicketOf(u) \in b .. next_ticket - 1 /\ Drdpa!TicketOf(u) # b
      BY <1>0, <1>5, <1>6 DEF DrdpaTickets
    <2>2. \A u \in Drdpa!Active' : Drdpa!TicketOf(u)' \in b + 1 .. next_ticket' - 1
      BY <1>1, <1>3, <1>5, <1>6, <2>1
    <2>3. \A k \in b + 1 .. next_ticket' - 1 : \E u \in Drdpa!Active' : Drdpa!TicketOf(u)' = k
      <3> SUFFICES ASSUME NEW k \in b + 1 .. next_ticket' - 1
                   PROVE  \E u \in Drdpa!Active' : Drdpa!TicketOf(u)' = k
        OBVIOUS
      <3>1. k \in b .. next_ticket - 1 /\ k # b
        BY <1>1, <1>3
      <3>2. PICK u \in Drdpa!Active : Drdpa!TicketOf(u) = k
        BY <1>0, <3>1 DEF DrdpaTickets
      <3> QED
        BY <1>5, <1>6, <3>1, <3>2
    <2>4. \A u, w \in Drdpa!Active' : Drdpa!TicketOf(u)' = Drdpa!TicketOf(w)' => u = w
      BY <1>0, <1>5, <1>6 DEF DrdpaTickets
    <2>5. b + 1 \in 0 .. next_ticket'
      BY <1>1, <1>3
    <2>6. ASSUME NEW u \in Threads
          PROVE  /\ drdpa_pc[u] \in Drdpa!Testing => ticket[u] \in 0 .. MaxTicket - 1
                 /\ drdpa_pc[u] = "test_cas" => ticket[u] <= b + 1
      <3>1. drdpa_pc[u] \in Drdpa!Testing => ticket[u] \in 0 .. MaxTicket - 1
        BY <1>0 DEF DrdpaTickets
      <3>2. drdpa_pc[u] = "test_cas" => ticket[u] <= b /\ ticket[u] \in 0 .. MaxTicket - 1
        BY <1>0 DEF DrdpaTickets, Drdpa!Testing
      <3> QED
        BY <3>1, <3>2, BoundsAssumption
    <2> QED
      BY <1>1, <1>3, <1>4, <2>2, <2>3, <2>4, <2>5, <2>6 DEF DrdpaTickets
  <1>8. DrdpaCounters(b + 1)'
    <2> SUFFICES ASSUME NEW p \in DOMAIN areas', NEW i \in DOMAIN areas'[p]
                 PROVE  areas'[p][i] <= b + 1 /\ (areas'[p][i] = b + 1 => p = polls')
      BY DEF DrdpaCounters
    <2>1. areas'[p][i] = areas[p][i] \/ (p = polls /\ areas'[p][i] = b + 1)
      BY <1>2
    <2>2. areas[p][i] \in Int /\ areas[p][i] <= b
      BY <1>2, DrdpaUsed
    <2> QED
      BY <1>1, <2>1, <2>2
  <1>9. DrdpaAreas'
    <2>1. polls \in DOMAIN areas
      BY DrdpaUsed
    <2>2. \A p \in DOMAIN areas' : areas'[p] = << >> <=> p \notin {polls', old_polls'}
      BY <1>0, <1>1, <1>2 DEF DrdpaAreas
    <2>3. DOMAIN areas'[polls'] = DOMAIN areas[polls]
      BY <1>1, <1>2, <2>1
    <2> QED
      BY <1>0, <1>1, <2>2, <2>3 DEF DrdpaAreas
  <1>10. ASSUME NEW u \in Threads PROVE LocalsOf(u)'
    <2>1. LocalsOf(u) /\ drdpa_pc[u] \notin Drdpa!Holding
      BY <1>0, <1>3 DEF DrdpaLocals
    <2>2. Spared(u)' <=> Spared(u)
      BY <1>1 DEF Spared
    <2> QED
      BY <1>1, <2>1, <2>2 DEF LocalsOf, Drdpa!Holding
  <1>11. DrdpaLocals'
    BY <1>10 DEF DrdpaLocals
  <1> QED
    BY <1>0, <1>1, <1>4, <1>5, <1>6, <1>7, <1>8, <1>9, <1>11 DEF DrdpaAt

\* A lock that nobody has used.
DrdpaUnused ==
    /\ Drdpa!Fresh(next_ticket, now_serving, cleanup_ticket, polls, mask, num_polls, old_polls,
                   drdpa_owner, areas)
    /\ Drdpa!TypeOK /\ areas \in Seq(PollingAreas)
    /\ \A t \in Threads : drdpa_pc[t] = "program" /\ my_polls[t] = None

DrdpaEmpty == DrdpaAt(0) /\ Drdpa!Active = {}

\* It has no line.
LEMMA DrdpaNew == DrdpaUnused => DrdpaEmpty
  <1> SUFFICES ASSUME DrdpaUnused PROVE DrdpaEmpty
    OBVIOUS
  <1> USE NoneAssumption, ThreadsAssumption
  <1>0. /\ Drdpa!TypeOK /\ areas \in Seq(PollingAreas)
        /\ \A t \in Threads : drdpa_pc[t] = "program" /\ my_polls[t] = None
    BY DEF DrdpaUnused
  <1>1. /\ areas = <<[i \in {0} |-> 0]>> /\ next_ticket = 0 /\ polls = 1 /\ mask = 0 /\ num_polls = 1
        /\ old_polls = None /\ drdpa_owner = None
    BY DEF DrdpaUnused, Drdpa!Fresh
  <1>2. DOMAIN areas = {1} /\ areas[1] = [i \in {0} |-> 0]
    BY <1>1
  <1>3. DOMAIN areas[1] = {0} /\ areas[1][0] = 0 /\ areas[1] # << >> /\ 0 .. 0 = {0}
    BY <1>2, FreshArea
  <1>4. Drdpa!Active = {} /\ \A t \in Threads : ~Drdpa!Inside(t)
    BY <1>0, <1>1 DEF Drdpa!Active, Drdpa!Inside, Drdpa!Holding, Drdpa!Waiting
  <1>5. DrdpaTickets(0)
    BY <1>0, <1>1, <1>4 DEF DrdpaTickets, Drdpa!Holding, Drdpa!Testing
  <1>6. DrdpaCounters(0)
    BY <1>1, <1>2, <1>3 DEF DrdpaCounters
  <1>7. DrdpaLocals
    BY <1>0 DEF DrdpaLocals, LocalsOf
  <1>8. DrdpaAreas
    BY <1>0, <1>1, <1>2, <1>3 DEF DrdpaAreas
  <1> QED
    BY <1>0, <1>4, <1>5, <1>6, <1>7, <1>8 DEF DrdpaAt, DrdpaEmpty

\* The same after a step.
LEMMA DrdpaNewNext == DrdpaUnused' => DrdpaEmpty'
  BY DrdpaNew, PTL

\* An unused lock has no line.
LEMMA DrdpaInit == Drdpa!Init => DrdpaLine
  <1> SUFFICES ASSUME Drdpa!Init PROVE DrdpaLine
    OBVIOUS
  <1> USE NoneAssumption, ThreadsAssumption
  <1> DEFINE a == [i \in {0} |-> 0]
  <1>1. areas = <<a>> /\ a \in PollingAreas
    BY FreshArea DEF Drdpa!Init, Drdpa!Fresh
  <1> HIDE DEF a
  <1>2. areas \in Seq(PollingAreas) /\ DOMAIN areas = {1}
    BY <1>1
  <1>3. Drdpa!TypeOK
    BY <1>2, BoundsAssumption DEF Drdpa!Init, Drdpa!Fresh, Drdpa!TypeOK
  <1>4. DrdpaUnused
    BY <1>2, <1>3 DEF Drdpa!Init, DrdpaUnused
  <1>5. DrdpaAt(0)
    BY <1>4, DrdpaNew DEF DrdpaEmpty
  <1> QED
    BY <1>5 DEF DrdpaLine

\* What the steps of a lock do to the line: nothing; its first thread gets the lock;
\* thread t is added to it, or gets the lock as nobody is there; its first thread t
\* leaves it; the lock, which nobody uses, is made anew.
DrdpaStays(b) ==
    DrdpaAt(b)' /\ DrdpaKept /\ ((\E u \in Threads : Drdpa!Inside(u)') <=> \E u \in Threads : Drdpa!Inside(u))

DrdpaEnters(b) == DrdpaAt(b)' /\ DrdpaKept /\ \E t \in Drdpa!Active : Drdpa!Inside(t)'

DrdpaGrows(b, t) ==
    /\ DrdpaAt(b)' /\ next_ticket' = next_ticket + 1
    /\ t \notin Drdpa!Active /\ Drdpa!Active' = Drdpa!Active \cup {t}
    /\ Drdpa!TicketOf(t)' = next_ticket
    /\ \A u \in Drdpa!Active : Drdpa!TicketOf(u)' = Drdpa!TicketOf(u)

DrdpaJoins(b, t) == DrdpaGrows(b, t) /\ \A u \in Threads : Drdpa!Inside(u)' <=> Drdpa!Inside(u)

DrdpaGets(b, t) == DrdpaGrows(b, t) /\ b = next_ticket /\ Drdpa!Inside(t)'

DrdpaLeaves(b, t) ==
    /\ DrdpaAt(b + 1)' /\ next_ticket' = next_ticket
    /\ t \in Drdpa!Active /\ Drdpa!Active' = Drdpa!Active \ {t}
    /\ Drdpa!TicketOf(t) = b /\ Drdpa!Inside(t) /\ \A u \in Threads : ~Drdpa!Inside(u)'
    /\ \A u \in Drdpa!Active \ {t} : Drdpa!TicketOf(u)' = Drdpa!TicketOf(u)

\* The threads' locals hold nothing then.
LEMMA DrdpaRecreated ==
    ASSUME NEW b \in Nat, DrdpaAt(b), Drdpa!Next, Drdpa!Recreate
    PROVE  DrdpaAt(0)' /\ Drdpa!Active = {} /\ Drdpa!Active' = {}
  <1> USE NoneAssumption, ThreadsAssumption DEF Drdpa!mine
  <1>0. DrdpaLocals /\ Drdpa!TypeOK' /\ areas' \in Seq(PollingAreas)
    BY DrdpaTypeNext DEF DrdpaAt
  <1>1. \A t \in Threads : drdpa_pc[t] = "program" /\ my_polls[t] = None
    BY <1>0 DEF Drdpa!Recreate, DrdpaLocals, LocalsOf
  <1>2. UNCHANGED <<drdpa_pc, my_polls>>
    BY DEF Drdpa!Recreate
  <1>3. DrdpaUnused'
    BY <1>0, <1>1, <1>2 DEF DrdpaUnused, Drdpa!Recreate, Drdpa!Fresh
  <1>4. DrdpaEmpty'
    BY <1>3, DrdpaNewNext
  <1>5. Drdpa!Active = {}
    BY <1>1 DEF Drdpa!Recreate, Drdpa!Active, Drdpa!Inside, Drdpa!Holding, Drdpa!Waiting
  <1> QED
    BY <1>4, <1>5 DEF DrdpaEmpty

\* After an access outside a polling area nothing changes.
LEMMA DrdpaStutter ==
    ASSUME NEW b \in Nat, DrdpaAt(b), UNCHANGED Drdpa!vars
    PROVE  /\ DrdpaAt(b)' /\ DrdpaKept
           /\ \A u \in Threads : Drdpa!Inside(u)' <=> Drdpa!Inside(u)
  <1> USE DEF Drdpa!vars
  <1>1. \A u \in Threads : /\ Drdpa!Inside(u)' <=> Drdpa!Inside(u)
                           /\ Drdpa!TicketOf(u)' = Drdpa!TicketOf(u)
                           /\ Spared(u)' <=> Spared(u)
    BY DEF Drdpa!Inside, Drdpa!TicketOf, Spared
  <1>2. Drdpa!Active' = Drdpa!Active
    BY <1>1 DEF Drdpa!Active
  <1>3. Drdpa!TypeOK'
    BY DEF DrdpaAt, Drdpa!TypeOK
  <1>4. \A u \in Drdpa!Active : u \in Threads
    BY DEF Drdpa!Active
  <1>5. DrdpaTickets(b)'
    BY <1>1, <1>2, <1>4 DEF DrdpaAt, DrdpaTickets
  <1>6. DrdpaCounters(b)'
    BY <1>1 DEF DrdpaAt, DrdpaCounters
  <1>7. DrdpaLocals'
    BY <1>1 DEF DrdpaAt, DrdpaLocals, LocalsOf
  <1>8. DrdpaAreas'
    BY DEF DrdpaAt, DrdpaAreas
  <1>9. DrdpaKept
    BY <1>1, <1>2, <1>4 DEF DrdpaKept
  <1> QED
    BY <1>1, <1>3, <1>5, <1>6, <1>7, <1>8, <1>9 DEF DrdpaAt

\* Every step is one of these.
LEMMA DrdpaCases ==
    ASSUME NEW b \in Nat, DrdpaAt(b), Drdpa!Next
    PROVE  \/ DrdpaStays(b) \/ DrdpaEnters(b)
           \/ \E t \in Threads : DrdpaJoins(b, t) \/ DrdpaGets(b, t) \/ DrdpaLeaves(b, t)
           \/ DrdpaAt(0)' /\ Drdpa!Active = {} /\ Drdpa!Active' = {}
  <1>1. ASSUME NEW t \in Threads,
               \/ Drdpa!Test(t) \/ Drdpa!ReadMask(t) \/ Drdpa!ReadPolls(t) \/ Drdpa!TestPoll(t)
               \/ (Drdpa!Poll(t) /\ drdpa_pc'[t] # "serve")
               \/ (Drdpa!TestTake(t) /\ drdpa_pc'[t] # "own")
               \/ (Drdpa!Reconfigure(t) /\ drdpa_pc'[t] = "own")
        PROVE  DrdpaStays(b)
    <2>1. /\ DrdpaAt(b)' /\ UNCHANGED <<next_ticket, now_serving>> /\ Drdpa!Active' = Drdpa!Active
          /\ \A u \in Threads : Drdpa!Inside(u)' <=> Drdpa!Inside(u)
          /\ \A u \in Drdpa!Active : Drdpa!TicketOf(u)' = Drdpa!TicketOf(u)
      BY <1>1, DrdpaQuiet
    <2> QED
      BY <2>1 DEF DrdpaStays, DrdpaKept
  <1>2. ASSUME NEW t \in Threads, Drdpa!TakeTicket(t) PROVE DrdpaJoins(b, t)
    BY <1>2, DrdpaTake DEF DrdpaJoins, DrdpaGrows
  <1>3. ASSUME NEW t \in Threads, Drdpa!Poll(t), drdpa_pc'[t] = "serve" PROVE DrdpaEnters(b)
    BY <1>3, DrdpaTurn DEF DrdpaEnters
  <1>4. ASSUME NEW t \in Threads, DrdpaAt(b)' /\ DrdpaKept /\ Drdpa!Inside(t) /\ Drdpa!Inside(t)'
        PROVE  DrdpaStays(b)
    BY <1>4 DEF DrdpaStays
  <1>5. ASSUME NEW t \in Threads, Drdpa!Reconfigure(t), drdpa_pc'[t] # "own" PROVE DrdpaStays(b)
    <2>1. Drdpa!Contract(t) \/ Drdpa!Grow(t)
      BY <1>5 DEF Drdpa!Reconfigure, Drdpa!Go, DrdpaAt, Drdpa!TypeOK
    <2> QED
      BY <1>4, <2>1, DrdpaReplaced
  <1>6. ASSUME NEW t \in Threads,
               Drdpa!Serve(t) \/ Drdpa!Publish(t) \/ Drdpa!Cleanup(t) \/ Drdpa!Own(t)
        PROVE  DrdpaStays(b)
    BY <1>4, <1>6, DrdpaServed, DrdpaPublished, DrdpaCleaned, DrdpaOwned
  <1>7. ASSUME NEW t \in Threads, Drdpa!TestTake(t), drdpa_pc'[t] = "own" PROVE DrdpaGets(b, t)
    <2>1. /\ DrdpaAt(b)' /\ Drdpa!Active = {} /\ Drdpa!Active' = {t} /\ b = next_ticket
          /\ next_ticket' = next_ticket + 1 /\ Drdpa!TicketOf(t)' = next_ticket /\ Drdpa!Inside(t)'
      BY <1>7, DrdpaTested
    <2> QED
      BY <2>1 DEF DrdpaGets, DrdpaGrows
  <1>8. ASSUME NEW t \in Threads, Drdpa!Unset(t) PROVE DrdpaLeaves(b, t)
    BY <1>8, DrdpaReleased DEF DrdpaLeaves
  <1>9. CASE Drdpa!Recreate
    BY <1>9, DrdpaRecreated
  <1>10. CASE Drdpa!Undefined
    BY <1>10, DrdpaStutter DEF Drdpa!Undefined, DrdpaStays
  <1> QED
    BY <1>1, <1>2, <1>3, <1>5, <1>6, <1>7, <1>8, <1>9, <1>10 DEF Drdpa!Next, Drdpa!Step

\* Every step keeps the line.
LEMMA DrdpaNext == ASSUME DrdpaLine, Drdpa!Next PROVE DrdpaLine'
  <1>1. PICK b \in Nat : DrdpaAt(b)
    BY DEF DrdpaLine
  <1>2. DrdpaAt(b)' \/ DrdpaAt(b + 1)' \/ DrdpaAt(0)'
    BY <1>1, DrdpaCases
    DEF DrdpaStays, DrdpaEnters, DrdpaJoins, DrdpaGets, DrdpaGrows, DrdpaLeaves
  <1>3. b + 1 \in Nat /\ 0 \in Nat
    OBVIOUS
  <1> QED
    BY <1>2, <1>3 DEF DrdpaLine

\* Every element that the mask of a thread may choose is in area p.
Reaches(t, p) == 0 .. my_mask[t] \subseteq DOMAIN areas[p]

\* The mask of a thread that waits is that of the area in use, of a smaller one, or of the
\* larger one that the area in use has replaced.  The area that it polls is as large as
\* the mask says unless it is the area in use, and was contracted.
MaskFits(t) ==
    /\ drdpa_pc[t] \in {"polls", "poll"} =>
           Reaches(t, polls) \/ (Drdpa!Contracted /\ Reaches(t, old_polls))
    /\ drdpa_pc[t] = "poll" =>
           Reaches(t, my_polls[t]) \/ (Drdpa!Contracted /\ my_polls[t] = polls)

\* While a new area has been published and not yet its mask, the mask is that of the garbage.
OldMaskFits ==
    \A t \in Threads : drdpa_pc[t] = "publish" =>
        /\ DOMAIN areas[old_polls] = 0 .. mask
        /\ Drdpa!Contracted \/ 0 .. mask \subseteq DOMAIN areas[polls]

DrdpaFits == OldMaskFits /\ \A t \in Threads : MaskFits(t)

\* A step that leaves alone what DrdpaFits is about, but for the thread t.
LEMMA DrdpaFitsStay ==
    ASSUME NEW b \in Nat, DrdpaAt(b), DrdpaFits, NEW t \in Threads, MaskFits(t)',
           UNCHANGED <<polls, old_polls>>, DOMAIN areas' = DOMAIN areas,
           \A p \in DOMAIN areas : DOMAIN areas'[p] = DOMAIN areas[p],
           \A u \in Threads : drdpa_pc'[u] = "publish" => drdpa_pc[u] = "publish" /\ mask' = mask,
           \A u \in Threads \ {t} : /\ drdpa_pc'[u] = drdpa_pc[u]
                                    /\ my_polls'[u] = my_polls[u] /\ my_mask'[u] = my_mask[u]
    PROVE  DrdpaFits'
  <1> USE NoneAssumption
  <1>1. polls \in DOMAIN areas /\ (old_polls # None => old_polls \in DOMAIN areas) /\ DrdpaLocals
    BY DEF DrdpaAt, Drdpa!TypeOK
  <1>2. Drdpa!Contracted' <=> Drdpa!Contracted
    BY <1>1 DEF Drdpa!Contracted
  <1>3. OldMaskFits'
    <2> SUFFICES ASSUME NEW u \in Threads, drdpa_pc'[u] = "publish"
                 PROVE  /\ DOMAIN areas'[old_polls'] = 0 .. mask'
                        /\ Drdpa!Contracted' \/ 0 .. mask' \subseteq DOMAIN areas'[polls']
      BY DEF OldMaskFits
    <2>1. drdpa_pc[u] = "publish" /\ mask' = mask
      OBVIOUS
    <2>2. old_polls # None
      BY <1>1, <2>1 DEF DrdpaLocals, LocalsOf
    <2>3. /\ DOMAIN areas[old_polls] = 0 .. mask
          /\ Drdpa!Contracted \/ 0 .. mask \subseteq DOMAIN areas[polls]
      BY <2>1 DEF DrdpaFits, OldMaskFits
    <2> QED
      BY <1>1, <1>2, <2>1, <2>2, <2>3
  <1>4. ASSUME NEW u \in Threads \ {t} PROVE MaskFits(u)'
    <2>1. MaskFits(u) /\ drdpa_pc'[u] = drdpa_pc[u] /\ my_polls'[u] = my_polls[u] /\ my_mask'[u] = my_mask[u]
      BY DEF DrdpaFits
    <2>2. CASE drdpa_pc[u] \in {"polls", "poll"}
      <3>1. Reaches(u, polls)' <=> Reaches(u, polls)
        BY <1>1, <2>1 DEF Reaches
      <3>2. Drdpa!Contracted => (Reaches(u, old_polls)' <=> Reaches(u, old_polls))
        BY <1>1, <2>1 DEF Reaches, Drdpa!Contracted
      <3>3. drdpa_pc[u] = "poll" => (Reaches(u, my_polls[u])' <=> Reaches(u, my_polls[u]))
        BY <2>1, DrdpaPolls DEF Reaches
      <3> QED
        BY <1>2, <2>1, <3>1, <3>2, <3>3 DEF MaskFits
    <2>3. CASE drdpa_pc[u] \notin {"polls", "poll"}
      BY <2>1, <2>3 DEF MaskFits
    <2> QED
      BY <2>2, <2>3
  <1> QED
    BY <1>3, <1>4 DEF DrdpaFits

\* A thread that reads the mask reads that of the area in use, or of the one that it has
\* just replaced; then it reads the pointer to the area in use.
LEMMA DrdpaFitsRead ==
    ASSUME NEW b \in Nat, DrdpaAt(b), DrdpaFits, NEW t \in Threads,
           Drdpa!ReadMask(t) \/ Drdpa!ReadPolls(t)
    PROVE  DrdpaFits'
  <1> USE NoneAssumption DEF Drdpa!Go, Drdpa!area
  <1>0. Drdpa!TypeOK /\ DrdpaAreas /\ MaskFits(t)
    BY DEF DrdpaAt, DrdpaFits
  <1>1. /\ UNCHANGED <<polls, old_polls, areas, mask>>
        /\ \A u \in Threads : drdpa_pc'[u] = "publish" => drdpa_pc[u] = "publish"
        /\ \A u \in Threads \ {t} : /\ drdpa_pc'[u] = drdpa_pc[u]
                                    /\ my_polls'[u] = my_polls[u] /\ my_mask'[u] = my_mask[u]
    BY <1>0 DEF Drdpa!ReadMask, Drdpa!ReadPolls, Drdpa!TypeOK
  <1>2. Drdpa!Contracted' <=> Drdpa!Contracted
    BY <1>1 DEF Drdpa!Contracted
  <1>3. CASE drdpa_pc'[t] \notin {"polls", "poll"}
    <2>1. MaskFits(t)'
      BY <1>3 DEF MaskFits
    <2> QED
      BY <1>1, <2>1, DrdpaFitsStay
  <1>4. CASE drdpa_pc'[t] = "polls"
    <2>1. my_mask'[t] = mask
      BY <1>0, <1>4 DEF Drdpa!ReadMask, Drdpa!ReadPolls, Drdpa!TypeOK
    <2>2. \/ 0 .. mask \subseteq DOMAIN areas[polls]
          \/ Drdpa!Contracted /\ 0 .. mask \subseteq DOMAIN areas[old_polls]
      <3>1. CASE \A u \in Threads : drdpa_pc[u] # "publish"
        BY <1>0, <3>1 DEF DrdpaAreas
      <3>2. CASE \E u \in Threads : drdpa_pc[u] = "publish"
        BY <3>2 DEF DrdpaFits, OldMaskFits
      <3> QED
        BY <3>1, <3>2
    <2>3. MaskFits(t)'
      BY <1>1, <1>2, <1>4, <2>1, <2>2 DEF MaskFits, Reaches
    <2> QED
      BY <1>1, <2>3, DrdpaFitsStay
  <1>5. CASE drdpa_pc'[t] = "poll"
    <2>1. drdpa_pc[t] = "polls" /\ my_polls'[t] = polls /\ my_mask'[t] = my_mask[t]
      BY <1>0, <1>5 DEF Drdpa!ReadMask, Drdpa!ReadPolls, Drdpa!TypeOK
    <2>2. Reaches(t, polls) \/ (Drdpa!Contracted /\ Reaches(t, old_polls))
      BY <1>0, <2>1 DEF MaskFits
    <2>3. MaskFits(t)'
      BY <1>1, <1>2, <1>5, <2>1, <2>2 DEF MaskFits, Reaches
    <2> QED
      BY <1>1, <2>3, DrdpaFitsStay
  <1> QED
    BY <1>3, <1>4, <1>5

\* There is no garbage when the area is replaced, so that all masks are of the area that
\* is; the new one is as large, or it is smaller and so contracted.
LEMMA DrdpaFitsReplaced ==
    ASSUME NEW b \in Nat, DrdpaAt(b), DrdpaFits, NEW t \in Threads,
           Drdpa!Contract(t) \/ Drdpa!Grow(t)
    PROVE  DrdpaFits'
  <1> USE NoneAssumption DEF Drdpa!Go
  <1>0. Drdpa!TypeOK /\ DrdpaLocals /\ DrdpaAreas
    BY DEF DrdpaAt
  <1>1. PICK a, m : Drdpa!Replace(t, a, m) /\ m \in Nat /\ a \in [0 .. m -> Int]
    BY DrdpaReplacement
  <1>2. /\ drdpa_pc[t] = "reconfigure" /\ drdpa_pc'[t] = "publish"
        /\ areas' = Append(areas, a) /\ polls' = Len(areas') /\ old_polls' = my_polls[t]
        /\ mask' = mask
        /\ \A u \in Threads \ {t} : /\ drdpa_pc'[u] = drdpa_pc[u] /\ my_polls'[u] = my_polls[u]
                                    /\ my_mask'[u] = my_mask[u]
    BY <1>0, <1>1 DEF Drdpa!Replace, Drdpa!TypeOK
  <1>3. my_polls[t] = polls /\ old_polls = None
    BY <1>0, <1>2 DEF DrdpaLocals, LocalsOf
  <1>4. \A u \in Threads \ {t} : drdpa_pc[u] \notin Drdpa!Holding
    BY <1>2, DrdpaAlone DEF Drdpa!Holding
  <1>5. DOMAIN areas[polls] = 0 .. mask /\ mask \in Nat
    <2>1. \A u \in Threads : drdpa_pc[u] # "publish"
      BY <1>2, <1>4 DEF Drdpa!Holding
    <2> QED
      BY <1>0, <2>1 DEF DrdpaAreas, Drdpa!TypeOK
  <1>6. /\ areas'[polls'] = a /\ areas'[polls] = areas[polls] /\ old_polls' = polls
        /\ DOMAIN areas'[polls'] = 0 .. m /\ DOMAIN areas'[old_polls'] = 0 .. mask
        /\ polls # None
    <2>1. DOMAIN areas = 1 .. Len(areas) /\ Len(areas) \in Nat /\ polls \in 1 .. Len(areas)
      BY DrdpaUsed
    <2>2. /\ Len(areas') = Len(areas) + 1 /\ areas'[Len(areas) + 1] = a
          /\ \A p \in 1 .. Len(areas) : areas'[p] = areas[p]
      BY <1>0, <1>2, <2>1 DEF DrdpaAreas
    <2>3. polls # None
      BY DrdpaUsed
    <2> QED
      BY <1>1, <1>2, <1>3, <1>5, <2>1, <2>2, <2>3
  <1>7. Drdpa!Contracted' \/ 0 .. mask \subseteq 0 .. m
    <2>1. CASE mask <= m
      BY <1>1, <1>5, <2>1
    <2>2. CASE m < mask
      <3>1. 0 .. m \subseteq 0 .. mask /\ mask \in 0 .. mask /\ mask \notin 0 .. m
        BY <1>1, <1>5, <2>2
      <3> QED
        BY <1>6, <3>1 DEF Drdpa!Contracted
    <2> QED
      BY <1>1, <1>5, <2>1, <2>2
  <1>8. OldMaskFits'
    BY <1>2, <1>6, <1>7 DEF OldMaskFits
  <1>9. ASSUME NEW u \in Threads PROVE MaskFits(u)'
    <2>1. CASE u = t
      BY <1>2, <2>1 DEF MaskFits
    <2>2. CASE u # t /\ drdpa_pc[u] \in {"polls", "poll"}
      <3>1. /\ drdpa_pc'[u] = drdpa_pc[u] /\ my_polls'[u] = my_polls[u] /\ my_mask'[u] = my_mask[u]
        BY <1>2, <2>2
      <3>2. 0 .. my_mask[u] \subseteq 0 .. mask
        BY <1>3, <1>5, <2>2 DEF DrdpaFits, MaskFits, Reaches, Drdpa!Contracted
      <3>3. Reaches(u, polls)' \/ (Drdpa!Contracted' /\ Reaches(u, old_polls)')
        BY <1>6, <1>7, <3>1, <3>2 DEF Reaches
      <3>4. drdpa_pc[u] = "poll" => my_polls[u] = polls
        BY <1>0, <1>3 DEF DrdpaLocals, LocalsOf, Spared
      <3>5. drdpa_pc[u] = "poll" => Reaches(u, my_polls[u])'
        BY <1>6, <3>1, <3>2, <3>4 DEF Reaches
      <3> QED
        BY <3>1, <3>3, <3>5 DEF MaskFits
    <2>3. CASE u # t /\ drdpa_pc[u] \notin {"polls", "poll"}
      BY <1>2, <2>3 DEF MaskFits
    <2> QED
      BY <2>1, <2>2, <2>3
  <1> QED
    BY <1>8, <1>9 DEF DrdpaFits

\* When the garbage is freed all threads that wait know the area in use.
LEMMA DrdpaFitsServed ==
    ASSUME NEW b \in Nat, DrdpaAt(b), DrdpaFits, NEW t \in Threads, Drdpa!Serve(t)
    PROVE  DrdpaFits'
  <1> USE NoneAssumption DEF Drdpa!Go, Drdpa!mine
  <1>0. Drdpa!TypeOK /\ DrdpaLocals /\ DrdpaAreas
    BY DEF DrdpaAt
  <1> DEFINE free == old_polls # None /\ ticket[t] >= cleanup_ticket
  <1>1. /\ drdpa_pc[t] = "serve" /\ drdpa_pc'[t] \in {"reconfigure", "own"}
        /\ UNCHANGED <<polls, mask, my_polls, my_mask>>
        /\ \A u \in Threads \ {t} : drdpa_pc'[u] = drdpa_pc[u]
    BY <1>0 DEF Drdpa!Serve, Drdpa!Enter, Drdpa!TypeOK
  <1>2. /\ free => areas' = [areas EXCEPT ![old_polls] = << >>]
        /\ ~free => UNCHANGED <<areas, old_polls>>
    BY DEF Drdpa!Serve, Drdpa!Enter
  <1>3. ticket[t] = b /\ \A u \in Threads \ {t} : drdpa_pc[u] \notin Drdpa!Holding
    BY <1>1, DrdpaAlone DEF Drdpa!Holding
  <1>4. MaskFits(t)'
    BY <1>1 DEF MaskFits
  <1>5. CASE ~free
    BY <1>1, <1>2, <1>4, <1>5, DrdpaFitsStay
  <1>6. CASE free
    <2>1. \A u \in Threads : drdpa_pc[u] \notin {"publish", "cleanup"} /\ drdpa_pc'[u] # "publish"
      BY <1>1, <1>3 DEF Drdpa!Holding
    <2>2. areas'[polls'] = areas[polls] /\ DOMAIN areas[polls] = 0 .. mask
      <3>1. areas'[polls] = areas[polls]
        BY <1>0, <1>2, <1>6 DEF DrdpaAreas, Drdpa!TypeOK
      <3> QED
        BY <1>0, <1>1, <2>1, <3>1 DEF DrdpaAreas
    <2>3. ASSUME NEW u \in Threads \ {t} PROVE MaskFits(u)'
      <3>1. CASE drdpa_pc[u] \in {"polls", "poll"}
        <4>1. ticket[u] \in b .. next_ticket - 1 /\ next_ticket \in Int /\ cleanup_ticket \in Int
          BY <1>0, <3>1, DrdpaPlaces DEF Drdpa!Waiting, Drdpa!TypeOK
        <4>2. ~Spared(u)
          BY <1>3, <1>6, <2>1, <4>1 DEF Spared
        <4>3. my_mask[u] = mask /\ (drdpa_pc[u] = "poll" => my_polls[u] = polls)
          BY <1>0, <3>1, <4>2 DEF DrdpaLocals, LocalsOf
        <4>4. Reaches(u, polls)'
          BY <1>1, <2>2, <4>3 DEF Reaches
        <4>5. drdpa_pc[u] = "poll" => Reaches(u, my_polls[u])'
          BY <1>1, <2>2, <4>3 DEF Reaches
        <4> QED
          BY <1>1, <4>4, <4>5 DEF MaskFits
      <3>2. CASE drdpa_pc[u] \notin {"polls", "poll"}
        BY <1>1, <3>2 DEF MaskFits
      <3> QED
        BY <3>1, <3>2
    <2> QED
      BY <1>4, <2>1, <2>3 DEF DrdpaFits, OldMaskFits
  <1> QED
    BY <1>5, <1>6

\* The masks of the threads that wait fit after every step.
LEMMA DrdpaFitsNext ==
    ASSUME NEW b \in Nat, DrdpaAt(b), DrdpaFits, Drdpa!Next PROVE DrdpaFits'
  <1> USE NoneAssumption
      DEF Drdpa!Go, Drdpa!Forget, Drdpa!Return, Drdpa!Stray, Drdpa!area, Drdpa!mine
  <1>0. Drdpa!TypeOK
    BY DEF DrdpaAt
  <1> DEFINE Aside(t) ==
                 /\ UNCHANGED <<polls, old_polls, areas>>
                 /\ \A u \in Threads :
                        drdpa_pc'[u] = "publish" => drdpa_pc[u] = "publish" /\ mask' = mask
                 /\ \A u \in Threads \ {t} :
                        /\ drdpa_pc'[u] = drdpa_pc[u]
                        /\ my_polls'[u] = my_polls[u] /\ my_mask'[u] = my_mask[u]
                 /\ \/ drdpa_pc'[t] \notin {"polls", "poll"}
                    \/ /\ drdpa_pc'[t] = drdpa_pc[t]
                       /\ my_polls'[t] = my_polls[t] /\ my_mask'[t] = my_mask[t]
  <1>1. ASSUME NEW t \in Threads, Aside(t) PROVE DrdpaFits'
    <2>1. CASE drdpa_pc'[t] \notin {"polls", "poll"}
      <3>1. MaskFits(t)'
        BY <2>1 DEF MaskFits
      <3> QED
        BY <1>1, <3>1, DrdpaFitsStay
    <2>2. CASE drdpa_pc'[t] \in {"polls", "poll"}
      <3>1. MaskFits(t)
        BY DEF DrdpaFits
      <3>2. Drdpa!Contracted' <=> Drdpa!Contracted
        BY <1>1 DEF Drdpa!Contracted
      <3>3. MaskFits(t)'
        BY <1>1, <2>2, <3>1, <3>2 DEF MaskFits, Reaches
      <3> QED
        BY <1>1, <3>3, DrdpaFitsStay
    <2> QED
      BY <2>1, <2>2
  <1>2. ASSUME NEW t \in Threads, Drdpa!TakeTicket(t) \/ Drdpa!Test(t) PROVE Aside(t)
    BY <1>0, <1>2 DEF Drdpa!TakeTicket, Drdpa!Test, Drdpa!TypeOK
  <1>3. ASSUME NEW t \in Threads, Drdpa!Poll(t) PROVE Aside(t)
    BY <1>0, <1>3 DEF Drdpa!Poll, Drdpa!TypeOK
  <1>4. ASSUME NEW t \in Threads, Drdpa!Reconfigure(t), ~(Drdpa!Contract(t) \/ Drdpa!Grow(t))
        PROVE  Aside(t)
    BY <1>0, <1>4 DEF Drdpa!Reconfigure, Drdpa!TypeOK
  <1>5. ASSUME NEW t \in Threads, Drdpa!Publish(t) PROVE Aside(t)
    <2>1. drdpa_pc[t] = "publish" /\ drdpa_pc'[t] = "cleanup"
      BY <1>0, <1>5 DEF Drdpa!Publish, Drdpa!TypeOK
    <2>2. \A u \in Threads \ {t} : drdpa_pc[u] \notin Drdpa!Holding
      BY <2>1, DrdpaAlone DEF Drdpa!Holding
    <2> QED
      BY <1>0, <1>5, <2>1, <2>2 DEF Drdpa!Publish, Drdpa!TypeOK, Drdpa!Holding
  <1>6. ASSUME NEW t \in Threads, Drdpa!Cleanup(t) \/ Drdpa!Own(t) PROVE Aside(t)
    BY <1>0, <1>6 DEF Drdpa!Cleanup, Drdpa!Own, Drdpa!TypeOK
  <1>7. ASSUME NEW t \in Threads, Drdpa!TestPoll(t) \/ Drdpa!TestTake(t) PROVE Aside(t)
    BY <1>0, <1>7 DEF Drdpa!TestPoll, Drdpa!TestTake, Drdpa!TypeOK
  <1> HIDE DEF Aside
  <1>8. ASSUME NEW t \in Threads, Drdpa!Unset(t) PROVE DrdpaFits'
    <2>1. DOMAIN areas' = DOMAIN areas /\ \A p \in DOMAIN areas : DOMAIN areas'[p] = DOMAIN areas[p]
      BY <1>8, DrdpaWritten
    <2>2. drdpa_pc' = drdpa_pc /\ drdpa_pc[t] = "program"
          /\ UNCHANGED <<polls, mask, old_polls, my_polls, my_mask>>
      BY <1>0, <1>8 DEF Drdpa!Unset, Drdpa!TypeOK
    <2>3. MaskFits(t)'
      BY <2>2 DEF MaskFits
    <2> QED
      BY <2>1, <2>2, <2>3, DrdpaFitsStay
  <1>9. CASE Drdpa!Recreate
    BY <1>9 DEF Drdpa!Recreate, DrdpaFits, OldMaskFits, MaskFits
  <1>10. CASE Drdpa!Undefined
    BY <1>10 DEF Drdpa!Undefined, Drdpa!vars, DrdpaFits, OldMaskFits, MaskFits, Reaches, Drdpa!Contracted
  <1> QED
    BY <1>1, <1>2, <1>3, <1>4, <1>5, <1>6, <1>7, <1>8, <1>9, <1>10,
       DrdpaFitsRead, DrdpaFitsReplaced, DrdpaFitsServed
    DEF Drdpa!Next, Drdpa!Step

\* No thread has a mask yet.
LEMMA DrdpaFitsInit == Drdpa!Init => DrdpaFits /\ Drdpa!StrayIsKnown
  BY DEF Drdpa!Init, DrdpaFits, OldMaskFits, MaskFits, Drdpa!StrayIsKnown

\* A thread with a ticket passes the end of an area only as that has been contracted.
LEMMA DrdpaStrayIsKnownNext ==
    ASSUME NEW b \in Nat, DrdpaAt(b), DrdpaFits, Drdpa!StrayIsKnown, Drdpa!Next
    PROVE  Drdpa!StrayIsKnown'
  <1> USE DEF Drdpa!Go, Drdpa!Return, Drdpa!area, Drdpa!mine
  <1>1. CASE stray' = None
    BY <1>1 DEF Drdpa!StrayIsKnown
  <1>2. ASSUME NEW t \in Threads, Drdpa!Stray(t, "test_poll", "test") PROVE Drdpa!StrayIsKnown'
    <2>1. stray' = <<"test", "end">> \/ stray' = <<"test", "freed">>
      BY <1>2 DEF Drdpa!Stray
    <2> QED
      BY <2>1 DEF Drdpa!StrayIsKnown
  <1>3. ASSUME NEW t \in Threads, Drdpa!Stray(t, "poll", "acquire") PROVE Drdpa!StrayIsKnown'
    <2>0. Drdpa!TypeOK /\ MaskFits(t)
      BY DEF DrdpaAt, DrdpaFits
    <2>1. /\ drdpa_pc[t] = "poll" /\ drdpa_pc' = [drdpa_pc EXCEPT ![t] = "poll"] /\ ~Drdpa!InArea(t)
          /\ UNCHANGED <<polls, old_polls, areas, ticket, my_polls, my_mask>>
      BY <1>3 DEF Drdpa!Stray
    <2>2. DOMAIN areas[my_polls[t]] # {} /\ my_mask[t] \in Nat
      BY <2>1, DrdpaPolls
    <2>3. ticket[t] \in Nat
      BY <2>1, DrdpaPlaces DEF Drdpa!Waiting
    <2>4. ~Reaches(t, my_polls[t])
      <3>1. \A n, m \in Nat : n % (m + 1) \in 0 .. m
        OBVIOUS
      <3>2. Drdpa!Hit(ticket[t], my_mask[t]) \in 0 .. my_mask[t]
        BY <2>2, <2>3, <3>1 DEF Drdpa!Hit
      <3> QED
        BY <2>1, <3>2 DEF Reaches, Drdpa!InArea
    <2>5. Drdpa!Contracted /\ my_polls[t] = polls
      BY <2>0, <2>1, <2>4 DEF MaskFits
    <2>6. stray' = <<"acquire", "end">>
      BY <1>3, <2>2 DEF Drdpa!Stray
    <2>7. Drdpa!Contracted' /\ my_polls'[t] = polls' /\ drdpa_pc'[t] = "poll"
      BY <2>0, <2>1, <2>5 DEF Drdpa!Contracted, Drdpa!TypeOK
    <2>8. ~Drdpa!InArea(t)'
      BY <2>1 DEF Drdpa!InArea, Drdpa!Hit
    <2> QED
      BY <2>6, <2>7, <2>8 DEF Drdpa!StrayIsKnown
  <1>4. ASSUME NEW t \in Threads, Drdpa!Unset(t) PROVE stray' = None
    BY <1>4, DrdpaWritten
  <1>5. CASE Drdpa!Undefined
    BY <1>5 DEF Drdpa!Undefined, Drdpa!vars, Drdpa!StrayIsKnown, Drdpa!Contracted, Drdpa!InArea, Drdpa!Hit
  <1>6. CASE Drdpa!Recreate
    BY <1>1, <1>6 DEF Drdpa!Recreate
  <1>7. ASSUME NEW t \in Threads, Drdpa!Poll(t) \/ Drdpa!TestPoll(t) PROVE Drdpa!StrayIsKnown'
    BY <1>1, <1>2, <1>3, <1>7 DEF Drdpa!Poll, Drdpa!TestPoll
  <1>8. ASSUME NEW t \in Threads, Drdpa!Reconfigure(t) PROVE stray' = None
    BY <1>8 DEF Drdpa!Reconfigure, Drdpa!Contract, Drdpa!Grow, Drdpa!Replace
  <1>9. ASSUME NEW t \in Threads,
               \/ Drdpa!TakeTicket(t) \/ Drdpa!Test(t) \/ Drdpa!ReadMask(t) \/ Drdpa!ReadPolls(t)
               \/ Drdpa!Serve(t) \/ Drdpa!Publish(t) \/ Drdpa!Cleanup(t) \/ Drdpa!Own(t)
               \/ Drdpa!TestTake(t)
        PROVE  stray' = None
    BY <1>9 DEF Drdpa!TakeTicket, Drdpa!Test, Drdpa!ReadMask, Drdpa!ReadPolls, Drdpa!Serve, Drdpa!Enter,
                Drdpa!Publish, Drdpa!Cleanup, Drdpa!Own, Drdpa!TestTake
  <1> QED
    BY <1>1, <1>4, <1>5, <1>6, <1>7, <1>8, <1>9 DEF Drdpa!Next, Drdpa!Step

\* There are as many threads in line as tickets from b on.
LEMMA DrdpaSize ==
    ASSUME NEW b \in Nat, DrdpaAt(b)
    PROVE  Drdpa!Cardinality(Drdpa!Active) = next_ticket - b /\ next_ticket - b \in Nat
  <1> DEFINE A == Drdpa!Active
             S == b .. next_ticket - 1
             f == [t \in A |-> Drdpa!TicketOf(t)]
  <1>0. Drdpa!TypeOK /\ DrdpaTickets(b)
    BY DEF DrdpaAt
  <1>1. f \in Bijection(A, S)
    <2>1. f \in [A -> S] /\ \A s \in S : \E t \in A : f[t] = s
      BY <1>0 DEF DrdpaTickets
    <2>2. \A t, u \in A : f[t] = f[u] => t = u
      BY <1>0 DEF DrdpaTickets
    <2> QED
      BY <2>1, <2>2 DEF Bijection, Injection, Surjection, IsInjective
  <1>2. IsFiniteSet(A)
    BY ThreadsAssumption, FS_Subset DEF Drdpa!Active
  <1>3. Cardinality(S) = Cardinality(A)
    BY <1>1, <1>2, FS_Bijection DEF ExistsBijection
  <1>4. next_ticket \in Nat /\ b <= next_ticket
    BY <1>0, BoundsAssumption DEF DrdpaTickets, Drdpa!TypeOK
  <1>5. Cardinality(S) = next_ticket - b
    <2>1. Cardinality(S) = IF b > next_ticket - 1 THEN 0 ELSE next_ticket - 1 - b + 1
      BY <1>4, FS_Interval
    <2> QED
      BY <1>4, <2>1
  <1>6. Drdpa!Cardinality(Drdpa!Active) = Cardinality(A)
    BY DrdpaCardinality
  <1> QED
    BY <1>3, <1>4, <1>5, <1>6

\* The first ticket that has not been served.
DrdpaFirst == next_ticket - Drdpa!Cardinality(Drdpa!Active)
DrdpaCounted == \A b \in Nat : DrdpaAt(b) => DrdpaFirst = b
LEMMA DrdpaFirstIs == DrdpaCounted
  <1> SUFFICES ASSUME NEW b \in Nat, DrdpaAt(b) PROVE DrdpaFirst = b
    BY DEF DrdpaCounted
  <1>1. next_ticket \in Nat
    BY BoundsAssumption DEF DrdpaAt, Drdpa!TypeOK
  <1> QED
    BY <1>1, DrdpaSize DEF DrdpaFirst

\* The same after a step.
LEMMA DrdpaFirstIsNext == DrdpaCounted'
  BY DrdpaFirstIs, PTL

\* While nobody has the lock its area shows the first ticket: a new area has the ticket
\* of the thread that made it, and the release writes the next one where the mask that is
\* published then makes the others look.
LEMMA DrdpaTurnIsShownNext ==
    ASSUME DrdpaLine, Drdpa!TurnIsShown, Drdpa!Next PROVE Drdpa!TurnIsShown'
  <1> USE NoneAssumption, ThreadsAssumption
  <1> SUFFICES ASSUME \A t \in Threads : ~Drdpa!Inside(t)'
               PROVE  areas'[polls'][Drdpa!Hit(DrdpaFirst', mask')] = DrdpaFirst'
    BY DEF Drdpa!TurnIsShown, DrdpaFirst, Drdpa!Hit
  <1>1. PICK b \in Nat : DrdpaAt(b)
    BY DEF DrdpaLine
  <1>2. (\A t \in Threads : ~Drdpa!Inside(t)) => areas[polls][Drdpa!Hit(b, mask)] = b
    BY <1>1, DrdpaFirstIs DEF DrdpaCounted, Drdpa!TurnIsShown, DrdpaFirst
  <1>3. ASSUME UNCHANGED <<areas, polls, mask>>, DrdpaAt(b)',
               \A u \in Threads : Drdpa!Inside(u)' <=> Drdpa!Inside(u)
        PROVE  areas'[polls'][Drdpa!Hit(DrdpaFirst', mask')] = DrdpaFirst'
    <2>1. DrdpaFirst' = b
      BY <1>3, DrdpaFirstIsNext DEF DrdpaCounted
    <2> QED
      BY <1>2, <1>3, <2>1
  <1>4. ASSUME NEW t \in Threads,
               \/ Drdpa!Test(t) \/ Drdpa!ReadMask(t) \/ Drdpa!ReadPolls(t) \/ Drdpa!TestPoll(t)
               \/ (Drdpa!Poll(t) /\ drdpa_pc'[t] # "serve")
               \/ (Drdpa!TestTake(t) /\ drdpa_pc'[t] # "own")
        PROVE  areas'[polls'][Drdpa!Hit(DrdpaFirst', mask')] = DrdpaFirst'
    <2>1. UNCHANGED <<areas, polls, mask>>
      BY <1>4 DEF Drdpa!Test, Drdpa!ReadMask, Drdpa!ReadPolls, Drdpa!TestPoll, Drdpa!Poll, Drdpa!TestTake,
                  Drdpa!Stray, Drdpa!area
    <2>2. DrdpaAt(b)' /\ \A u \in Threads : Drdpa!Inside(u)' <=> Drdpa!Inside(u)
      BY <1>1, <1>4, DrdpaQuiet
    <2> QED
      BY <1>3, <2>1, <2>2
  <1>5. ASSUME NEW t \in Threads, Drdpa!TakeTicket(t)
        PROVE  areas'[polls'][Drdpa!Hit(DrdpaFirst', mask')] = DrdpaFirst'
    <2>1. UNCHANGED <<areas, polls, mask>>
      BY <1>5 DEF Drdpa!TakeTicket, Drdpa!area
    <2>2. DrdpaAt(b)' /\ \A u \in Threads : Drdpa!Inside(u)' <=> Drdpa!Inside(u)
      BY <1>1, <1>5, DrdpaTake
    <2> QED
      BY <1>3, <2>1, <2>2
  <1>6. ASSUME NEW t \in Threads, Drdpa!Reconfigure(t) PROVE FALSE
    <2>1. CASE drdpa_pc'[t] = "own"
      <3>1. Drdpa!Inside(t)' <=> Drdpa!Inside(t)
        BY <1>1, <1>6, <2>1, DrdpaQuiet
      <3>2. Drdpa!Inside(t)
        BY <1>6 DEF Drdpa!Reconfigure, Drdpa!Inside, Drdpa!Holding
      <3> QED
        BY <3>1, <3>2
    <2>2. CASE drdpa_pc'[t] # "own"
      <3>1. Drdpa!Contract(t) \/ Drdpa!Grow(t)
        BY <1>1, <1>6, <2>2 DEF Drdpa!Reconfigure, Drdpa!Go, DrdpaAt, Drdpa!TypeOK
      <3>2. Drdpa!Inside(t)'
        BY <1>1, <3>1, DrdpaReplaced
      <3> QED
        BY <3>2
    <2> QED
      BY <2>1, <2>2
  <1>7. ASSUME NEW t \in Threads,
               \/ (Drdpa!Poll(t) /\ drdpa_pc'[t] = "serve")
               \/ (Drdpa!TestTake(t) /\ drdpa_pc'[t] = "own")
               \/ Drdpa!Serve(t) \/ Drdpa!Publish(t) \/ Drdpa!Cleanup(t) \/ Drdpa!Own(t)
        PROVE  FALSE
    <2>1. CASE Drdpa!Poll(t) /\ drdpa_pc'[t] = "serve"
      BY <1>1, <2>1, DrdpaTurn
    <2>2. CASE Drdpa!TestTake(t) /\ drdpa_pc'[t] = "own"
      BY <1>1, <2>2, DrdpaTested
    <2>3. CASE Drdpa!Serve(t) \/ Drdpa!Publish(t) \/ Drdpa!Cleanup(t) \/ Drdpa!Own(t)
      BY <1>1, <2>3, DrdpaServed, DrdpaPublished, DrdpaCleaned, DrdpaOwned
    <2> QED
      BY <1>7, <2>1, <2>2, <2>3
  <1>8. ASSUME NEW t \in Threads, Drdpa!Unset(t)
        PROVE  areas'[polls'][Drdpa!Hit(DrdpaFirst', mask')] = DrdpaFirst'
    <2>1. DrdpaAt(b + 1)' /\ b + 1 \in Nat
      BY <1>1, <1>8, DrdpaReleased
    <2>2. DrdpaFirst' = b + 1
      BY <2>1, DrdpaFirstIsNext DEF DrdpaCounted
    <2>3. drdpa_owner = t /\ drdpa_owner # None
      BY <1>8 DEF Drdpa!Unset
    <2>4. now_serving = b /\ \A u \in Threads : drdpa_pc[u] # "publish"
      BY <1>1, <2>3, DrdpaPlaces DEF Drdpa!Holding
    <2>5. Drdpa!Hit(b + 1, mask) \in DOMAIN areas[polls] /\ polls \in DOMAIN areas
      BY <1>1, <2>4, DrdpaUsed
    <2>6. /\ areas' = [areas EXCEPT ![polls][Drdpa!Hit(b + 1, mask)] = b + 1]
          /\ UNCHANGED <<polls, mask>>
      BY <1>8, <2>4, <2>5 DEF Drdpa!Unset
    <2>7. areas'[polls] = [areas[polls] EXCEPT ![Drdpa!Hit(b + 1, mask)] = b + 1]
      BY <2>5, <2>6
    <2>8. areas'[polls][Drdpa!Hit(b + 1, mask)] = b + 1
      BY <2>5, <2>7
    <2> QED
      BY <2>2, <2>6, <2>8
  <1>9. CASE Drdpa!Recreate
    <2>1. DrdpaAt(0)' /\ 0 \in Nat
      BY <1>1, <1>9, DrdpaRecreated
    <2>2. DrdpaFirst' = 0
      BY <2>1, DrdpaFirstIsNext DEF DrdpaCounted
    <2>3. areas' = <<[i \in {0} |-> 0]>> /\ polls' = 1 /\ mask' = 0
      BY <1>9 DEF Drdpa!Recreate, Drdpa!Fresh
    <2>4. Drdpa!Hit(0, 0) = 0
      BY DEF Drdpa!Hit
    <2> QED
      BY <2>2, <2>3, <2>4
  <1>10. CASE Drdpa!Undefined
    <2>1. UNCHANGED Drdpa!vars
      BY <1>10 DEF Drdpa!Undefined
    <2>2. UNCHANGED <<areas, polls, mask>>
      BY <2>1 DEF Drdpa!vars
    <2>3. DrdpaAt(b)' /\ \A u \in Threads : Drdpa!Inside(u)' <=> Drdpa!Inside(u)
      BY <1>1, <2>1, DrdpaStutter
    <2> QED
      BY <1>3, <2>2, <2>3
  <1> QED
    BY <1>4, <1>5, <1>6, <1>7, <1>8, <1>9, <1>10 DEF Drdpa!Next, Drdpa!Step

\* An unused lock shows ticket 0.
LEMMA DrdpaTurnIsShownInit == Drdpa!Init => Drdpa!TurnIsShown
  <1> SUFFICES ASSUME Drdpa!Init PROVE Drdpa!TurnIsShown
    OBVIOUS
  <1>1. Drdpa!Active = {} /\ next_ticket = 0
    BY NoneAssumption, ThreadsAssumption
    DEF Drdpa!Init, Drdpa!Fresh, Drdpa!Active, Drdpa!Inside, Drdpa!Holding, Drdpa!Waiting
  <1>2. Drdpa!Cardinality(Drdpa!Active) = 0
    BY <1>1, FS_EmptySet, DrdpaCardinality
  <1>3. next_ticket - Drdpa!Cardinality(Drdpa!Active) = 0
    BY <1>1, <1>2
  <1>4. areas = <<[i \in {0} |-> 0]>> /\ polls = 1 /\ mask = 0
    BY DEF Drdpa!Init, Drdpa!Fresh
  <1>5. areas[polls][Drdpa!Hit(0, mask)] = 0
    BY <1>4 DEF Drdpa!Hit
  <1> QED
    BY <1>3, <1>5 DEF Drdpa!TurnIsShown

\* The line, and the turn that is shown, are all that the invariant says.
LEMMA DrdpaImpliesInv == DrdpaLine /\ Drdpa!TurnIsShown => Drdpa!Inv
  <1> SUFFICES ASSUME NEW b \in Nat, DrdpaAt(b), Drdpa!TurnIsShown PROVE Drdpa!Inv
    BY DEF DrdpaLine
  <1>0. Drdpa!TypeOK /\ DrdpaTickets(b) /\ DrdpaLocals /\ DrdpaAreas
    BY DEF DrdpaAt
  <1>1. Drdpa!Cardinality({t \in Threads : Drdpa!Inside(t)}) <= 1
    <2> DEFINE I == {t \in Threads : Drdpa!Inside(t)}
    <2>1. \A t, u \in I : t = u
      BY <1>0 DEF DrdpaTickets, Drdpa!Active
    <2>2. I = {} \/ \E t \in I : I = {t}
      BY <2>1
    <2> HIDE DEF I
    <2>3. Cardinality({}) = 0 /\ \A t : Cardinality({t}) = 1
      BY FS_EmptySet, FS_Singleton
    <2>4. Cardinality(I) = 0 \/ Cardinality(I) = 1
      BY <2>2, <2>3
    <2>5. Drdpa!Cardinality(I) = Cardinality(I)
      BY DrdpaCardinality
    <2>6. Drdpa!Cardinality(I) <= 1
      BY <2>4, <2>5
    <2> QED
      BY <2>6 DEF I
  <1>2. {Drdpa!TicketOf(t) : t \in Drdpa!Active} =
            next_ticket - Drdpa!Cardinality(Drdpa!Active) .. next_ticket - 1
    <2>1. next_ticket - Drdpa!Cardinality(Drdpa!Active) = b
      BY <1>0, DrdpaSize, BoundsAssumption DEF Drdpa!TypeOK
    <2>2. {Drdpa!TicketOf(t) : t \in Drdpa!Active} = b .. next_ticket - 1
      BY <1>0 DEF DrdpaTickets
    <2> QED
      BY <2>1, <2>2
  <1>3. \A t \in Threads :
          /\ drdpa_pc[t] \in {"serve", "reconfigure", "publish"} => my_polls[t] = polls
          /\ drdpa_pc[t] = "reconfigure" => my_mask[t] = mask
          /\ drdpa_pc[t] \in Drdpa!Holding \ {"serve"} => ticket[t] = now_serving
    BY <1>0 DEF DrdpaLocals, LocalsOf, DrdpaTickets
  <1>4. /\ \A p \in DOMAIN areas : areas[p] = << >> <=> p \notin {polls, old_polls}
        /\ (\A t \in Threads : drdpa_pc[t] # "publish") =>
               num_polls = mask + 1 /\ DOMAIN areas[polls] = 0 .. mask
    BY <1>0 DEF DrdpaAreas
  <1> QED
    BY <1>0, <1>1, <1>2, <1>3, <1>4 DEF Drdpa!Inv


\* The line as the fair lock sees it.
DrdpaOrder ==
    LET n == Drdpa!Cardinality(Drdpa!Active)
    IN  [i \in 1 .. n |-> CHOOSE t \in Drdpa!Active : Drdpa!TicketOf(t) = next_ticket - n + i - 1]
DrdpaInside == \E t \in Threads : Drdpa!Inside(t)

\* These are steps of the fair lock.
LEMMA DrdpaJoinLine ==
    ASSUME NEW t \in Threads, DrdpaOrder' = Append(DrdpaOrder, t), DrdpaInside' = DrdpaInside
    PROVE  Drdpa!Fifo!Join(t, 1)
  <1>1. <<DrdpaOrder>>' = [<<DrdpaOrder>> EXCEPT ![1] = Append(@, t)]
    OBVIOUS
  <1>2. UNCHANGED <<DrdpaInside>>
    OBVIOUS
  <1> QED
    BY <1>1, <1>2, Zenon DEF Drdpa!Fifo!Join, DrdpaOrder, DrdpaInside

\* A thread gets a lock that nobody waits for at once.
LEMMA DrdpaJoinEmpty ==
    ASSUME NEW t \in Threads, DrdpaOrder' = Append(DrdpaOrder, t), DrdpaOrder = << >>, DrdpaInside'
    PROVE  Drdpa!Fifo!Join(t, 1)
  <1>1. <<DrdpaOrder>>' = [<<DrdpaOrder>> EXCEPT ![1] = Append(@, t)]
    OBVIOUS
  <1>2. DrdpaInside' = TRUE
    BY Zenon
  <1>3. <<DrdpaInside>>' = [<<DrdpaInside>> EXCEPT ![1] = TRUE]
    BY <1>2, OneLine, Zenon
  <1>4. <<DrdpaOrder>>[1] = << >>
    OBVIOUS
  <1> QED
    BY <1>1, <1>3, <1>4, Zenon DEF Drdpa!Fifo!Join, DrdpaOrder, DrdpaInside

\* The first of the line leaves it.
LEMMA DrdpaLeaveLine ==
    ASSUME DrdpaOrder' = Tail(DrdpaOrder), DrdpaInside, ~DrdpaInside'
    PROVE  Drdpa!Fifo!Leave(1)
  <1>1. <<DrdpaOrder>>' = [<<DrdpaOrder>> EXCEPT ![1] = Tail(@)]
    OBVIOUS
  <1>2. DrdpaInside' = FALSE
    OBVIOUS
  <1>3. <<DrdpaInside>>' = [<<DrdpaInside>> EXCEPT ![1] = FALSE]
    BY <1>2, OneLine, Zenon
  <1>4. <<DrdpaInside>>[1]
    OBVIOUS
  <1> QED
    BY <1>1, <1>3, <1>4, Zenon DEF Drdpa!Fifo!Leave, DrdpaOrder, DrdpaInside

\* The first of the line gets the lock.
LEMMA DrdpaEnterLine ==
    ASSUME DrdpaOrder' = DrdpaOrder, DrdpaOrder # << >>, DrdpaInside'
    PROVE  Drdpa!Fifo!Enter(1)
  <1>1. <<DrdpaOrder>>' = <<DrdpaOrder>>
    OBVIOUS
  <1>2. DrdpaInside' = TRUE
    BY Zenon
  <1>3. <<DrdpaInside>>' = [<<DrdpaInside>> EXCEPT ![1] = TRUE]
    BY <1>2, OneLine, Zenon
  <1>4. <<DrdpaOrder>>[1] # << >>
    OBVIOUS
  <1> QED
    BY <1>1, <1>3, <1>4, Zenon DEF Drdpa!Fifo!Enter, DrdpaOrder, DrdpaInside

\* All of them are steps of the fair lock.
LEMMA DrdpaFifoNext ==
    ASSUME \/ Drdpa!Fifo!Enter(1) \/ Drdpa!Fifo!Leave(1)
           \/ \E t \in Threads : Drdpa!Fifo!Join(t, 1)
    PROVE  Drdpa!Fifo!Next
  BY DEF Drdpa!Fifo!Next

\* The threads in line, each with its ticket.
DrdpaOrdered ==
    \A b \in Nat : DrdpaAt(b) =>
        IsLine(DrdpaOrder, Drdpa!Active, [t \in Drdpa!Active |-> Drdpa!TicketOf(t)], b, next_ticket - b)

\* The line of the fair lock is the threads in line, in the order of their tickets.
LEMMA DrdpaOrderIsLine == DrdpaOrdered
  <1> SUFFICES ASSUME NEW b \in Nat, DrdpaAt(b)
               PROVE  IsLine(DrdpaOrder, Drdpa!Active, [t \in Drdpa!Active |-> Drdpa!TicketOf(t)],
                             b, next_ticket - b)
    BY DEF DrdpaOrdered
  <1>1. DrdpaTickets(b) /\ next_ticket \in Nat /\ b <= next_ticket
    BY BoundsAssumption DEF DrdpaAt, Drdpa!TypeOK, DrdpaTickets
  <1>2. DrdpaOrder = [i \in 1 .. next_ticket - b |->
                         CHOOSE t \in Drdpa!Active : Drdpa!TicketOf(t) = b + i - 1]
    <2> DEFINE n == Drdpa!Cardinality(Drdpa!Active)
               F(k, c) == [i \in 1 .. k |-> CHOOSE t \in Drdpa!Active : Drdpa!TicketOf(t) = c + i - 1]
    <2>1. n = next_ticket - b /\ next_ticket - n = b
      BY <1>1, DrdpaSize
    <2>2. DrdpaOrder = F(n, next_ticket - n)
      BY DEF DrdpaOrder
    <2>3. F(n, next_ticket - n) = F(next_ticket - b, b)
      <3> HIDE DEF n, F
      <3> QED
        BY <2>1
    <2> HIDE DEF n
    <2> QED
      BY <2>2, <2>3
  <1>3. ASSUME NEW i \in 1 .. next_ticket - b
        PROVE  DrdpaOrder[i] \in Drdpa!Active /\ Drdpa!TicketOf(DrdpaOrder[i]) = b + i - 1
    <2>1. \E u \in Drdpa!Active : Drdpa!TicketOf(u) = b + i - 1
      <3>1. b + i - 1 \in b .. next_ticket - 1
        BY <1>1
      <3> QED
        BY <1>1, <3>1 DEF DrdpaTickets
    <2>2. DrdpaOrder[i] = CHOOSE u \in Drdpa!Active : Drdpa!TicketOf(u) = b + i - 1
      BY <1>2
    <2> QED
      BY <2>1, <2>2
  <1>4. \A t \in Drdpa!Active : Drdpa!TicketOf(t) \in Int
    BY <1>1 DEF DrdpaTickets
  <1>5. DrdpaOrder \in [1 .. next_ticket - b -> Drdpa!Active]
    <2>1. DOMAIN DrdpaOrder = 1 .. next_ticket - b /\ DrdpaOrder = [i \in DOMAIN DrdpaOrder |-> DrdpaOrder[i]]
      BY <1>2
    <2> QED
      BY <1>3, <2>1
  <1>6. \A t, u \in Drdpa!Active : Drdpa!TicketOf(t) = Drdpa!TicketOf(u) => t = u
    BY <1>1 DEF DrdpaTickets
  <1> QED
    BY <1>3, <1>4, <1>5, <1>6 DEF IsLine

\* The same after a step.
LEMMA DrdpaOrderIsLineNext == DrdpaOrdered'
  BY DrdpaOrderIsLine, PTL

\* The lines before and after a step.
LEMMA DrdpaOrders ==
    ASSUME NEW b \in Nat, DrdpaAt(b), NEW c \in Nat, DrdpaAt(c)'
    PROVE  /\ IsLine(DrdpaOrder, Drdpa!Active, [t \in Drdpa!Active |-> Drdpa!TicketOf(t)], b, next_ticket - b)
           /\ IsLine(DrdpaOrder', Drdpa!Active', [t \in Drdpa!Active' |-> Drdpa!TicketOf(t)'],
                     c, next_ticket' - c)
           /\ next_ticket - b \in Nat /\ next_ticket' - c \in Nat
           /\ next_ticket \in Int /\ next_ticket' \in Int
  <1>1. IsLine(DrdpaOrder, Drdpa!Active, [t \in Drdpa!Active |-> Drdpa!TicketOf(t)], b, next_ticket - b)
    BY DrdpaOrderIsLine DEF DrdpaOrdered
  <1>2. IsLine(DrdpaOrder', Drdpa!Active', [t \in Drdpa!Active' |-> Drdpa!TicketOf(t)'],
               c, next_ticket' - c)
    BY DrdpaOrderIsLineNext DEF DrdpaOrdered, IsLine
  <1>3. next_ticket - b \in Nat /\ next_ticket \in Int
    BY BoundsAssumption DEF DrdpaAt, Drdpa!TypeOK, DrdpaTickets
  <1>4. next_ticket' - c \in Nat /\ next_ticket' \in Int
    BY BoundsAssumption DEF DrdpaAt, Drdpa!TypeOK, DrdpaTickets
  <1> QED
    BY <1>1, <1>2, <1>3, <1>4

\* A line without a change.
LEMMA DrdpaOrderStays ==
    ASSUME NEW b \in Nat, DrdpaAt(b), DrdpaAt(b)', DrdpaKept PROVE DrdpaOrder' = DrdpaOrder
  <1> DEFINE f == [t \in Drdpa!Active |-> Drdpa!TicketOf(t)]
             g == [t \in Drdpa!Active' |-> Drdpa!TicketOf(t)']
             n == next_ticket - b
  <1>1. /\ IsLine(DrdpaOrder, Drdpa!Active, f, b, n) /\ n \in Nat
        /\ IsLine(DrdpaOrder', Drdpa!Active', g, b, next_ticket' - b)
    BY DrdpaOrders
  <1>2. g = f /\ Drdpa!Active' = Drdpa!Active /\ next_ticket' - b = n
    BY DEF DrdpaKept
  <1> HIDE DEF f, g, n
  <1> QED
    BY <1>1, <1>2, LineStay

\* A step of a DRDPA lock is a step of a fair lock.
LEMMA DrdpaFifo ==
    ASSUME DrdpaLine, Drdpa!Next PROVE [Drdpa!Fifo!Next]_<<<<DrdpaOrder>>, <<DrdpaInside>>>>
  <1>0. PICK b \in Nat : DrdpaAt(b)
    BY DEF DrdpaLine
  <1> DEFINE f == [t \in Drdpa!Active |-> Drdpa!TicketOf(t)]
             g == [t \in Drdpa!Active' |-> Drdpa!TicketOf(t)']
             n == next_ticket - b
  <1>1. IsLine(DrdpaOrder, Drdpa!Active, f, b, n) /\ n \in Nat /\ next_ticket \in Int
    BY <1>0, DrdpaOrders, DrdpaOrderIsLine, BoundsAssumption
    DEF DrdpaOrdered, DrdpaAt, DrdpaTickets, Drdpa!TypeOK
  <1>2. ASSUME DrdpaAt(b)', DrdpaKept PROVE DrdpaOrder' = DrdpaOrder
    BY <1>0, <1>2, DrdpaOrderStays
  <1>3. ASSUME NEW t \in Threads, DrdpaGrows(b, t) PROVE DrdpaOrder' = Append(DrdpaOrder, t)
    <2>1. IsLine(DrdpaOrder', Drdpa!Active', g, b, next_ticket' - b)
      BY <1>0, <1>3, DrdpaOrders DEF DrdpaGrows
    <2>2. Joins(t, Drdpa!Active, Drdpa!Active', f, g, b, n, next_ticket' - b)
      BY <1>1, <1>3 DEF DrdpaGrows, Joins
    <2> HIDE DEF f, g, n
    <2> QED
      BY <1>1, <2>1, <2>2, LineJoin
  <1>4. CASE DrdpaStays(b)
    <2>1. DrdpaOrder' = DrdpaOrder
      BY <1>2, <1>4 DEF DrdpaStays
    <2>2. DrdpaInside' = DrdpaInside
      BY <1>4 DEF DrdpaStays, DrdpaInside
    <2> QED
      BY <2>1, <2>2
  <1>5. CASE DrdpaEnters(b)
    <2>1. DrdpaOrder' = DrdpaOrder
      BY <1>2, <1>5 DEF DrdpaEnters
    <2>2. PICK t \in Drdpa!Active : Drdpa!Inside(t)'
      BY <1>5 DEF DrdpaEnters
    <2>3. DrdpaInside'
      BY <2>2 DEF DrdpaInside, Drdpa!Active
    <2>4. n # 0
      <3>1. Drdpa!TicketOf(t) \in b .. next_ticket - 1
        BY <1>0, <2>2 DEF DrdpaAt, DrdpaTickets
      <3> QED
        BY <1>1, <3>1
    <2>5. DrdpaOrder # << >>
      <3> HIDE DEF f, n
      <3> QED
        BY <1>1, <2>4, LineLength
    <2> QED
      BY <2>1, <2>3, <2>5, DrdpaEnterLine, DrdpaFifoNext
  <1>6. ASSUME NEW t \in Threads, DrdpaJoins(b, t) PROVE Drdpa!Fifo!Join(t, 1)
    <2>1. DrdpaOrder' = Append(DrdpaOrder, t)
      BY <1>3, <1>6 DEF DrdpaJoins
    <2>2. DrdpaInside' = DrdpaInside
      BY <1>6 DEF DrdpaJoins, DrdpaInside
    <2> QED
      BY <2>1, <2>2, DrdpaJoinLine
  <1>7. ASSUME NEW t \in Threads, DrdpaGets(b, t) PROVE Drdpa!Fifo!Join(t, 1)
    <2>1. DrdpaOrder' = Append(DrdpaOrder, t)
      BY <1>3, <1>7 DEF DrdpaGets
    <2>2. n = 0 /\ DrdpaInside'
      BY <1>1, <1>7 DEF DrdpaGets, DrdpaInside
    <2>3. DrdpaOrder = << >>
      <3> HIDE DEF f, n
      <3> QED
        BY <1>1, <2>2, LineLength
    <2> QED
      BY <2>1, <2>2, <2>3, DrdpaJoinEmpty
  <1>8. ASSUME NEW t \in Threads, DrdpaLeaves(b, t) PROVE Drdpa!Fifo!Leave(1)
    <2>1. IsLine(DrdpaOrder', Drdpa!Active', g, b + 1, next_ticket' - (b + 1))
      <3>1. b + 1 \in Nat /\ DrdpaAt(b + 1)'
        BY <1>8 DEF DrdpaLeaves
      <3> QED
        BY <1>0, <3>1, DrdpaOrders
    <2>2. /\ t \in Drdpa!Active /\ Drdpa!Active' = Drdpa!Active \ {t}
          /\ \A u \in Drdpa!Active \ {t} : g[u] = f[u]
      BY <1>8 DEF DrdpaLeaves
    <2>3. n # 0 /\ next_ticket' - (b + 1) = n - 1
      <3>1. Drdpa!TicketOf(t) \in b .. next_ticket - 1
        BY <1>0, <2>2 DEF DrdpaAt, DrdpaTickets
      <3> QED
        BY <1>1, <1>8, <3>1 DEF DrdpaLeaves
    <2>4. DrdpaOrder' = Tail(DrdpaOrder)
      <3>1. Leaves(t, Drdpa!Active, Drdpa!Active', f, g, b, b + 1, n, next_ticket' - (b + 1))
        BY <1>1, <2>2, <2>3 DEF Leaves
      <3> HIDE DEF f, g, n
      <3> QED
        BY <1>1, <2>1, <3>1, LineLeave
    <2>5. DrdpaInside /\ ~DrdpaInside'
      BY <1>8 DEF DrdpaLeaves, DrdpaInside
    <2> QED
      BY <2>4, <2>5, DrdpaLeaveLine
  <1>9. CASE DrdpaAt(0)' /\ Drdpa!Active = {} /\ Drdpa!Active' = {}
    <2>1. DrdpaOrder \in Seq({}) /\ DrdpaOrder' \in Seq({})
      <3>1. IsLine(DrdpaOrder', {}, g, 0, next_ticket' - 0) /\ next_ticket' - 0 \in Nat
        BY <1>0, <1>9, DrdpaOrders
      <3>2. IsLine(DrdpaOrder, {}, f, b, n)
        BY <1>1, <1>9
      <3> HIDE DEF f, g, n
      <3> QED
        BY <1>1, <3>1, <3>2, LineLength
    <2>2. DrdpaOrder' = DrdpaOrder
      BY <2>1
    <2>3. ~DrdpaInside /\ ~DrdpaInside'
      BY <1>9 DEF DrdpaInside, Drdpa!Active
    <2>4. DrdpaInside' = DrdpaInside
      BY <2>3 DEF DrdpaInside
    <2> QED
      BY <2>2, <2>4
  <1> QED
    BY <1>0, <1>4, <1>5, <1>6, <1>7, <1>8, <1>9, DrdpaCases, DrdpaFifoNext

-----------------------------------------------------------------------------
(* All kinds.                                                              *)

\* The invariant of each kind; of the kinds that were not chosen it holds because
\* their locks are never used.
IInv ==
    /\ kind \in {"tas", "ticket", "futex", "queuing", "drdpa"}
    /\ Tas!Inv /\ TicketLine /\ Futex!Inv
    /\ QueuingLine /\ QueuingTail
    /\ DrdpaLine /\ Drdpa!TurnIsShown /\ DrdpaFits /\ Drdpa!StrayIsKnown

\* The locks of a kind that was not chosen stay as they are: the test-and-set locks,
LEMMA TasStays == ASSUME Tas!Inv, UNCHANGED tas PROVE Tas!Inv' /\ TasHolds' = TasHolds
  BY DEF tas, Tas!Inv, Tas!TypeOK, TasHolds

\* the ticket locks,
LEMMA TicketStays ==
    ASSUME TicketLine, UNCHANGED tickets
    PROVE  TicketLine' /\ UNCHANGED <<<<TicketOrder>>, <<TicketInside>>>>
  <1>1. Ticket!Active' = Ticket!Active /\ \A t \in Threads : Ticket!Inside(t)' <=> Ticket!Inside(t)
    BY DEF tickets, Ticket!Active, Ticket!Inside
  <1>2. UNCHANGED <<ticket_next, ticket_serving, my_ticket>>
    BY DEF tickets
  <1>3. TicketLine'
    BY <1>1 DEF tickets, TicketLine, Ticket!TypeOK
  <1>4. TicketOrder' = TicketOrder
    BY <1>1, <1>2, <1>3, TicketOrderStays
  <1>5. TicketInside' = TicketInside
    BY <1>1, Zenon DEF TicketInside
  <1> QED
    BY <1>3, <1>4, <1>5

\* the futex locks,
LEMMA FutexStays == ASSUME Futex!Inv, UNCHANGED futex PROVE Futex!Inv' /\ FutexHolds' = FutexHolds
  BY DEF futex, Futex!Inv, Futex!TypeOK, Futex!SleepersAreKnown, FutexHolds

\* the queuing locks,
LEMMA QueuingStays ==
    ASSUME QueuingLine, UNCHANGED queuing
    PROVE  /\ QueuingLine' /\ (QueuingTail => QueuingTail')
           /\ UNCHANGED <<QueuingOrder, QueuingInside>>
  <1> USE DEF queuing
  <1>1. \A t \in Threads, l \in Locks : /\ Queuing!Queued(t, l)' <=> Queuing!Queued(t, l)
                                        /\ Queuing!Inside(t, l)' <=> Queuing!Inside(t, l)
    BY DEF Queuing!Queued, Queuing!Given, Queuing!Inside
  <1>2. \A l \in Locks : QueuedOn(l)' = QueuedOn(l) /\ Queuing!Holders(l)' = Queuing!Holders(l)
    BY <1>1 DEF QueuedOn, Queuing!Holders, Queuing!Given, Queuing!Inside
  <1>3. \A l \in Locks : \A n, s : IsQueue(s, n, l)' <=> IsQueue(s, n, l)
    BY <1>2 DEF IsQueue, Queuing!Follows
  <1>5. Queuing!TypeOK' /\ QueuingPlace' /\ QueuingSpin'
    BY DEF QueuingLine, Queuing!TypeOK, QueuingPlace, QueuingSpin
  <1>6. QueuingSeen'
    BY DEF QueuingLine, QueuingSeen, Queuing!Queued, Queuing!Given
  <1>7. QueuingLinked' /\ QueuingHolder'
    BY <1>2 DEF QueuingLine, QueuingLinked, QueuingHolder, Queuing!Queued, Queuing!Given
  <1>8. QueuingLine'
    BY <1>2, <1>3, <1>5, <1>6, <1>7 DEF QueuingLine
  <1>4. QueuesStay /\ HoldersStay
    BY <1>1, <1>2, <1>3, <1>8 DEF QueuesStay, HoldersStay
  <1>9. QueuingTail => QueuingTail'
    BY DEF QueuingTail
  <1> QED
    BY <1>4, <1>8, <1>9, QueuingStutter

\* and the DRDPA locks.
LEMMA DrdpaRests ==
    ASSUME DrdpaLine, UNCHANGED drdpa
    PROVE  /\ DrdpaLine' /\ (Drdpa!TurnIsShown => Drdpa!TurnIsShown')
           /\ DrdpaFits => DrdpaFits'
           /\ Drdpa!StrayIsKnown => Drdpa!StrayIsKnown'
           /\ UNCHANGED <<<<DrdpaOrder>>, <<DrdpaInside>>>>
  <1>1. PICK b \in Nat : DrdpaAt(b)
    BY DEF DrdpaLine
  <1>2. UNCHANGED Drdpa!vars
    BY DEF drdpa, Drdpa!vars
  <1>3. DrdpaAt(b)' /\ DrdpaKept /\ \A u \in Threads : Drdpa!Inside(u)' <=> Drdpa!Inside(u)
    BY <1>1, <1>2, DrdpaStutter
  <1>4. DrdpaOrder' = DrdpaOrder
    BY <1>1, <1>3, DrdpaOrderStays
  <1>5. DrdpaInside' = DrdpaInside
    BY <1>3, Zenon DEF DrdpaInside
  <1>6. DrdpaLine'
    BY <1>3 DEF DrdpaLine
  <1>7. Drdpa!TurnIsShown => Drdpa!TurnIsShown'
    BY <1>3 DEF drdpa, DrdpaKept, Drdpa!TurnIsShown
  <1>8. DrdpaFits => DrdpaFits'
    BY DEF drdpa, DrdpaFits, OldMaskFits, MaskFits, Reaches, Drdpa!Contracted
  <1>9. Drdpa!StrayIsKnown => Drdpa!StrayIsKnown'
    BY DEF drdpa, Drdpa!StrayIsKnown, Drdpa!Contracted, Drdpa!InArea, Drdpa!Hit
  <1> QED
    BY <1>4, <1>5, <1>6, <1>7, <1>8, <1>9

\* At first all locks are unused.
LEMMA InitIInv == Init => IInv
  <1>1. Init => QueuingTail
    BY DEF Init, Queuing!Init, QueuingTail
  <1> QED
    BY <1>1, TasInit, TicketInit, FutexInit, QueuingInit, DrdpaInit, DrdpaTurnIsShownInit, DrdpaFitsInit
    DEF Init, IInv

\* A step of the chosen kind, and what it is for the abstract locks.
LEMMA NextIInv ==
    ASSUME IInv, [Next]_vars
    PROVE  /\ IInv'
           /\ [Tas!Owned!Next]_TasHolds /\ [Futex!Owned!Next]_FutexHolds
           /\ [Ticket!Fifo!Next]_<<<<TicketOrder>>, <<TicketInside>>>>
           /\ [Queuing!Fifo!Next]_<<QueuingOrder, QueuingInside>>
           /\ [Drdpa!Fifo!Next]_<<<<DrdpaOrder>>, <<DrdpaInside>>>>
  <1>0. /\ Tas!Inv /\ TicketLine /\ Futex!Inv
        /\ QueuingLine /\ QueuingTail
        /\ DrdpaLine /\ Drdpa!TurnIsShown /\ DrdpaFits /\ Drdpa!StrayIsKnown
    BY DEF IInv
  <1>1. Tas!Inv' /\ [Tas!Owned!Next]_TasHolds
    <2>1. UNCHANGED tas \/ Tas!Next
      BY DEF Next, vars
    <2> QED
      BY <1>0, <2>1, TasStays, TasNext, TasOwned
  <1>2. TicketLine' /\ [Ticket!Fifo!Next]_<<<<TicketOrder>>, <<TicketInside>>>>
    <2>1. UNCHANGED tickets \/ Ticket!Next
      BY DEF Next, vars
    <2> QED
      BY <1>0, <2>1, TicketStays, TicketNext, TicketFifo
  <1>3. Futex!Inv' /\ [Futex!Owned!Next]_FutexHolds
    <2>1. UNCHANGED futex \/ Futex!Next
      BY DEF Next, vars
    <2> QED
      BY <1>0, <2>1, FutexStays, FutexNext, FutexOwned
  <1>4. QueuingLine' /\ QueuingTail' /\ [Queuing!Fifo!Next]_<<QueuingOrder, QueuingInside>>
    <2>1. UNCHANGED queuing \/ Queuing!Next
      BY DEF Next, vars
    <2> QED
      BY <1>0, <2>1, QueuingStays, QueuingNext, QueuingTailNext, QueuingFifo
  <1>5. /\ DrdpaLine' /\ Drdpa!TurnIsShown' /\ DrdpaFits' /\ Drdpa!StrayIsKnown'
        /\ [Drdpa!Fifo!Next]_<<<<DrdpaOrder>>, <<DrdpaInside>>>>
    <2>1. UNCHANGED drdpa \/ Drdpa!Next
      BY DEF Next, vars
    <2> QED
      BY <1>0, <2>1, DrdpaRests, DrdpaNext, DrdpaTurnIsShownNext, DrdpaFitsNext, DrdpaStrayIsKnownNext,
         DrdpaFifo DEF DrdpaLine
  <1>6. kind' = kind
    BY DEF Next, vars
  <1>7. IInv'
    BY <1>1, <1>2, <1>3, <1>4, <1>5, <1>6 DEF IInv
  <1> QED
    BY <1>1, <1>2, <1>3, <1>4, <1>5, <1>7

\* The strengthened invariants of all kinds hold in every state.
LEMMA SpecIInv == Spec => []IInv
  BY InitIInv, NextIInv, PTL DEF Spec

\* The words of a lock of each kind agree with the threads that have it and that wait
\* for it: nobody else is in line or inside, no ticket, link or sleeper is lost, and a
\* polling area is replaced by a thread that knows the one in use.
THEOREM SpecInv == Spec => []Inv
  <1>1. IInv => Inv
    <2> SUFFICES ASSUME IInv PROVE Inv
      OBVIOUS
    <2>1. Tas!Inv /\ Ticket!Inv /\ Futex!Inv /\ Queuing!Inv /\ Drdpa!Inv
      BY TicketCount, QueuingImpliesInv, DrdpaImpliesInv DEF IInv
    <2> QED
      BY <2>1 DEF Inv, IInv
  <1> QED
    BY <1>1, SpecIInv, PTL

\* The release of a DRDPA lock accesses no memory outside a polling area.  An acquire reads
\* none that is freed, and passes the end only of an area that has just replaced a larger
\* one, of which it has the mask: it reads the mask before the pointer, and so is safe from
\* areas that grow.  Only a test, which reads them the other way round, strays otherwise.
THEOREM SpecStrayIsKnown == Spec => []StrayIsKnown
  <1>1. IInv => StrayIsKnown
    BY DEF IInv, StrayIsKnown
  <1> QED
    BY <1>1, SpecIInv, PTL

\* A release of a queuing lock never waits in vain for the link of the second in the
\* queue: if it is not there yet, a thread is about to set it.
THEOREM SpecLinkIsComing == Spec => []Queuing!LinkIsComing
  <1>1. IInv => Queuing!LinkIsComing
    BY LinkComes DEF IInv
  <1> QED
    BY <1>1, SpecIInv, PTL

\* No turn of a DRDPA lock is lost when its polling area is replaced: while nobody has
\* the lock, the area in use shows the next ticket where its mask makes a thread look.
THEOREM SpecTurnIsShown == Spec => []Drdpa!TurnIsShown
  <1>1. IInv => Drdpa!TurnIsShown
    BY DEF IInv
  <1> QED
    BY <1>1, SpecIInv, PTL

\* One thread at a time owns a test-and-set or futex lock, and only it locks it again.
THEOREM SpecImplementsOwned == Spec => ImplementsOwned
  <1>1. Init => Tas!Owned!Init /\ Futex!Owned!Init
    BY NoneAssumption DEF Init, Tas!Init, Futex!Init, Futex!Free, Tas!Owned!Init, Futex!Owned!Init
  <1>2. IInv /\ [Next]_vars => [Tas!Owned!Next]_TasHolds /\ [Futex!Owned!Next]_FutexHolds
    BY NextIInv
  <1>3. Spec => Tas!ImplementsOwned
    BY <1>1, <1>2, SpecIInv, PTL DEF Spec, Tas!ImplementsOwned, Tas!Owned!Spec, TasHolds
  <1>4. Spec => Futex!ImplementsOwned
    BY <1>1, <1>2, SpecIInv, PTL DEF Spec, Futex!ImplementsOwned, Futex!Owned!Spec, FutexHolds
  <1> QED
    BY <1>3, <1>4, PTL DEF ImplementsOwned

\* Ticket, queuing and DRDPA locks serve the threads in the order in which they asked.
THEOREM SpecImplementsFifo == Spec => ImplementsFifo
  <1>1. Init => Ticket!Fifo!Init
    <2> SUFFICES ASSUME Init PROVE <<TicketOrder>> = [l \in {1} |-> << >>] /\ <<TicketInside>> = [l \in {1} |-> FALSE]
      BY DEF Ticket!Fifo!Init, TicketOrder, TicketInside
    <2>1. ticket_next = 0 /\ ticket_serving = 0 /\ TicketInside = FALSE
      BY NoneAssumption DEF Init, Ticket!Init, Ticket!Fresh, Ticket!Inside, TicketInside
    <2>2. TicketOrder = << >>
      BY <2>1, TicketInit, TicketOrderEmpty DEF Init
    <2> QED
      BY <2>1, <2>2, OneLock, Zenon
  <1>2. Init => Queuing!Fifo!Init
    <2> SUFFICES ASSUME Init PROVE QueuingOrder = [l \in Locks |-> << >>] /\ QueuingInside = [l \in Locks |-> FALSE]
      BY DEF Queuing!Fifo!Init, QueuingOrder, QueuingInside
    <2>1. QueuingOrder = [l \in Locks |-> << >>]
      BY DEF Init, Queuing!Init, QueuingOrder
    <2>2. \A l \in Locks, t \in Threads : ~Queuing!Inside(t, l)
      BY NoneAssumption DEF Init, Queuing!Init, Queuing!Inside, Queuing!Releasing
    <2>3. \A l \in Locks : (\E t \in Threads : Queuing!Inside(t, l)) <=> FALSE
      BY <2>2
    <2> QED
      BY <2>1, <2>3, Zenon DEF QueuingInside
  <1>3. Init => Drdpa!Fifo!Init
    <2> SUFFICES ASSUME Init PROVE <<DrdpaOrder>> = [l \in {1} |-> << >>] /\ <<DrdpaInside>> = [l \in {1} |-> FALSE]
      BY DEF Drdpa!Fifo!Init, DrdpaOrder, DrdpaInside
    <2>1. DrdpaInside = FALSE /\ Drdpa!Active = {} /\ next_ticket = 0
      BY NoneAssumption DEF Init, Drdpa!Init, Drdpa!Fresh, Drdpa!Inside, DrdpaInside, Drdpa!Active,
         Drdpa!Holding, Drdpa!Waiting
    <2>2. DrdpaOrder = << >>
      BY <2>1, FS_EmptySet, DrdpaCardinality DEF DrdpaOrder
    <2> QED
      BY <2>1, <2>2, OneLock, Zenon
  <1>4. Spec => Ticket!ImplementsFifo
    BY <1>1, NextIInv, SpecIInv, PTL DEF Spec, Ticket!ImplementsFifo, Ticket!Fifo!Spec, TicketOrder, TicketInside
  <1>5. Spec => Queuing!ImplementsFifo
    BY <1>2, NextIInv, SpecIInv, PTL DEF Spec, Queuing!ImplementsFifo, Queuing!Fifo!Spec, QueuingOrder, QueuingInside
  <1>6. Spec => Drdpa!ImplementsFifo
    BY <1>3, NextIInv, SpecIInv, PTL DEF Spec, Drdpa!ImplementsFifo, Drdpa!Fifo!Spec, DrdpaOrder, DrdpaInside
  <1> QED
    BY <1>4, <1>5, <1>6, PTL DEF ImplementsFifo
==============================================================================
