------------------------ MODULE SharedTimedMutexProof ------------------------
(***************************************************************************)
(* Proofs about SharedTimedMutex for any finite set of threads and any     *)
(* MaxReaders.  Inv is inductive: one lemma per kind of step says that the *)
(* step preserves it, MutualExclusion and ImplementsLock follow.           *)
(***************************************************************************)
EXTENDS SharedTimedMutex, FiniteSetTheorems, TLAPS

\* How the set of shared owners, and with it the count, changes when one thread
\* moves from one location to another.
LEMMA MoveReaders ==
    ASSUME TypeOK, NEW t \in Threads, NEW loc \in Locations,
           pc' = [pc EXCEPT ![t] = loc]
    PROVE  /\ Cardinality(At("read")) \in Nat
           /\ At("read") = {} <=> Cardinality(At("read")) = 0
           /\ (pc[t] # "read" /\ loc # "read") =>
                 Cardinality(At("read"))' = Cardinality(At("read"))
           /\ (pc[t] # "read" /\ loc = "read") =>
                 Cardinality(At("read"))' = Cardinality(At("read")) + 1
           /\ (pc[t] = "read" /\ loc # "read") =>
                 Cardinality(At("read"))' = Cardinality(At("read")) - 1
  <1> DEFINE R == At("read")
  <1>1. IsFiniteSet(R)
    BY ConstantsAssumption, FS_Subset DEF At
  <1>2. Cardinality(R) \in Nat /\ (R = {} <=> Cardinality(R) = 0)
    BY <1>1, FS_CardinalityType, FS_EmptySet
  <1>3. ASSUME pc[t] # "read", loc # "read" PROVE R' = R
    BY <1>3 DEF At, TypeOK
  <1>4. ASSUME pc[t] # "read", loc = "read" PROVE R' = R \cup {t} /\ t \notin R
    BY <1>4 DEF At, TypeOK
  <1>5. ASSUME pc[t] = "read", loc # "read" PROVE R' = R \ {t} /\ t \in R
    BY <1>5 DEF At, TypeOK
  <1>6. Cardinality(R \cup {t}) = IF t \in R THEN Cardinality(R) ELSE Cardinality(R) + 1
    BY <1>1, FS_AddElement
  <1>7. Cardinality(R \ {t}) = IF t \in R THEN Cardinality(R) - 1 ELSE Cardinality(R)
    BY <1>1, FS_RemoveElement
  <1> QED
    BY <1>2, <1>3, <1>4, <1>5, <1>6, <1>7

\* A notification removes waiters and adds none.
LEMMA NotifyShrinks ==
    ASSUME NEW W, NEW V, NotifyOne(W, V)
    PROVE  V \subseteq W
  BY DEF NotifyOne

-----------------------------------------------------------------------------
(* Inv is inductive.                                                       *)

\* The invariant holds at the start.
LEMMA InitInv == Init => Inv
  <1> SUFFICES ASSUME Init PROVE Inv
    OBVIOUS
  <1>1. At("read") = {} /\ At("write") = {}
    BY DEF Init, At
  <1>2. Cardinality(At("read")) = 0
    BY <1>1, FS_EmptySet
  <1>3. TypeOK
    <2>1. readers \in 0 .. MaxReaders
      BY ConstantsAssumption DEF Init
    <2>2. pc \in [Threads -> Locations] /\ call \in [Threads -> Calls \cup {"none"}]
      BY DEF Init, Locations
    <2>3. late \in [Threads -> BOOLEAN]
      BY DEF Init
    <2> QED
      BY <2>1, <2>2, <2>3 DEF Init, TypeOK
  <1> QED
    BY <1>1, <1>2, <1>3 DEF Init, Inv, StateIsAccurate, WriterSleepsOnReaders

\* A step that moves nobody and leaves __state_ alone: a call keeps waiting, a
\* thread wakes up, a deadline passes.
LEMMA StillStep ==
    ASSUME Inv, TypeOK', WriterSleepsOnReaders', UNCHANGED <<entered, readers, pc>>
    PROVE  Inv'
  BY DEF Inv, StateIsAccurate, At

\* A step of t between locations at which it neither owns the mutex nor is past
\* __gate1_.
LEMMA OutsideStep ==
    ASSUME Inv, TypeOK', WriterSleepsOnReaders', NEW t \in Threads, NEW loc \in {"idle", "gate1"},
           pc[t] \in {"idle", "gate1"},
           pc' = [pc EXCEPT ![t] = loc], UNCHANGED <<entered, readers>>
    PROVE  Inv'
  <1>1. Cardinality(At("read"))' = Cardinality(At("read"))
    BY MoveReaders DEF Inv, Locations
  <1>2. \A u \in Threads, l \in {"gate2", "write"} : pc'[u] = l <=> pc[u] = l
    BY DEF Inv, TypeOK
  <1>3. StateIsAccurate'
    BY <1>1, <1>2 DEF Inv, StateIsAccurate
  <1>4. At("write")' # {} => readers' = 0
    BY <1>2 DEF Inv, At
  <1> QED
    BY <1>3, <1>4 DEF Inv

\* A step that sets the write-entered bit: t gets past __gate1_, or loops at
\* __gate2_, and owns the mutex only if there are no readers.
LEMMA EnterStep ==
    ASSUME Inv, TypeOK', WriterSleepsOnReaders', NEW t \in Threads, NEW loc \in {"gate2", "write"},
           pc[t] \in {"idle", "gate1", "gate2"},
           ~entered \/ pc[t] = "gate2",
           loc = "write" => readers = 0,
           entered' = TRUE, readers' = readers,
           pc' = [pc EXCEPT ![t] = loc]
    PROVE  Inv'
  <1>1. Cardinality(At("read"))' = Cardinality(At("read"))
    BY MoveReaders DEF Inv, Locations
  <1>2. \A u \in Threads : u # t => pc[u] \notin {"gate2", "write"}
    BY DEF Inv, StateIsAccurate
  <1>3. \A u \in Threads : pc'[u] = IF u = t THEN loc ELSE pc[u]
    BY DEF Inv, TypeOK
  <1>4. StateIsAccurate'
    BY <1>1, <1>2, <1>3 DEF Inv, StateIsAccurate
  <1>5. At("write")' # {} => readers' = 0
    BY <1>2, <1>3 DEF At
  <1> QED
    BY <1>4, <1>5 DEF Inv

\* A step that clears the bit: unlock, or a timed writer that gives up.
LEMMA LeaveStep ==
    ASSUME Inv, TypeOK', WriterSleepsOnReaders', NEW t \in Threads,
           pc[t] \in {"gate2", "write"},
           entered' = FALSE, readers' = readers,
           pc' = [pc EXCEPT ![t] = "idle"]
    PROVE  Inv'
  <1>1. Cardinality(At("read"))' = Cardinality(At("read"))
    BY MoveReaders DEF Inv, Locations
  <1>2. \A u \in Threads : pc'[u] = IF u = t THEN "idle" ELSE pc[u]
    BY DEF Inv, TypeOK
  <1>3. \A u \in Threads : pc'[u] \notin {"gate2", "write"}
    BY <1>2 DEF Inv, StateIsAccurate
  <1>4. StateIsAccurate'
    BY <1>1, <1>3 DEF Inv, StateIsAccurate
  <1>5. At("write")' = {}
    BY <1>3 DEF At
  <1> QED
    BY <1>4, <1>5 DEF Inv

\* A step that makes t a shared owner.
LEMMA ReaderEnters ==
    ASSUME Inv, TypeOK', WriterSleepsOnReaders', NEW t \in Threads,
           pc[t] \in {"idle", "gate1"}, ~entered,
           entered' = entered, readers' = readers + 1,
           pc' = [pc EXCEPT ![t] = "read"]
    PROVE  Inv'
  <1>1. Cardinality(At("read"))' = Cardinality(At("read")) + 1
    BY MoveReaders DEF Inv, Locations
  <1>2. \A u \in Threads : pc'[u] = IF u = t THEN "read" ELSE pc[u]
    BY DEF Inv, TypeOK
  <1>3. \A u \in Threads : pc'[u] \notin {"gate2", "write"}
    BY <1>2 DEF Inv, StateIsAccurate
  <1>4. StateIsAccurate'
    BY <1>1, <1>3 DEF Inv, StateIsAccurate
  <1>5. At("write")' = {}
    BY <1>3 DEF At
  <1> QED
    BY <1>4, <1>5 DEF Inv

\* A step that ends the shared ownership of t.
LEMMA ReaderLeaves ==
    ASSUME Inv, TypeOK', WriterSleepsOnReaders', NEW t \in Threads,
           pc[t] = "read", entered' = entered, readers' = readers - 1,
           pc' = [pc EXCEPT ![t] = "idle"]
    PROVE  Inv'
  <1>1. Cardinality(At("read"))' = Cardinality(At("read")) - 1
    BY MoveReaders DEF Inv, Locations
  <1>2. \A u \in Threads : pc'[u] = IF u = t THEN "idle" ELSE pc[u]
    BY DEF Inv, TypeOK
  <1>3. StateIsAccurate'
    BY <1>1, <1>2 DEF Inv, StateIsAccurate
  <1>4. At("write") = {}
    <2>1. t \in At("read")
      BY DEF At
    <2>2. readers # 0
      BY <2>1, FS_EmptySet, MoveReaders DEF Inv, StateIsAccurate, Locations
    <2> QED
      BY <2>2 DEF Inv
  <1>5. At("write")' = {}
    BY <1>2, <1>4 DEF At
  <1> QED
    BY <1>3, <1>5 DEF Inv

-----------------------------------------------------------------------------
\* The types after a thread has given up, or gone to wait, at __gate1_.
LEMMA StayType ==
    ASSUME TypeOK, NEW t \in Threads, StayAtGate1(t),
           pc[t] = "gate1", t \notin gate1
    PROVE  TypeOK'
  <1>1. CASE Return(t, "idle") /\ UNCHANGED gate1
    <2>1. pc' \in [Threads -> Locations] /\ call' \in [Threads -> Calls \cup {"none"}]
      BY <1>1 DEF Return, TypeOK, Locations
    <2>2. late' \in [Threads -> BOOLEAN]
      BY <1>1 DEF Return, TypeOK
    <2>3. gate1' \subseteq At("gate1")' /\ gate2' \subseteq At("gate2")'
      BY <1>1 DEF StayAtGate1, Return, TypeOK, At
    <2> QED
      BY <2>1, <2>2, <2>3 DEF StayAtGate1, TypeOK
  <1>2. CASE /\ gate1' = gate1 \cup {t}
             /\ UNCHANGED <<pc, call, late>>
    <2>1. gate1' \subseteq At("gate1")' /\ gate2' \subseteq At("gate2")'
      BY <1>2 DEF StayAtGate1, TypeOK, At
    <2> QED
      BY <1>2, <2>1 DEF StayAtGate1, TypeOK, Locations
  <1> QED
    BY <1>1, <1>2 DEF StayAtGate1

\* The types after a thread has set the write-entered bit.
LEMMA EnterType ==
    ASSUME TypeOK, NEW t \in Threads, EnterWriter(t), t \notin gate1 \cup gate2
    PROVE  TypeOK'
  <1>1. CASE Return(t, "write") /\ UNCHANGED gate2
    <2>1. pc' \in [Threads -> Locations] /\ call' \in [Threads -> Calls \cup {"none"}]
      BY <1>1 DEF Return, TypeOK, Locations
    <2>2. late' \in [Threads -> BOOLEAN]
      BY <1>1 DEF Return, TypeOK
    <2>3. gate1' \subseteq At("gate1")' /\ gate2' \subseteq At("gate2")'
      BY <1>1 DEF EnterWriter, Return, TypeOK, At
    <2> QED
      BY <2>1, <2>2, <2>3 DEF EnterWriter, TypeOK
  <1>2. CASE /\ gate2' = gate2 \cup {t}
             /\ pc' = [pc EXCEPT ![t] = "gate2"]
             /\ UNCHANGED <<call, late>>
    <2>1. gate1' \subseteq At("gate1")' /\ gate2' \subseteq At("gate2")'
      BY <1>2 DEF EnterWriter, TypeOK, At
    <2> QED
      BY <1>2, <2>1 DEF EnterWriter, TypeOK, Locations
  <1> QED
    BY <1>1, <1>2 DEF EnterWriter

\* The types after a timed writer has given up at __gate2_.
LEMMA AbandonType ==
    ASSUME TypeOK, NEW t \in Threads, AbandonEntry(t), t \notin gate1 \cup gate2
    PROVE  TypeOK'
  <1>1. pc' \in [Threads -> Locations] /\ call' \in [Threads -> Calls \cup {"none"}]
    BY DEF AbandonEntry, Return, TypeOK, Locations
  <1>2. late' \in [Threads -> BOOLEAN]
    BY DEF AbandonEntry, Return, TypeOK
  <1>3. gate1' \subseteq At("gate1")' /\ gate2' \subseteq At("gate2")'
    BY DEF AbandonEntry, Return, TypeOK, At
  <1> QED
    BY <1>1, <1>2, <1>3 DEF AbandonEntry, TypeOK

\* The step that keeps the types: each variable is updated within its set, and
\* a thread leaves the set of a gate before, or when, it leaves the gate.
LEMMA NextType == ASSUME Inv, Next PROVE TypeOK'
  <1> PICK t \in Threads :
        \/ Begin(t) \/ TryLock(t) \/ TryLockShared(t)
        \/ DeadlinePasses(t) \/ Wake(t) \/ Progress(t)
    BY DEF Next
  <1> USE DEF Inv
  <1>1. CASE Begin(t)
    <2>1. gate1' \subseteq At("gate1")' /\ gate2' \subseteq At("gate2")'
      BY <1>1 DEF Begin, TypeOK, At
    <2>2. late' \in [Threads -> BOOLEAN]
      BY <1>1 DEF Begin, TypeOK
    <2> QED
      BY <1>1, <2>1, <2>2 DEF Begin, TypeOK, Locations
  <1>2. CASE TryLock(t)
    <2>1. gate1' \subseteq At("gate1")' /\ gate2' \subseteq At("gate2")'
      BY <1>2 DEF TryLock, TypeOK, At
    <2> QED
      BY <1>2, <2>1 DEF TryLock, TypeOK, Locations
  <1>3. CASE TryLockShared(t)
    <2>1. gate1' \subseteq At("gate1")' /\ gate2' \subseteq At("gate2")'
      BY <1>3 DEF TryLockShared, TypeOK, At
    <2>2. readers' \in 0 .. MaxReaders
      BY <1>3, ConstantsAssumption DEF TryLockShared, SharedClosed, TypeOK
    <2> QED
      BY <1>3, <2>1, <2>2 DEF TryLockShared, TypeOK, Locations
  <1>4. CASE DeadlinePasses(t)
    <2>1. gate1' \subseteq At("gate1")' /\ gate2' \subseteq At("gate2")'
      BY <1>4 DEF DeadlinePasses, TypeOK, At
    <2>2. late' \in [Threads -> BOOLEAN]
      BY <1>4 DEF DeadlinePasses, TypeOK
    <2> QED
      BY <1>4, <2>1, <2>2 DEF DeadlinePasses, TypeOK
  <1>5. CASE Wake(t)
    BY <1>5 DEF Wake, TypeOK, At
  <1>6. CASE Unlock(t)
    <2>1. gate1' \subseteq At("gate1")' /\ gate2' \subseteq At("gate2")'
      BY <1>6 DEF Unlock, TypeOK, At
    <2>2. readers' \in 0 .. MaxReaders
      BY <1>6, ConstantsAssumption DEF Unlock
    <2> QED
      BY <1>6, <2>1, <2>2 DEF Unlock, TypeOK, Locations
  <1>7. CASE UnlockShared(t)
    <2>1. gate1' \subseteq gate1 /\ gate2' \subseteq gate2
      BY <1>7, NotifyShrinks DEF UnlockShared
    <2>2. gate1' \subseteq At("gate1")' /\ gate2' \subseteq At("gate2")'
      BY <1>7, <2>1 DEF UnlockShared, TypeOK, At
    <2>3. t \in At("read")
      BY <1>7 DEF UnlockShared, At
    <2>4. readers # 0
      BY <1>7, <2>3, MoveReaders DEF UnlockShared, StateIsAccurate, Locations
    <2>5. readers' \in 0 .. MaxReaders
      BY <1>7, <2>4, ConstantsAssumption DEF UnlockShared, TypeOK
    <2> QED
      BY <1>7, <2>2, <2>5 DEF UnlockShared, TypeOK, Locations
  <1>8. ASSUME StayAtGate1(t), pc[t] = "gate1", t \notin gate1
        PROVE  TypeOK'
    BY <1>8, StayType
  <1>9. ASSUME AwaitReaders(t), t \notin gate1 \cup gate2
        PROVE  TypeOK'
    BY <1>9, EnterType, AbandonType DEF AwaitReaders
  <1>10. t \notin gate1 \/ pc[t] = "gate1"
    BY DEF TypeOK, At
  <1>11. t \notin gate2 \/ pc[t] = "gate2"
    BY DEF TypeOK, At
  <1>12. CASE WriterGate1(t)
    BY <1>8, <1>9, <1>12 DEF WriterGate1, Runs
  <1>13. CASE WriterGate2(t)
    BY <1>9, <1>13 DEF WriterGate2, Runs
  <1>14. CASE ReaderGate1(t)
    <2>1. CASE StayAtGate1(t)
      BY <1>8, <1>14, <2>1 DEF ReaderGate1, Runs
    <2>2. CASE ~SharedClosed
      <3>1. readers' = readers + 1 /\ Return(t, "read") /\ UNCHANGED <<entered, gate1, gate2>>
        BY <1>14, <2>2 DEF ReaderGate1
      <3>2. pc' \in [Threads -> Locations] /\ call' \in [Threads -> Calls \cup {"none"}]
        BY <3>1 DEF Return, TypeOK, Locations
      <3>3. late' \in [Threads -> BOOLEAN]
        BY <3>1 DEF Return, TypeOK
      <3>4. gate1' \subseteq At("gate1")' /\ gate2' \subseteq At("gate2")'
        BY <1>14, <3>1, <1>11 DEF ReaderGate1, Runs, Return, TypeOK, At
      <3>5. readers' \in 0 .. MaxReaders
        BY <2>2, <3>1, ConstantsAssumption DEF SharedClosed, TypeOK
      <3> QED
        BY <3>1, <3>2, <3>3, <3>4, <3>5 DEF TypeOK
    <2> QED
      BY <1>14, <2>1, <2>2 DEF ReaderGate1
  <1>15. CASE TimeoutWake(t)
    BY <1>15, <1>5 DEF TimeoutWake
  <1> QED
    BY <1>1, <1>2, <1>3, <1>4, <1>5, <1>6, <1>7, <1>12, <1>13, <1>14, <1>15 DEF Progress

\* A writer that sleeps at __gate2_ is woken when the last reader leaves.
LEMMA NextSleeps == ASSUME Inv, Next PROVE WriterSleepsOnReaders'
  <1> PICK t \in Threads :
        \/ Begin(t) \/ TryLock(t) \/ TryLockShared(t)
        \/ DeadlinePasses(t) \/ Wake(t) \/ Progress(t)
    BY DEF Next
  <1> USE DEF WriterSleepsOnReaders
  <1>1. /\ WriterSleepsOnReaders /\ readers \in 0 .. MaxReaders /\ gate2 \subseteq At("gate2")
        /\ \A u \in gate2 : entered
        /\ \A u, v \in gate2 : u = v
    BY DEF Inv, TypeOK, StateIsAccurate, At
  <1>2. CASE UNCHANGED <<readers, gate2>>
    BY <1>1, <1>2
  <1>3. CASE gate2' = gate2 /\ readers' = readers + 1
    BY <1>1, <1>3, ConstantsAssumption
  <1>4. CASE Wake(t) \/ TimeoutWake(t)
    BY <1>1, <1>4 DEF Wake, TimeoutWake
  <1>5. CASE EnterWriter(t)
    BY <1>1, <1>5 DEF EnterWriter
  <1>6. CASE Unlock(t)
    <2>1. \A u \in Threads : pc[u] # "gate2"
      BY <1>6 DEF Unlock, Inv, StateIsAccurate
    <2>2. gate2' = {}
      BY <1>1, <1>6, <2>1 DEF Unlock, At
    <2> QED
      BY <2>2
  <1>7. CASE UnlockShared(t)
    <2>1. CASE entered /\ readers' = 0
      <3>1. NotifyOne(gate2, gate2')
        BY <1>7, <2>1 DEF UnlockShared
      <3>2. gate2' = {}
        BY <1>1, <3>1 DEF NotifyOne
      <3> QED
        BY <3>2
    <2>2. CASE ~entered
      BY <1>1, <1>7, <2>2 DEF UnlockShared
    <2> QED
      BY <2>1, <2>2
  <1>8. CASE Begin(t) \/ TryLock(t) \/ DeadlinePasses(t)
    BY <1>2, <1>8 DEF Begin, TryLock, DeadlinePasses
  <1>9. CASE TryLockShared(t)
    BY <1>3, <1>9 DEF TryLockShared
  <1>10. CASE WriterGate1(t) \/ WriterGate2(t)
    BY <1>2, <1>5, <1>10 DEF WriterGate1, WriterGate2, StayAtGate1, AwaitReaders, AbandonEntry
  <1>11. CASE ReaderGate1(t)
    BY <1>2, <1>3, <1>11 DEF ReaderGate1, StayAtGate1
  <1> QED
    BY <1>4, <1>6, <1>7, <1>8, <1>9, <1>10, <1>11 DEF Progress

\* One lemma per kind of step makes Inv inductive.
LEMMA NextInv == ASSUME Inv, [Next]_vars PROVE Inv'
  <1>1. CASE UNCHANGED vars
    BY <1>1 DEF vars, Inv, TypeOK, StateIsAccurate, At, WriterSleepsOnReaders
  <1>2. CASE Next
    <2>1. TypeOK' /\ WriterSleepsOnReaders'
      BY <1>2, NextType, NextSleeps
    <2> PICK t \in Threads :
          \/ Begin(t) \/ TryLock(t) \/ TryLockShared(t)
          \/ DeadlinePasses(t) \/ Wake(t) \/ Progress(t)
      BY <1>2 DEF Next
    <2>2. CASE Begin(t)
      BY <2>1, <2>2, OutsideStep DEF Begin
    <2>3. CASE TryLock(t)
      BY <2>1, <2>3, EnterStep DEF TryLock
    <2>4. CASE TryLockShared(t)
      BY <2>1, <2>4, ReaderEnters DEF TryLockShared, SharedClosed
    <2>5. CASE DeadlinePasses(t)
      BY <2>1, <2>5, StillStep DEF DeadlinePasses
    <2>6. CASE Wake(t) \/ TimeoutWake(t)
      BY <2>1, <2>6, StillStep DEF TimeoutWake, Wake
    <2>7. ASSUME StayAtGate1(t), pc[t] = "gate1"
          PROVE  Inv'
      <3>1. CASE UNCHANGED pc
        BY <2>1, <2>7, <3>1, StillStep DEF StayAtGate1
      <3>2. CASE Return(t, "idle")
        BY <2>1, <2>7, <3>2, OutsideStep DEF StayAtGate1, Return
      <3> QED
        BY <2>7, <3>1, <3>2 DEF StayAtGate1
    <2>8. ASSUME AwaitReaders(t), pc[t] \in {"gate1", "gate2"}, ~entered \/ pc[t] = "gate2"
          PROVE  Inv'
      <3>1. CASE EnterWriter(t)
        BY <2>1, <2>8, <3>1, EnterStep DEF EnterWriter, Return
      <3>2. CASE AbandonEntry(t) /\ pc[t] = "gate2"
        BY <2>1, <3>2, LeaveStep DEF AbandonEntry, Return
      <3>3. CASE AbandonEntry(t) /\ pc[t] = "gate1"
        BY <2>1, <2>8, <3>3, OutsideStep DEF AbandonEntry, Return, Inv, TypeOK
      <3> QED
        BY <2>8, <3>1, <3>2, <3>3 DEF AwaitReaders
    <2>9. CASE WriterGate1(t)
      BY <2>7, <2>8, <2>9 DEF WriterGate1, Runs
    <2>10. CASE WriterGate2(t)
      BY <2>8, <2>10 DEF WriterGate2, Runs
    <2>11. CASE Unlock(t)
      <3>1. readers = 0
        BY <2>11 DEF Unlock, Inv, At
      <3> QED
        BY <2>1, <2>11, <3>1, LeaveStep DEF Unlock
    <2>12. CASE ReaderGate1(t)
      <3>1. CASE StayAtGate1(t)
        BY <2>7, <2>12, <3>1 DEF ReaderGate1, Runs
      <3>2. CASE ~SharedClosed
        BY <2>1, <2>12, <3>2, ReaderEnters DEF ReaderGate1, Runs, SharedClosed, Return
      <3> QED
        BY <2>12, <3>1, <3>2 DEF ReaderGate1
    <2>13. CASE UnlockShared(t)
      BY <2>1, <2>13, ReaderLeaves DEF UnlockShared
    <2> QED
      BY <2>2, <2>3, <2>4, <2>5, <2>6, <2>9, <2>10, <2>11, <2>12, <2>13 DEF Progress
  <1> QED
    BY <1>1, <1>2

-----------------------------------------------------------------------------
(* Theorems.                                                               *)

\* For any number of threads and any limit on the readers: __state_ always has
\* its type, counts the shared owners exactly and has its bit set exactly while
\* one writer is past __gate1_ (shared_timed_mutex, all member functions).
THEOREM SpecInv == Spec => []Inv
  BY InitInv, NextInv, PTL DEF Spec

\* An exclusive owner is the only owner (lock, try_lock_until, lock_shared).
THEOREM SpecMutualExclusion == Spec => []MutualExclusion
  <1>1. Inv => MutualExclusion
    <2> SUFFICES ASSUME Inv, NEW t \in Threads, NEW u \in Threads, t # u, pc[t] = "write"
                 PROVE  pc[u] \notin {"read", "write"}
      BY DEF MutualExclusion
    <2>1. pc[u] # "write"
      BY DEF Inv, StateIsAccurate
    <2>2. t \in At("write")
      BY DEF At
    <2>3. Cardinality(At("read")) = 0
      BY <2>2 DEF Inv, StateIsAccurate
    <2>4. At("read") = {}
      BY <2>3, ConstantsAssumption, FS_Subset, FS_EmptySet DEF At
    <2> QED
      BY <2>1, <2>4 DEF At
  <1> QED
    BY <1>1, SpecInv, PTL

\* The count and the bit in __state_ agree with what the threads own.
THEOREM SpecStateIsAccurate == Spec => []StateIsAccurate
  <1>1. Inv => StateIsAccurate
    BY DEF Inv
  <1> QED
    BY <1>1, SpecInv, PTL

\* While the write-entered bit stays set nobody becomes a shared owner: readers
\* that keep coming cannot starve a writer (lock_shared, try_lock_shared).
THEOREM SpecNoOvertaking == Spec => NoOvertaking
  <1>1. ASSUME Inv, [Next]_vars
        PROVE  [entered /\ entered' => \A t \in Threads : pc'[t] = "read" => pc[t] = "read"]_vars
    <2> SUFFICES ASSUME Next, entered, entered', NEW u \in Threads, pc'[u] = "read"
                 PROVE  pc[u] = "read"
      BY <1>1
    <2> USE DEF Inv, TypeOK
    <2> PICK t \in Threads :
          \/ Begin(t) \/ TryLock(t) \/ TryLockShared(t)
          \/ DeadlinePasses(t) \/ Wake(t) \/ Progress(t)
      BY DEF Next
    <2>1. CASE Begin(t)
      BY <2>1 DEF Begin
    <2>2. CASE TryLock(t)
      BY <2>2 DEF TryLock
    <2>3. CASE TryLockShared(t)
      BY <2>3 DEF TryLockShared, SharedClosed
    <2>4. CASE DeadlinePasses(t) \/ Wake(t) \/ TimeoutWake(t)
      BY <2>4 DEF DeadlinePasses, TimeoutWake, Wake
    <2>a. ASSUME NEW loc \in Locations \ {"read"}, pc' = [pc EXCEPT ![t] = loc]
          PROVE  pc[u] = "read"
      BY <2>a
    <2>b. ASSUME StayAtGate1(t)
          PROVE  pc[u] = "read"
      BY <2>b, <2>a DEF StayAtGate1, Return, Locations
    <2>c. CASE AwaitReaders(t)
      BY <2>c, <2>a DEF AwaitReaders, AbandonEntry, EnterWriter, Return, Locations
    <2>5. CASE WriterGate1(t) \/ WriterGate2(t)
      BY <2>5, <2>b, <2>c DEF WriterGate1, WriterGate2
    <2>7. CASE ReaderGate1(t)
      BY <2>7, <2>b DEF ReaderGate1, SharedClosed
    <2>8. CASE Unlock(t)
      BY <2>8 DEF Unlock
    <2>9. CASE UnlockShared(t)
      BY <2>9 DEF UnlockShared
    <2> QED
      BY <2>1, <2>2, <2>3, <2>4, <2>5, <2>7, <2>8, <2>9 DEF Progress
  <1> QED
    BY <1>1, SpecInv, PTL DEF Spec, NoOvertaking

-----------------------------------------------------------------------------
(* The refinement: a step of the mutex is a step of the abstract lock by    *)
(* the thread that moves, or leaves every thread's hold as it is.           *)

Mode(loc) == CASE loc = "write" -> "exclusive" [] loc = "read" -> "shared" [] OTHER -> "none"

\* How Holds changes when one thread moves.
LEMMA HoldsMoves ==
    ASSUME TypeOK, NEW t \in Threads, NEW loc \in Locations,
           pc' = [pc EXCEPT ![t] = loc]
    PROVE  Holds' = [Holds EXCEPT ![t] = Mode(loc)]
  <1>1. \A u \in Threads : pc'[u] = IF u = t THEN loc ELSE pc[u]
    BY DEF TypeOK
  <1> QED
    BY <1>1 DEF Holds, Mode

\* A thread that moves between places without the mutex changes nothing for the abstract lock.
LEMMA HoldsUnmoved ==
    ASSUME TypeOK, NEW t \in Threads, NEW loc \in Locations,
           pc' = [pc EXCEPT ![t] = loc], Mode(loc) = "none", Mode(pc[t]) = "none"
    PROVE  Holds' = Holds
  <1>1. Holds' = [Holds EXCEPT ![t] = Mode(loc)]
    BY HoldsMoves
  <1>2. Holds[t] = "none"
    BY DEF Holds, Mode
  <1> QED
    BY <1>1, <1>2 DEF Holds

\* A thread that gets to "write" acquires the abstract lock exclusively.
LEMMA BecomesWriter ==
    ASSUME Inv, NEW t \in Threads, pc[t] \notin {"read", "write"},
           ~entered \/ pc[t] = "gate2", readers = 0,
           pc' = [pc EXCEPT ![t] = "write"]
    PROVE  RWLock!AcquireExclusive(t)
  <1>1. \A u \in Threads : pc[u] # "write"
    BY DEF Inv, StateIsAccurate
  <1>2. \A u \in Threads : pc[u] # "read"
    <2>1. At("read") = {}
      BY ConstantsAssumption, FS_Subset, FS_EmptySet DEF At, Inv, StateIsAccurate
    <2> QED
      BY <2>1 DEF At
  <1>3. RWLock!Holders("none") = Threads
    BY <1>1, <1>2 DEF RWLock!Holders, Holds
  <1>4. Holds' = [Holds EXCEPT ![t] = "exclusive"]
    BY HoldsMoves DEF Inv, Mode, Locations
  <1> QED
    BY <1>3, <1>4 DEF RWLock!AcquireExclusive

\* A thread that gets to "read" acquires the abstract lock shared.
LEMMA BecomesReader ==
    ASSUME Inv, NEW t \in Threads, pc[t] \notin {"read", "write"}, ~SharedClosed,
           pc' = [pc EXCEPT ![t] = "read"]
    PROVE  RWLock!AcquireShared(t)
  <1>1. \A u \in Threads : pc[u] # "write"
    BY DEF Inv, StateIsAccurate, SharedClosed
  <1>2. RWLock!Holders("exclusive") = {}
    BY <1>1 DEF RWLock!Holders, Holds
  <1>3. RWLock!Holders("shared") = At("read")
    BY DEF RWLock!Holders, Holds, At
  <1>4. Cardinality(RWLock!Holders("shared")) < MaxReaders
    BY <1>3, ConstantsAssumption DEF Inv, TypeOK, StateIsAccurate, SharedClosed
  <1>5. Holds' = [Holds EXCEPT ![t] = "shared"]
    BY HoldsMoves DEF Inv, Mode, Locations
  <1>6. Holds[t] = "none"
    BY DEF Holds
  <1> QED
    BY <1>2, <1>4, <1>5, <1>6 DEF RWLock!AcquireShared, RWLock!Cardinality, Cardinality

\* An owner that unlocks releases the abstract lock.
LEMMA Releases ==
    ASSUME Inv, NEW t \in Threads, pc[t] \in {"read", "write"},
           pc' = [pc EXCEPT ![t] = "idle"]
    PROVE  RWLock!Release(t)
  <1>1. Holds' = [Holds EXCEPT ![t] = "none"]
    BY HoldsMoves DEF Inv, Mode, Locations
  <1>2. Holds[t] # "none"
    BY DEF Holds
  <1> QED
    BY <1>1, <1>2 DEF RWLock!Release

\* Timeouts, retries, spurious wakeups and the gates are invisible: the mutex is
\* a lock held by one writer or by at most MaxReaders readers.
THEOREM SpecImplementsLock == Spec => ImplementsLock
  <1>1. Init => RWLock!Init
    BY DEF Init, RWLock!Init, Holds
  <1>2. ASSUME Inv, [Next]_vars PROVE [RWLock!Next]_Holds
    <2>1. CASE UNCHANGED pc
      BY <2>1 DEF Holds
    <2> SUFFICES ASSUME Next PROVE RWLock!Next \/ UNCHANGED Holds
      BY <1>2, <2>1 DEF vars
    <2> PICK t \in Threads :
          \/ Begin(t) \/ TryLock(t) \/ TryLockShared(t)
          \/ DeadlinePasses(t) \/ Wake(t) \/ Progress(t)
      BY DEF Next
    <2> USE <1>2
    <2>2. CASE DeadlinePasses(t) \/ Wake(t) \/ TimeoutWake(t)
      BY <2>1, <2>2 DEF DeadlinePasses, TimeoutWake, Wake
    <2>3. ASSUME NEW loc \in {"idle", "gate1", "gate2"},
                 pc[t] \in {"idle", "gate1", "gate2"},
                 pc' = [pc EXCEPT ![t] = loc]
          PROVE  Holds' = Holds
      BY <2>3, HoldsUnmoved DEF Inv, Mode, Locations
    <2>4. CASE Begin(t)
      BY <2>3, <2>4 DEF Begin
    <2>5. CASE TryLock(t)
      BY <2>5, BecomesWriter DEF TryLock, RWLock!Next
    <2>6. CASE TryLockShared(t)
      BY <2>6, BecomesReader DEF TryLockShared, RWLock!Next
    <2>7. CASE Unlock(t) \/ UnlockShared(t)
      BY <2>7, Releases DEF Unlock, UnlockShared, RWLock!Next
    <2>8. ASSUME StayAtGate1(t), pc[t] = "gate1"
          PROVE  Holds' = Holds
      BY <2>1, <2>3, <2>8 DEF StayAtGate1, Return, Holds
    <2>9. ASSUME AwaitReaders(t), pc[t] \in {"gate1", "gate2"},
                 ~entered \/ pc[t] = "gate2"
          PROVE  RWLock!Next \/ Holds' = Holds
      <3>1. CASE EnterWriter(t) /\ readers = 0
        BY <2>9, <3>1, BecomesWriter DEF EnterWriter, Return, RWLock!Next
      <3>2. CASE EnterWriter(t) /\ readers # 0
        BY <2>3, <2>9, <3>2 DEF EnterWriter
      <3>3. CASE AbandonEntry(t)
        BY <2>3, <2>9, <3>3 DEF AbandonEntry, Return
      <3> QED
        BY <2>9, <3>1, <3>2, <3>3 DEF AwaitReaders
    <2>10. CASE WriterGate1(t)
      BY <2>8, <2>9, <2>10 DEF WriterGate1, Runs
    <2>11. CASE WriterGate2(t)
      BY <2>9, <2>11 DEF WriterGate2, Runs
    <2>12. CASE ReaderGate1(t)
      <3>1. CASE SharedClosed
        BY <2>8, <2>12, <3>1 DEF ReaderGate1, Runs
      <3>2. CASE ~SharedClosed
        BY <2>12, <3>2, BecomesReader DEF ReaderGate1, Runs, Return, RWLock!Next
      <3> QED
        BY <3>1, <3>2
    <2> QED
      BY <2>2, <2>4, <2>5, <2>6, <2>7, <2>10, <2>11, <2>12 DEF Progress
  <1> QED
    BY <1>1, <1>2, SpecInv, PTL DEF Spec, ImplementsLock, RWLock!Spec

-----------------------------------------------------------------------------
(* When no sleeper of __gate1_ is forgotten.                               *)

\* Without timed writers threads sleep at __gate1_ only while the bit is set, if the
\* count cannot reach its maximum with a thread left over.
Gate1IsClosed ==
    /\ gate1 # {} => entered
    /\ \A t \in Threads : pc[t] = "gate2" => call[t] \in ExclusiveCalls

\* Every step keeps it so.
LEMMA NextClosed ==
    ASSUME "try_lock_until" \notin Calls, Cardinality(Threads) <= MaxReaders,
           Inv, Gate1IsClosed, [Next]_vars
    PROVE  Gate1IsClosed'
  <1>1. TypeOK /\ call \in [Threads -> Calls \cup {"none"}] /\ pc \in [Threads -> Locations]
    BY DEF Inv, TypeOK
  <1>2. \A t \in Threads : call[t] \in ExclusiveCalls => ~TimedOut(t)
    BY <1>1 DEF TimedOut, TimedCalls, ExclusiveCalls
  <1> USE DEF Gate1IsClosed
  <1>3. CASE UNCHANGED vars
    BY <1>3 DEF vars
  <1> SUFFICES ASSUME Next PROVE Gate1IsClosed'
    BY <1>3
  <1> PICK t \in Threads :
        \/ Begin(t) \/ TryLock(t) \/ TryLockShared(t)
        \/ DeadlinePasses(t) \/ Wake(t) \/ Progress(t)
    BY DEF Next
  <1>4. CASE Begin(t) \/ TryLock(t) \/ TryLockShared(t) \/ DeadlinePasses(t)
    BY <1>1, <1>4 DEF Begin, TryLock, TryLockShared, DeadlinePasses
  <1>5. CASE Wake(t) \/ TimeoutWake(t)
    BY <1>5 DEF Wake, TimeoutWake
  <1>6. ASSUME AwaitReaders(t), call[t] \in ExclusiveCalls PROVE Gate1IsClosed'
    <2>1. EnterWriter(t)
      BY <1>2, <1>6 DEF AwaitReaders
    <2>2. CASE Return(t, "write")
      BY <1>1, <2>1, <2>2 DEF EnterWriter, Return
    <2>3. CASE pc' = [pc EXCEPT ![t] = "gate2"] /\ UNCHANGED call
      BY <1>1, <1>6, <2>1, <2>3 DEF EnterWriter
    <2> QED
      BY <2>1, <2>2, <2>3 DEF EnterWriter
  <1>7. ASSUME StayAtGate1(t), entered, pc[t] = "gate1" PROVE Gate1IsClosed'
    BY <1>1, <1>7 DEF StayAtGate1, Return
  <1>8. CASE WriterGate1(t)
    BY <1>6, <1>7, <1>8 DEF WriterGate1, Runs
  <1>9. CASE WriterGate2(t)
    BY <1>6, <1>9 DEF WriterGate2, Runs
  <1>10. CASE ReaderGate1(t)
    <2>1. CASE entered
      BY <1>7, <1>10, <2>1 DEF ReaderGate1, Runs, SharedClosed
    <2>2. CASE ~entered
      <3>1. t \in Threads \ At("read") /\ At("read") \subseteq Threads
        BY <1>10 DEF ReaderGate1, Runs, At
      <3>2. Cardinality(At("read")) < Cardinality(Threads)
        <4>1. /\ Cardinality(At("read")) <= Cardinality(Threads)
              /\ Cardinality(At("read")) = Cardinality(Threads) => At("read") = Threads
          BY <3>1, ConstantsAssumption, FS_Subset
        <4>2. Cardinality(At("read")) \in Nat /\ Cardinality(Threads) \in Nat
          BY <3>1, ConstantsAssumption, FS_Subset, FS_CardinalityType
        <4> QED
          BY <3>1, <4>1, <4>2
      <3>3. ~SharedClosed
        <4>1. Cardinality(At("read")) \in Nat /\ Cardinality(Threads) \in Nat
          BY <3>1, ConstantsAssumption, FS_Subset, FS_CardinalityType
        <4>2. readers = Cardinality(At("read")) /\ MaxReaders \in Nat
          BY ConstantsAssumption DEF Inv, StateIsAccurate
        <4> QED
          BY <2>2, <3>2, <4>1, <4>2 DEF SharedClosed
      <3> QED
        BY <1>1, <1>10, <3>3 DEF ReaderGate1, Return
    <2> QED
      BY <2>1, <2>2
  <1>11. CASE Unlock(t)
    BY <1>1, <1>11 DEF Unlock
  <1>12. CASE UnlockShared(t)
    <2>1. gate1' \subseteq gate1
      BY <1>12, NotifyShrinks DEF UnlockShared
    <2> QED
      BY <1>1, <1>12, <2>1 DEF UnlockShared
  <1> QED
    BY <1>4, <1>5, <1>8, <1>9, <1>10, <1>11, <1>12 DEF Progress

\* A writer asleep at __gate2_ waits for readers that are there (unlock_shared).
THEOREM SpecWriterSleepsOnReaders == Spec => []WriterSleepsOnReaders
  <1>1. Inv => WriterSleepsOnReaders
    BY DEF Inv
  <1> QED
    BY <1>1, SpecInv, PTL

\* No sleeper of __gate1_ is forgotten where no thread calls try_lock_until and there
\* are no more threads than readers that the count can hold: these two are the only
\* ways into the states in which all sleep on a free mutex (lock, lock_shared).
THEOREM SpecNoSleeperOnFreeMutex ==
    ASSUME "try_lock_until" \notin Calls, Cardinality(Threads) <= MaxReaders
    PROVE  Spec => []NoSleeperOnFreeMutex
  <1>1. Init => Gate1IsClosed
    BY DEF Init, Gate1IsClosed
  <1>2. Inv /\ Gate1IsClosed /\ [Next]_vars => Gate1IsClosed'
    BY NextClosed
  <1>3. Gate1IsClosed => NoSleeperOnFreeMutex
    BY DEF Gate1IsClosed, NoSleeperOnFreeMutex
  <1> QED
    BY <1>1, <1>2, <1>3, SpecInv, PTL DEF Spec
=============================================================================
