------------------------- MODULE LockFileManagerProof -------------------------
(***************************************************************************)
(* Proofs about LockFileManager for any set of processes and machines, any *)
(* limits of the waits and any calls that may fail.  Inv is inductive: for *)
(* each step, first the types, then what the step does to the lock file    *)
(* and to the file of its process.                                         *)
(***************************************************************************)
EXTENDS LockFileManager, TLAPS

\* The invariant holds at the start.
LEMMA InitInv == Init => Inv
  BY ConstantsAssumption
  DEF Init, Inv, TypeOK, LockHasOwner, NoLiveOwnerTakenForDead, LeavesNoFile, NeverWaitsForItself,
      FileInPlace, Locations, Waiting, Holding

\* A wait that goes on keeps its interval below the limit.
LEMMA LengthenKeepsBound ==
    ASSUME Inv, NEW p \in Procs, Lengthen(p), pc[p] \in Waiting
    PROVE  /\ interval' \in [Procs -> 1 .. 2 * WaitLimit]
           /\ pc' \in [Procs -> Locations]
           /\ pc'[p] # "loadShared" => interval'[p] < limit[p]
           /\ pc'[p] \in {"sleep", "loadShared"}
           /\ \A q \in Procs \ {p} : interval'[q] = interval[q] /\ pc'[q] = pc[q]
  <1>1. interval[p] < limit[p] /\ limit[p] <= WaitLimit /\ interval[p] \in Nat \ {0}
    BY ConstantsAssumption DEF Inv, TypeOK, Waiting
  <1>2. WaitLimit \in Nat /\ limit[p] \in Nat
    BY ConstantsAssumption DEF Inv, TypeOK
  <1>3. 2 * interval[p] \in 1 .. 2 * WaitLimit
    BY <1>1, <1>2
  <1> QED
    BY <1>2, <1>3 DEF Lengthen, Go, Inv, TypeOK, Locations, Waiting, Holding

\* A wait that ends leaves its variables as they were before it.
LEMMA EndWaitType ==
    ASSUME TypeOK, NEW p \in Procs, EndWait(p)
    PROVE  /\ interval' \in [Procs -> 1 .. 2 * WaitLimit]
           /\ limit' \in [Procs -> {WaitLimit, GoneLimit}]
           /\ gone' \in [Procs -> BOOLEAN]
           /\ owner' \in [Procs -> Procs \cup {Nobody}]
  <1>1. gone' \in [Procs -> BOOLEAN]
    BY DEF EndWait, TypeOK
  <1>2. owner' \in [Procs -> Procs \cup {Nobody}]
    BY DEF EndWait, TypeOK
  <1> QED
    BY <1>1, <1>2, ConstantsAssumption DEF EndWait, TypeOK

\* A constructor that gives up.
LEMMA FailType ==
    ASSUME TypeOK, NEW p \in Procs, Fail(p)
    PROVE  /\ pc' \in [Procs -> Locations]
           /\ error' \in [Procs -> BOOLEAN]
  <1>1. error' \in [Procs -> BOOLEAN]
    BY DEF Fail, TypeOK
  <1>2. pc' \in [Procs -> Locations]
    BY DEF Fail, Go, TypeOK, Locations
  <1> QED
    BY <1>1, <1>2

\* The steps keep the types.
LEMMA NextType == ASSUME Inv, Next PROVE TypeOK'
  <1>1. ASSUME NEW p \in Procs, Read(p) PROVE TypeOK'
    BY <1>1 DEF Read, LockExists, Inv, TypeOK, Locations, Waiting, Holding, Go, Fail, files, waiting, EndWait
  <1>2. ASSUME NEW p \in Procs, Judge(p) PROVE TypeOK'
    BY <1>2, ConstantsAssumption DEF Judge, Inv, TypeOK, Locations, Holding, Waiting, Go, Fail, files, waiting
  <1>3. ASSUME NEW p \in Procs, Discard(p) PROVE TypeOK'
    BY <1>3, ConstantsAssumption DEF Discard, Inv, TypeOK, Locations, Holding, Waiting, Go, Fail, files, waiting
  <1>4. ASSUME NEW p \in Procs, CreateUnique(p) PROVE TypeOK'
    <2>1. CASE Fail(p) /\ UNCHANGED unique
      BY <1>4, <2>1, FailType DEF CreateUnique, Inv, TypeOK, waiting
    <2>2. CASE ~(Fail(p) /\ UNCHANGED unique)
      BY <1>4, <2>2 DEF CreateUnique, Inv, TypeOK, Locations, Go, waiting
    <2> QED
      BY <2>1, <2>2
  <1>5. ASSUME NEW p \in Procs, WriteUnique(p) PROVE TypeOK'
    BY <1>5, ConstantsAssumption DEF WriteUnique, Inv, TypeOK, Locations, Holding, Waiting, Go, Fail, files, waiting
  <1>6. ASSUME NEW p \in Procs, DropUnwritten(p) PROVE TypeOK'
    BY <1>6, ConstantsAssumption DEF DropUnwritten, RemoveUnique, Inv, TypeOK, Locations, Holding, Waiting, Go, Fail, files, waiting
  <1>7. ASSUME NEW p \in Procs, CreateLink(p) PROVE TypeOK'
    <2>1. CASE Fail(p) /\ UNCHANGED lock
      BY <1>7, <2>1, FailType DEF CreateLink, Inv, TypeOK, waiting
    <2>2. CASE lock' = p /\ Go(p, "build") /\ UNCHANGED error
      BY <1>7, <2>2 DEF CreateLink, Inv, TypeOK, Locations, Holding, Go, waiting
    <2>3. CASE Go(p, "linkFailed") /\ UNCHANGED <<lock, error>>
      BY <1>7, <2>3 DEF CreateLink, Inv, TypeOK, Locations, Go, waiting
    <2> QED
      BY <1>7, <2>1, <2>2, <2>3 DEF CreateLink
  <1>8. ASSUME NEW p \in Procs, DropUnique(p) PROVE TypeOK'
    BY <1>8, ConstantsAssumption DEF DropUnique, RemoveUnique, Inv, TypeOK, Locations, Holding, Waiting, Go, Fail, files, waiting
  <1>9. ASSUME NEW p \in Procs, CheckLock(p) PROVE TypeOK'
    BY <1>9, ConstantsAssumption DEF CheckLock, Inv, TypeOK, Locations, Holding, Waiting, Go, Fail, files, waiting
  <1>10. ASSUME NEW p \in Procs, CleanLock(p) PROVE TypeOK'
    <2>1. CASE Fail(p) /\ UNCHANGED lock
      BY <1>10, <2>1, FailType DEF CleanLock, Inv, TypeOK, waiting
    <2>2. CASE ~(Fail(p) /\ UNCHANGED lock)
      BY <1>10, <2>2 DEF CleanLock, Inv, TypeOK, Locations, Go, waiting
    <2> QED
      BY <2>1, <2>2
  <1>11. ASSUME NEW p \in Procs, MakeAbsoluteFails(p) PROVE TypeOK'
    BY <1>11, ConstantsAssumption DEF MakeAbsoluteFails, Inv, TypeOK, Locations, Holding, Waiting, Go, Fail, files, waiting
  <1>12. ASSUME NEW p \in Procs, Access(p) PROVE TypeOK'
    <2>1. gone' \in [Procs -> BOOLEAN]
      BY <1>12 DEF Access, Inv, TypeOK
    <2>2. pc' \in [Procs -> Locations]
      BY <1>12 DEF Access, Go, Inv, TypeOK, Locations, Waiting
    <2> QED
      BY <1>12, <2>1, <2>2 DEF Access, Inv, TypeOK, files
  <1>13. ASSUME NEW p \in Procs, CheckFile(p) PROVE TypeOK'
    BY <1>13, ConstantsAssumption DEF CheckFile, Inv, TypeOK, Locations, Holding, Waiting, Go, Fail, files, waiting
  <1>14. ASSUME NEW p \in Procs, RecheckFile(p) PROVE TypeOK'
    <2>1. CASE Lengthen(p)
      BY <1>14, <2>1, LengthenKeepsBound DEF RecheckFile, Inv, TypeOK, Waiting, files, waiting
    <2>2. CASE ~Lengthen(p)
      BY <1>14, <2>2, ConstantsAssumption DEF RecheckFile, Inv, TypeOK, Locations, Holding, Waiting, Go, Fail, files, waiting
    <2> QED
      BY <2>1, <2>2
  <1>15. ASSUME NEW p \in Procs, CheckOwner(p) PROVE TypeOK'
    <2>1. CASE processStillExecuting(p, owner[p])
      BY <1>15, <2>1, LengthenKeepsBound DEF CheckOwner, Inv, TypeOK, Waiting, files
    <2>2. CASE ~processStillExecuting(p, owner[p])
      <3>1. Go(p, "start") /\ EndWait(p) /\ UNCHANGED <<files, tries, seen, error>>
        BY <1>15, <2>2 DEF CheckOwner
      <3> QED
        BY <3>1, EndWaitType DEF Go, Inv, TypeOK, Locations, files
    <2> QED
      BY <2>1, <2>2
  <1>16. ASSUME NEW p \in Procs, Build(p) PROVE TypeOK'
    BY <1>16, ConstantsAssumption DEF Build, Inv, TypeOK, Locations, Holding, Waiting, Go, Fail, files, waiting
  <1>17. ASSUME NEW p \in Procs, Load(p) PROVE TypeOK'
    BY <1>17, ConstantsAssumption DEF Load, Inv, TypeOK, Locations, Holding, Waiting, Go, Fail, files, waiting
  <1>18. ASSUME NEW p \in Procs, Unlock(p) PROVE TypeOK'
    BY <1>18, ConstantsAssumption DEF Unlock, Inv, TypeOK, Locations, Holding, Waiting, Go, Fail, files, waiting
  <1>19. ASSUME NEW p \in Procs, Unlink(p) PROVE TypeOK'
    BY <1>19, ConstantsAssumption DEF Unlink, RemoveUnique, Inv, TypeOK, Locations, Holding, Waiting, Go, Fail, files, waiting
  <1>20. ASSUME NEW p \in Procs, LoadShared(p) PROVE TypeOK'
    BY <1>20, EndWaitType DEF LoadShared, Inv, TypeOK, Locations, Go, files
  <1>21. ASSUME NEW p \in Procs, Die(p) PROVE TypeOK'
    BY <1>21, EndWaitType DEF Die, Inv, TypeOK, Locations, Go
  <1> QED
    BY <1>1, <1>2, <1>3, <1>4, <1>5, <1>6, <1>7, <1>8, <1>9, <1>10, <1>11, <1>12, <1>13, <1>14, <1>15, <1>16, <1>17, <1>18, <1>19, <1>20, <1>21 DEF Next, Step, Crash, Exit

\* A step on which the wait of p goes on: it touches no file.
LEMMA LengthenStep ==
    ASSUME Inv, TypeOK', NEW p \in Procs, pc[p] \in Waiting, Lengthen(p),
           UNCHANGED <<files, tries, seen, owner, limit, gone, error>>
    PROVE  Inv'
  <1>1. /\ pc'[p] \in {"sleep", "loadShared"}
        /\ pc'[p] # "loadShared" => interval'[p] < limit[p]
        /\ \A q \in Procs \ {p} : interval'[q] = interval[q] /\ pc'[q] = pc[q]
    BY LengthenKeepsBound
  <1>2. LockHasOwner' /\ NoLiveOwnerTakenForDead'
    BY <1>1 DEF Inv, TypeOK, LockHasOwner, NoLiveOwnerTakenForDead, Waiting, Holding, files
  <1>3. LeavesNoFile' /\ NeverWaitsForItself'
    BY <1>1 DEF Inv, LeavesNoFile, NeverWaitsForItself, Waiting, files
  <1>4. "unique" \notin kept[p] => unique[p] = "none"
    BY DEF Inv, NeverWaitsForItself
  <1>5. \A q \in Procs : FileInPlace(q)'
    BY <1>1, <1>4 DEF Inv, FileInPlace, files
  <1>6. \A q \in Procs : "lock" \in kept'[q] => pc'[q] \in {"unlink", "ended"}
    BY <1>1 DEF Inv, Waiting, files
  <1>7. \A q \in Procs :
          /\ pc'[q] = "judge" => seen'[q] \in Procs \ {q}
          /\ pc'[q] = "dropUnique" => owner'[q] \in Procs \ {q}
          /\ pc'[q] \notin {"loadShared", "dead"} => interval'[q] < limit'[q]
    BY <1>1 DEF Inv
  <1>8. (lock \in Procs /\ unique[lock] # "written" =>
            unique[lock] = "none" /\ pc[lock] \in {"ended", "dead"})'
    BY <1>1 DEF Inv, Waiting, files
  <1> QED
    BY <1>2, <1>3, <1>5, <1>6, <1>7, <1>8 DEF Inv

\* Every step keeps Inv.
LEMMA NextInv == ASSUME Inv, Next PROVE Inv'
  <1> USE NextType, ConstantsAssumption
  <1> USE DEF Inv, LockHasOwner, NoLiveOwnerTakenForDead, LeavesNoFile, NeverWaitsForItself,
              FileInPlace, TypeOK, Waiting, Holding, Go, files, waiting
  <1>1. ASSUME NEW p \in Procs, Read(p) PROVE Inv'
    <2>1. CASE seen' = [seen EXCEPT ![p] = Nobody] /\ Go(p, "discard")
      BY <1>1, <2>1 DEF Read
    <2>2. CASE /\ seen' = [seen EXCEPT ![p] = IF LockExists THEN lock ELSE Nobody]
               /\ Go(p, IF LockExists /\ unique[lock] = "written" THEN "judge" ELSE "discard")
      <3>1. CASE LockExists /\ unique[lock] = "written"
        <4>1. lock \in Procs \ {p}
          BY <1>1, <3>1 DEF Read, LockExists
        <4> QED
          BY <1>1, <2>2, <3>1, <4>1 DEF Read
      <3>2. CASE ~(LockExists /\ unique[lock] = "written")
        <4>1. ~LockExists
          BY <3>2 DEF LockExists
        <4> QED
          BY <1>1, <2>2, <3>2, <4>1 DEF Read
      <3> QED
        BY <3>1, <3>2
    <2> QED
      BY <1>1, <2>1, <2>2 DEF Read
  <1>2. ASSUME NEW p \in Procs, Judge(p) PROVE Inv'
    BY <1>2 DEF Judge, processStillExecuting
  <1>3. ASSUME NEW p \in Procs, Discard(p) PROVE Inv'
    BY <1>3 DEF Discard
  <1>4. ASSUME NEW p \in Procs, CreateUnique(p) PROVE Inv'
    BY <1>4 DEF CreateUnique, Fail
  <1>5. ASSUME NEW p \in Procs, WriteUnique(p) PROVE Inv'
    BY <1>5 DEF WriteUnique
  <1>6. ASSUME NEW p \in Procs, DropUnwritten(p) PROVE Inv'
    BY <1>6 DEF DropUnwritten, RemoveUnique, Fail
  <1>7. ASSUME NEW p \in Procs, CreateLink(p) PROVE Inv'
    <2>1. CASE lock = Nobody /\ lock' = p /\ Go(p, "build") /\ UNCHANGED error
      BY <1>7, <2>1 DEF CreateLink
    <2>2. CASE Go(p, "linkFailed") /\ UNCHANGED <<lock, error>>
      BY <1>7, <2>2 DEF CreateLink
    <2>3. CASE Fail(p) /\ UNCHANGED lock
      BY <1>7, <2>3 DEF CreateLink, Fail
    <2> QED
      BY <1>7, <2>1, <2>2, <2>3 DEF CreateLink
  <1>8. ASSUME NEW p \in Procs, DropUnique(p) PROVE Inv'
    BY <1>8 DEF DropUnique, RemoveUnique
  <1>9. ASSUME NEW p \in Procs, CheckLock(p) PROVE Inv'
    BY <1>9 DEF CheckLock, LockExists
  <1>10. ASSUME NEW p \in Procs, CleanLock(p) PROVE Inv'
    BY <1>10 DEF CleanLock, Fail
  <1>11. ASSUME NEW p \in Procs, MakeAbsoluteFails(p) PROVE Inv'
    BY <1>11 DEF MakeAbsoluteFails, Fail
  <1>12. ASSUME NEW p \in Procs, Access(p) PROVE Inv'
    BY <1>12 DEF Access, LockExists
  <1>13. ASSUME NEW p \in Procs, CheckFile(p) PROVE Inv'
    BY <1>13 DEF CheckFile
  <1>14. ASSUME NEW p \in Procs, RecheckFile(p) PROVE Inv'
    <2>1. CASE Lengthen(p)
      BY <1>14, <2>1, LengthenStep DEF RecheckFile
    <2>2. CASE Go(p, "loadShared") /\ UNCHANGED interval
      BY <1>14, <2>2 DEF RecheckFile
    <2> QED
      BY <1>14, <2>1, <2>2 DEF RecheckFile
  <1>15. ASSUME NEW p \in Procs, CheckOwner(p) PROVE Inv'
    <2>1. CASE processStillExecuting(p, owner[p])
      BY <1>15, <2>1, LengthenStep DEF CheckOwner
    <2>2. CASE ~processStillExecuting(p, owner[p])
      BY <1>15, <2>2 DEF CheckOwner, EndWait
    <2> QED
      BY <2>1, <2>2
  <1>16. ASSUME NEW p \in Procs, Build(p) PROVE Inv'
    BY <1>16 DEF Build
  <1>17. ASSUME NEW p \in Procs, Load(p) PROVE Inv'
    BY <1>17 DEF Load
  <1>18. ASSUME NEW p \in Procs, Unlock(p) PROVE Inv'
    BY <1>18 DEF Unlock
  <1>19. ASSUME NEW p \in Procs, Unlink(p) PROVE Inv'
    BY <1>19 DEF Unlink, RemoveUnique
  <1>20. ASSUME NEW p \in Procs, LoadShared(p) PROVE Inv'
    BY <1>20 DEF LoadShared, EndWait
  <1>21. ASSUME NEW p \in Procs, Die(p) PROVE Inv'
    BY <1>21 DEF Die, EndWait
  <1> QED
    BY <1>1, <1>2, <1>3, <1>4, <1>5, <1>6, <1>7, <1>8, <1>9, <1>10, <1>11, <1>12, <1>13, <1>14, <1>15, <1>16, <1>17, <1>18, <1>19, <1>20, <1>21 DEF Next, Step, Crash, Exit

-----------------------------------------------------------------------------
\* For any number of processes that race, crash and exit, and any calls that fail:
\* what the lock file and the files of the processes may be (LockFileManager,
\* readLockFile, compileAndLoadModule).
THEOREM SpecInv == Spec => []Inv
  <1>1. Inv /\ UNCHANGED vars => Inv'
    BY DEF vars, Inv, TypeOK, LockHasOwner, NoLiveOwnerTakenForDead, LeavesNoFile,
           NeverWaitsForItself, FileInPlace
  <1> QED
    BY InitInv, NextInv, <1>1, PTL DEF Spec

\* A lock file on disk names a process that is going to remove it, one that failed
\* to, or one that has crashed or exited (the constructor and the destructor).
THEOREM SpecLockHasOwner == Spec => []LockHasOwner
  BY SpecInv, PTL DEF Inv

\* An owner that readLockFile has read and takes for dead is dead, whatever calls
\* fail.
THEOREM SpecNoLiveOwnerTakenForDead == Spec => []NoLiveOwnerTakenForDead
  BY SpecInv, PTL DEF Inv

\* A process that ends without Error, and could remove its own file, leaves none.
THEOREM SpecLeavesNoFile == Spec => []LeavesNoFile
  BY SpecInv, PTL DEF Inv
=============================================================================
