--------------------------- MODULE LockFileManager ---------------------------
(***************************************************************************)
(* llvm::LockFileManager, with clang's compileAndLoadModule as its client: *)
(* the processes that want the same module file elect the one that builds  *)
(* it by creating a lock file next to it.                                  *)
(*                                                                         *)
(* A manager writes its host and process ID to a file of its own (unique)  *)
(* and makes the lock file a symbolic link to it (create_link), so that a  *)
(* lock file is never seen half written.  A process that finds the lock    *)
(* file waits for it to go; it removes a lock file whose owner is dead.    *)
(* Each access to the file system is a step, since other processes run in  *)
(* between; a process may crash at any step, and exits after it has ended. *)
(* The accesses named in Faults may fail, each time they are made: where   *)
(* the code ignores the error, the step goes on as if nothing had          *)
(* happened, and kept remembers the file that was not removed.             *)
(***************************************************************************)
EXTENDS Naturals

CONSTANTS Procs,        \* the processes that compile the module
          Host,         \* the machine each one runs on
          Nobody,       \* no process
          Elsewhere,    \* the target of a link that leads nowhere
          WaitLimit,    \* MaxSeconds, in units of the first sleep
          GoneLimit,    \* the same, once the lock file has gone
          Faults        \* the calls that may fail

ASSUME ConstantsAssumption ==
    /\ Nobody \notin Procs /\ Elsewhere \notin Procs /\ Nobody # Elsewhere
    /\ WaitLimit \in Nat \ {0, 1}
    /\ GoneLimit \in 2 .. WaitLimit
    /\ Faults \subseteq
          {"absolute", "create", "write", "link", "remove", "read", "access"}

VARIABLES lock,         \* the lock file: the owner of the file it links to
          unique,       \* the file of its own each process has
          product,      \* the module file
          pc,           \* where each process is
          tries,        \* whether readLockFile runs before or after the link
          seen,         \* the owner of the file that readLockFile has read
          owner,        \* Owner
          interval,     \* Interval, in units of the first sleep
          limit,        \* MaxSeconds, in the same units
          gone,         \* LockFileGone
          error,        \* Error
          kept          \* the files that each process has failed to remove

vars == <<lock, unique, product, pc, tries, seen, owner, interval, limit, gone, error,
          kept>>

files   == <<lock, unique, product, kept>>
waiting == <<interval, limit, gone>>

Holding == {"build", "load", "unlock", "unlink"}
Waiting == {"sleep", "checkFile", "recheckFile", "checkOwner"}

Locations == Holding \cup Waiting \cup
    {"start", "judge", "discard", "create", "write", "dropUnwritten", "link",
     "linkFailed", "dropUnique", "check", "clean", "loadShared", "ended", "dead"}

TypeOK ==
    /\ lock \in Procs \cup {Nobody, Elsewhere}
    /\ unique \in [Procs -> {"none", "empty", "written"}]
    /\ product \in {"missing", "old", "new"}
    /\ pc \in [Procs -> Locations]
    /\ tries \in [Procs -> {"first", "again"}]
    /\ seen \in [Procs -> Procs \cup {Nobody}]
    /\ owner \in [Procs -> Procs \cup {Nobody}]
    /\ interval \in [Procs -> 1 .. 2 * WaitLimit]
    /\ limit \in [Procs -> {WaitLimit, GoneLimit}]
    /\ gone \in [Procs -> BOOLEAN]
    /\ error \in [Procs -> BOOLEAN]
    /\ kept \in [Procs -> SUBSET {"lock", "unique"}]

\* A lock file that leads nowhere may have been left behind, and a module file
\* that is out of date.
Init ==
    /\ lock \in {Nobody, Elsewhere}
    /\ product \in {"missing", "old"}
    /\ unique = [p \in Procs |-> "none"]
    /\ pc = [p \in Procs |-> "start"]
    /\ tries = [p \in Procs |-> "first"]
    /\ seen = [p \in Procs |-> Nobody]
    /\ owner = [p \in Procs |-> Nobody]
    /\ interval = [p \in Procs |-> 1]
    /\ limit = [p \in Procs |-> WaitLimit]
    /\ gone = [p \in Procs |-> FALSE]
    /\ error = [p \in Procs |-> FALSE]
    /\ kept = [p \in Procs |-> {}]

-----------------------------------------------------------------------------
Go(p, loc) == pc' = [pc EXCEPT ![p] = loc]

\* The constructor gives up with Error set, and compileAndLoadModule with it.
Fail(p) ==
    /\ Go(p, "ended")
    /\ error' = [error EXCEPT ![p] = TRUE]

\* sys::fs::remove of the file of p, whose failure is ignored.
RemoveUnique(p) ==
    \/ /\ unique' = [unique EXCEPT ![p] = "none"]
       /\ UNCHANGED kept
    \/ /\ "remove" \in Faults
       /\ kept' = [kept EXCEPT ![p] = @ \cup {"unique"}]
       /\ UNCHANGED unique

\* exists and access follow the link; remove does not.  exists takes a file that
\* it cannot reach for missing; access does so only when the error says it.
LockExists == lock \in Procs /\ unique[lock] # "none"

\* Mutant: every owner is taken to be running.
AlwaysExecuting(p, q) == TRUE

\* getsid tells nothing of a process of another machine.
processStillExecuting(p, q) == ~(Host[p] = Host[q] /\ pc[q] = "dead")

-----------------------------------------------------------------------------
(* readLockFile, at the start of the constructor and when the link failed. *)

\* Without an absolute name there is no lock file.
MakeAbsoluteFails(p) ==
    /\ pc[p] = "start"
    /\ "absolute" \in Faults
    /\ Fail(p)
    /\ UNCHANGED <<files, tries, seen, owner, waiting>>

\* A file that cannot be read is removed like one with no owner in it.
Read(p) ==
    /\ pc[p] \in {"start", "linkFailed"}
    /\ tries' = [tries EXCEPT ![p] = IF pc[p] = "start" THEN "first" ELSE "again"]
    /\ \/ /\ seen' = [seen EXCEPT ![p] = IF LockExists THEN lock ELSE Nobody]
          /\ Go(p, IF LockExists /\ unique[lock] = "written" THEN "judge" ELSE "discard")
       \/ /\ "read" \in Faults
          /\ seen' = [seen EXCEPT ![p] = Nobody]
          /\ Go(p, "discard")
    /\ UNCHANGED <<files, owner, waiting, error>>

Judge(p) ==
    /\ pc[p] = "judge"
    /\ IF processStillExecuting(p, seen[p])
       THEN /\ owner' = [owner EXCEPT ![p] = seen[p]]
            /\ seen' = [seen EXCEPT ![p] = Nobody]
            /\ tries' = [tries EXCEPT ![p] = "first"]
            /\ Go(p, IF tries[p] = "first" THEN "sleep" ELSE "dropUnique")
       ELSE /\ Go(p, "discard")
            /\ UNCHANGED <<seen, owner, tries>>
    /\ UNCHANGED <<files, waiting, error>>

\* The lock file is removed, whatever it links to by now; whether that has
\* worked makes no difference to what comes next.
Discard(p) ==
    /\ pc[p] = "discard"
    /\ lock' \in {Nobody} \cup (IF "remove" \in Faults THEN {lock} ELSE {})
    /\ seen' = [seen EXCEPT ![p] = Nobody]
    /\ tries' = [tries EXCEPT ![p] = "first"]
    /\ Go(p, IF tries[p] = "first" THEN "create" ELSE "check")
    /\ UNCHANGED <<unique, product, kept, owner, waiting, error>>

-----------------------------------------------------------------------------
(* The rest of the constructor.                                            *)

\* Mutant: the link is made before the file it leads to has its contents.
CreateUniqueLinked(p) ==
    /\ pc[p] = "create"
    /\ unique' = [unique EXCEPT ![p] = "empty"]
    /\ IF lock = Nobody
       THEN lock' = p /\ Go(p, "build")
       ELSE Go(p, "linkFailed") /\ UNCHANGED lock
    /\ UNCHANGED <<product, kept, tries, seen, owner, waiting, error>>

CreateUnique(p) ==
    /\ pc[p] = "create"
    /\ \/ /\ unique' = [unique EXCEPT ![p] = "empty"]
          /\ Go(p, "write")
          /\ UNCHANGED error
       \/ /\ "create" \in Faults
          /\ Fail(p)
          /\ UNCHANGED unique
    /\ UNCHANGED <<lock, product, kept, tries, seen, owner, waiting>>

WriteUnique(p) ==
    /\ pc[p] = "write"
    /\ \/ /\ unique' = [unique EXCEPT ![p] = "written"]
          /\ Go(p, "link")
       \/ /\ "write" \in Faults
          /\ Go(p, "dropUnwritten")
          /\ UNCHANGED unique
    /\ UNCHANGED <<lock, product, kept, tries, seen, owner, waiting, error>>

DropUnwritten(p) ==
    /\ pc[p] = "dropUnwritten"
    /\ RemoveUnique(p)
    /\ Fail(p)
    /\ UNCHANGED <<lock, product, tries, seen, owner, waiting>>

CreateLink(p) ==
    /\ pc[p] = "link"
    /\ \/ /\ lock = Nobody
          /\ lock' = p
          /\ Go(p, "build")
          /\ UNCHANGED error
       \/ /\ lock # Nobody
          /\ Go(p, "linkFailed")
          /\ UNCHANGED <<lock, error>>
       \/ /\ "link" \in Faults
          /\ Fail(p)
          /\ UNCHANGED lock
    /\ UNCHANGED <<unique, product, kept, tries, seen, owner, waiting>>

DropUnique(p) ==
    /\ pc[p] = "dropUnique"
    /\ RemoveUnique(p)
    /\ Go(p, "sleep")
    /\ UNCHANGED <<lock, product, tries, seen, owner, waiting, error>>

CheckLock(p) ==
    /\ pc[p] = "check"
    /\ \/ LockExists /\ Go(p, "clean")
       \/ (LockExists => "access" \in Faults) /\ Go(p, "link")
    /\ UNCHANGED <<files, tries, seen, owner, waiting, error>>

CleanLock(p) ==
    /\ pc[p] = "clean"
    /\ \/ /\ lock' = Nobody
          /\ Go(p, "link")
          /\ UNCHANGED error
       \/ /\ "remove" \in Faults
          /\ Fail(p)
          /\ UNCHANGED lock
    /\ UNCHANGED <<unique, product, kept, tries, seen, owner, waiting>>

-----------------------------------------------------------------------------
(* waitForUnlock, whose interval, limit and flag start afresh in each call. *)

EndWait(p) ==
    /\ interval' = [interval EXCEPT ![p] = 1]
    /\ limit' = [limit EXCEPT ![p] = WaitLimit]
    /\ gone' = [gone EXCEPT ![p] = FALSE]
    /\ owner' = [owner EXCEPT ![p] = Nobody]

\* nanosleep, and a look at the lock file if it is still expected to be there.
Access(p) ==
    /\ pc[p] = "sleep"
    /\ IF gone[p] THEN Go(p, "recheckFile") /\ UNCHANGED gone
       ELSE \/ /\ LockExists \/ "access" \in Faults
               /\ Go(p, "checkOwner")
               /\ UNCHANGED gone
            \/ /\ ~LockExists
               /\ Go(p, "checkFile")
               /\ gone' = [gone EXCEPT ![p] = TRUE]
    /\ UNCHANGED <<files, tries, seen, owner, interval, limit, error>>

\* Mutant: nothing ends the wait.
LengthenForever(p) ==
    /\ interval' = [interval EXCEPT ![p] = 2 * @]
    /\ Go(p, "sleep")

\* The interval doubles, and the wait ends with Res_Timeout at its limit.
Lengthen(p) ==
    /\ interval' = [interval EXCEPT ![p] = 2 * @]
    /\ Go(p, IF 2 * interval[p] < limit[p] THEN "sleep" ELSE "loadShared")

\* The first look for the module file, when the lock file has just gone.
CheckFile(p) ==
    /\ pc[p] = "checkFile"
    /\ \/ product # "missing" /\ Go(p, "loadShared") /\ UNCHANGED <<interval, limit>>
       \/ /\ product = "missing" \/ "access" \in Faults
          /\ limit' = [limit EXCEPT ![p] = GoneLimit]
          /\ interval' = [interval EXCEPT ![p] = 1]
          /\ Go(p, "sleep")
    /\ UNCHANGED <<files, tries, seen, owner, gone, error>>

RecheckFile(p) ==
    /\ pc[p] = "recheckFile"
    /\ \/ product # "missing" /\ Go(p, "loadShared") /\ UNCHANGED interval
       \/ (product # "missing" => "access" \in Faults) /\ Lengthen(p)
    /\ UNCHANGED <<files, tries, seen, owner, limit, gone, error>>

\* Res_OwnerDied makes compileAndLoadModule try again for the lock.
CheckOwner(p) ==
    /\ pc[p] = "checkOwner"
    /\ IF processStillExecuting(p, owner[p])
       THEN Lengthen(p) /\ UNCHANGED <<limit, gone, owner>>
       ELSE Go(p, "start") /\ EndWait(p)
    /\ UNCHANGED <<files, tries, seen, error>>

-----------------------------------------------------------------------------
(* compileAndLoadModule, and the destructor of the manager.                *)

Build(p) ==
    /\ pc[p] = "build"
    /\ \/ product' = "new" /\ Go(p, "load")
       \/ UNCHANGED product /\ Go(p, "unlock")
    /\ UNCHANGED <<lock, unique, kept, tries, seen, owner, waiting, error>>

\* ReadAST by the process that has built the module, whatever its result.
Load(p) ==
    /\ pc[p] = "load"
    /\ Go(p, "unlock")
    /\ UNCHANGED <<files, tries, seen, owner, waiting, error>>

\* Mutant: the destructor removes only the file that is its own.
UnlockNothing(p) ==
    /\ pc[p] = "unlock"
    /\ Go(p, "unlink")
    /\ UNCHANGED <<files, tries, seen, owner, waiting, error>>

Unlock(p) ==
    /\ pc[p] = "unlock"
    /\ \/ lock' = Nobody /\ UNCHANGED kept
       \/ /\ "remove" \in Faults
          /\ kept' = [kept EXCEPT ![p] = @ \cup {"lock"}]
          /\ UNCHANGED lock
    /\ Go(p, "unlink")
    /\ UNCHANGED <<unique, product, tries, seen, owner, waiting, error>>

Unlink(p) ==
    /\ pc[p] = "unlink"
    /\ RemoveUnique(p)
    /\ Go(p, "ended")
    /\ UNCHANGED <<lock, product, tries, seen, owner, waiting, error>>

\* ReadAST by a process that has waited: one that finds the module out of date
\* tries again for the lock.
LoadShared(p) ==
    /\ pc[p] = "loadShared"
    /\ \/ product = "old" /\ Go(p, "start")
       \/ (product = "old" => "read" \in Faults) /\ Go(p, "ended")
    /\ EndWait(p)
    /\ UNCHANGED <<files, tries, seen, error>>

-----------------------------------------------------------------------------
\* A process crashes, or exits some time after its compilation has ended; what it
\* had in memory goes with it.
Die(p) ==
    /\ Go(p, "dead")
    /\ tries' = [tries EXCEPT ![p] = "first"]
    /\ seen' = [seen EXCEPT ![p] = Nobody]
    /\ error' = [error EXCEPT ![p] = FALSE]
    /\ kept' = [kept EXCEPT ![p] = {}]
    /\ EndWait(p)
    /\ UNCHANGED <<lock, unique, product>>

Crash(p) == pc[p] \notin {"ended", "dead"} /\ Die(p)

Exit(p) == pc[p] = "ended" /\ Die(p)

Step(p) ==
    \/ MakeAbsoluteFails(p) \/ Read(p) \/ Judge(p) \/ Discard(p)
    \/ CreateUnique(p) \/ WriteUnique(p) \/ DropUnwritten(p) \/ CreateLink(p)
    \/ DropUnique(p) \/ CheckLock(p) \/ CleanLock(p)
    \/ Access(p) \/ CheckFile(p) \/ RecheckFile(p) \/ CheckOwner(p)
    \/ Build(p) \/ Load(p) \/ Unlock(p) \/ Unlink(p) \/ LoadShared(p) \/ Exit(p)

Next == \E p \in Procs : Step(p) \/ Crash(p)

Spec == Init /\ [][Next]_vars

\* A process that has not crashed goes on, and a compiler exits some day: others
\* may have to wait for that when it could not remove its lock file.
FairSpec == Spec /\ \A p \in Procs : WF_vars(Step(p))

-----------------------------------------------------------------------------
(* Properties.                                                             *)

\* A lock file names a process that still means to remove it, that crashed or has
\* exited since, or that tried to remove it and failed: however the managers race
\* to discard and to create it, none is forgotten by a running process
\* (~LockFileManager).
LockHasOwner ==
    lock \in Procs => \/ pc[lock] \in (Holding \ {"unlink"}) \cup {"dead"}
                      \/ "lock" \in kept[lock]

\* An owner that readLockFile has read and takes for dead is dead: a lock file is
\* complete when it appears (the link is made after Out.close()).  This says nothing
\* of a lock file that could not be read, which goes whoever its owner is.
NoLiveOwnerTakenForDead ==
    \A p \in Procs : pc[p] = "discard" /\ seen[p] # Nobody => pc[seen[p]] = "dead"

\* A process that ends without Error, and whose own file could be removed whenever
\* it tried, leaves none behind, whether it won the lock, lost it, or waited and
\* tried again.
LeavesNoFile ==
    \A p \in Procs :
        pc[p] = "ended" /\ ~error[p] /\ "unique" \notin kept[p] =>
            unique[p] = "none"

\* A waiting process is not the owner it waits for, and its own file is gone when
\* it could be removed: it never waits for itself (the first test of the unit tests
\* calls that deadlock).
NeverWaitsForItself ==
    \A p \in Procs :
        pc[p] \in Waiting => /\ owner[p] \in Procs \ {p}
                             /\ "unique" \notin kept[p] => unique[p] = "none"

\* The file of p is there once p has made it, and before and after only when p
\* could not remove an earlier one.
FileInPlace(p) ==
    /\ pc[p] \in {"start", "create", "loadShared"} /\ "unique" \notin kept[p] =>
          unique[p] = "none"
    /\ pc[p] \in {"link", "linkFailed", "check", "clean", "build", "load", "unlock", "unlink"} =>
          unique[p] = "written"
    /\ pc[p] \in {"judge", "discard"} /\ tries[p] = "again" => unique[p] = "written"
    /\ pc[p] \in {"judge", "discard"} /\ tries[p] = "first" /\ "unique" \notin kept[p] =>
          unique[p] = "none"

\* The inductive invariant: what the properties above rest on.  A lock file leads
\* to a written file, unless its owner has ended, a process has no file of its own
\* before it creates one and after it has lost, and it reads no lock file of its own.
Inv ==
    /\ TypeOK
    /\ LockHasOwner
    /\ lock \in Procs /\ unique[lock] # "written" =>
          unique[lock] = "none" /\ pc[lock] \in {"ended", "dead"}
    /\ NoLiveOwnerTakenForDead
    /\ LeavesNoFile
    /\ NeverWaitsForItself
    /\ \A p \in Procs :
          /\ FileInPlace(p)
          /\ "lock" \in kept[p] => pc[p] \in {"unlink", "ended"}
          /\ pc[p] = "judge" => seen[p] \in Procs \ {p}
          /\ pc[p] = "dropUnique" => owner[p] \in Procs \ {p}
          /\ pc[p] \notin {"loadShared", "dead"} => interval[p] < limit[p]

\* p has discarded the lock file that it could not link to, and a lock file is there.
DiscardedInVain(p) == pc[p] = "check" /\ lock # Nobody

\* Every compilation ends, also when the owner of the lock crashes while others
\* wait for it, when a lock file stays after its owner has exited, and when any call
\* fails; the exception is a process that for ever finds a lock file after it has
\* discarded it (waitForUnlock, compileAndLoadModule, the loop of the constructor).
EveryCompilationEnds ==
    \A p \in Procs : []<>(pc[p] \in {"ended", "dead"} \/ DiscardedInVain(p))
=============================================================================
