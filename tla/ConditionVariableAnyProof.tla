---------------------- MODULE ConditionVariableAnyProof ----------------------
(***************************************************************************)
(* Safety of ConditionVariableAny for any number of threads: whoever has a *)
(* lock is where the code has it locked, no thread sleeps past notify_all, *)
(* nothing touches the condition variable once it has been destroyed, and  *)
(* no notification of a token is lost.                                     *)
(***************************************************************************)
EXTENDS ConditionVariableAny, FiniteSetTheorems, TLAPS

\* A thread is not None.
LEMMA NoneIsNoThread == \A t \in Threads : t # None
  BY ConstantsAssumption

\* The invariant holds at the start.
LEMMA InitInv == Init => Inv
  <1> SUFFICES ASSUME Init PROVE Inv
    OBVIOUS
  <1>1. TypeOK
    <2>1. tokens \in 0 .. MaxTokens
      BY ConstantsAssumption DEF Init
    <2>2. /\ pc \in [Threads -> {"program", "test", "closed"} \cup Before \cup After \cup Notifying]
          /\ deadline \in [Threads -> {"none", "ahead", "past"}]
      BY DEF Init
    <2> QED
      BY <2>1, <2>2 DEF Init, TypeOK
  <1>2. LocksAreHeld
    BY NoneIsNoThread DEF Init, LocksAreHeld, Before, After, Notifying
  <1>3. CloserHasClosed /\ CloseReachesAll /\ NoUseAfterDestroy
    BY DEF Init, CloserHasClosed, CloseReachesAll, NoUseAfterDestroy
  <1>4. TokensAreAnnounced
    BY DEF Init, TokensAreAnnounced
  <1> QED
    BY <1>1, <1>2, <1>3, <1>4 DEF Inv

\* All of the invariant but the tokens.
Rest == TypeOK /\ LocksAreHeld /\ CloserHasClosed /\ CloseReachesAll /\ NoUseAfterDestroy

\* A call of wait.
LEMMA EnterInv == ASSUME Inv, NEW t \in Threads, Enter(t)
               PROVE  Rest'
  <1>1. TypeOK'
    BY ConstantsAssumption DEF Inv, TypeOK, Enter, Go, program, Before, After, Notifying
  <1>2. LocksAreHeld'
    BY NoneIsNoThread DEF Inv, TypeOK, LocksAreHeld, Enter, Go, program, Before, After, Notifying
  <1>3. CloserHasClosed'
    BY DEF Inv, TypeOK, CloserHasClosed, Enter, Go, program, Before, After, Notifying
  <1>4. CloseReachesAll'
    BY NoneIsNoThread DEF Inv, TypeOK, LocksAreHeld, CloserHasClosed, CloseReachesAll, Enter, Go, program,
       Before, After, Notifying
  <1>5. NoUseAfterDestroy'
    BY NoneIsNoThread DEF Inv, TypeOK, LocksAreHeld, CloserHasClosed, CloseReachesAll,
       NoUseAfterDestroy, Enter, Go, program, Before, After, Notifying
  <1> QED
    BY <1>1, <1>2, <1>3, <1>4, <1>5 DEF Rest

\* A wait that ends by itself.
LEMMA WakeInv == ASSUME Inv, NEW t \in Threads, Wake(t)
               PROVE  Rest'
  <1>1. TypeOK'
    BY ConstantsAssumption DEF Inv, TypeOK, Wake, program, Before, After, Notifying
  <1>2. LocksAreHeld'
    BY NoneIsNoThread DEF Inv, TypeOK, LocksAreHeld, Wake, program, Before, After, Notifying
  <1>3. CloserHasClosed'
    BY DEF Inv, TypeOK, CloserHasClosed, Wake, program, Before, After, Notifying
  <1>4. CloseReachesAll'
    BY NoneIsNoThread DEF Inv, TypeOK, LocksAreHeld, CloserHasClosed, CloseReachesAll, Wake, program,
       Before, After, Notifying
  <1>5. NoUseAfterDestroy'
    BY NoneIsNoThread DEF Inv, TypeOK, LocksAreHeld, CloserHasClosed, CloseReachesAll,
       NoUseAfterDestroy, Wake, program, Before, After, Notifying
  <1> QED
    BY <1>1, <1>2, <1>3, <1>4, <1>5 DEF Rest

\* A token.
LEMMA PostInv == ASSUME Inv, NEW t \in Threads, Post(t)
               PROVE  Rest'
  <1>1. TypeOK'
    BY ConstantsAssumption DEF Inv, TypeOK, Post, Go, Keep, program, Before, After, Notifying
  <1>2. LocksAreHeld'
    BY NoneIsNoThread DEF Inv, TypeOK, LocksAreHeld, Post, Go, Keep, program, Before, After, Notifying
  <1>3. CloserHasClosed'
    BY DEF Inv, TypeOK, CloserHasClosed, Post, Go, Keep, program, Before, After, Notifying
  <1>4. CloseReachesAll'
    BY NoneIsNoThread DEF Inv, TypeOK, LocksAreHeld, CloserHasClosed, CloseReachesAll, Post, Go, Keep, program,
       Before, After, Notifying
  <1>5. NoUseAfterDestroy'
    BY NoneIsNoThread DEF Inv, TypeOK, LocksAreHeld, CloserHasClosed, CloseReachesAll,
       NoUseAfterDestroy, Post, Go, Keep, program, Before, After, Notifying
  <1> QED
    BY <1>1, <1>2, <1>3, <1>4, <1>5 DEF Rest

\* The end of the program.
LEMMA CloseInv == ASSUME Inv, NEW t \in Threads, Close(t)
               PROVE  Rest'
  <1>1. TypeOK'
    BY ConstantsAssumption DEF Inv, TypeOK, Close, Go, Keep, program, Before, After, Notifying
  <1>2. LocksAreHeld'
    BY NoneIsNoThread DEF Inv, TypeOK, LocksAreHeld, Close, Go, Keep, program, Before, After, Notifying
  <1>3. CloserHasClosed'
    BY DEF Inv, TypeOK, CloserHasClosed, Close, Go, Keep, program, Before, After, Notifying
  <1>4. CloseReachesAll'
    BY NoneIsNoThread DEF Inv, TypeOK, LocksAreHeld, CloserHasClosed, CloseReachesAll, Close, Go, Keep, program,
       Before, After, Notifying
  <1>5. NoUseAfterDestroy'
    BY NoneIsNoThread DEF Inv, TypeOK, LocksAreHeld, CloserHasClosed, CloseReachesAll,
       NoUseAfterDestroy, Close, Go, Keep, program, Before, After, Notifying
  <1> QED
    BY <1>1, <1>2, <1>3, <1>4, <1>5 DEF Rest

\* The lock of *__mut_.
LEMMA LockMutexInv == ASSUME Inv, NEW t \in Threads, LockMutex(t)
               PROVE  Rest'
  <1>1. TypeOK'
    BY ConstantsAssumption DEF Inv, TypeOK, LockMutex, Go, program, Before, After, Notifying
  <1>2. LocksAreHeld'
    BY NoneIsNoThread DEF Inv, TypeOK, LocksAreHeld, LockMutex, Go, program, Before, After, Notifying
  <1>3. CloserHasClosed'
    BY DEF Inv, TypeOK, CloserHasClosed, LockMutex, Go, program, Before, After, Notifying
  <1>4. CloseReachesAll'
    BY NoneIsNoThread DEF Inv, TypeOK, LocksAreHeld, CloserHasClosed, CloseReachesAll, LockMutex, Go, program,
       Before, After, Notifying
  <1>5. NoUseAfterDestroy'
    BY NoneIsNoThread DEF Inv, TypeOK, LocksAreHeld, CloserHasClosed, CloseReachesAll,
       NoUseAfterDestroy, LockMutex, Go, program, Before, After, Notifying
  <1> QED
    BY <1>1, <1>2, <1>3, <1>4, <1>5 DEF Rest

\* The return of __cv_.wait.
LEMMA ReturnInv == ASSUME Inv, NEW t \in Threads, Return(t)
               PROVE  Rest'
  <1>1. TypeOK'
    BY ConstantsAssumption DEF Inv, TypeOK, Return, Go, program, Before, After, Notifying
  <1>2. LocksAreHeld'
    BY NoneIsNoThread DEF Inv, TypeOK, LocksAreHeld, Return, Go, program, Before, After, Notifying
  <1>3. CloserHasClosed'
    BY DEF Inv, TypeOK, CloserHasClosed, Return, Go, program, Before, After, Notifying
  <1>4. CloseReachesAll'
    BY NoneIsNoThread DEF Inv, TypeOK, LocksAreHeld, CloserHasClosed, CloseReachesAll, Return, Go, program,
       Before, After, Notifying
  <1>5. NoUseAfterDestroy'
    BY NoneIsNoThread DEF Inv, TypeOK, LocksAreHeld, CloserHasClosed, CloseReachesAll,
       NoUseAfterDestroy, Return, Go, program, Before, After, Notifying
  <1> QED
    BY <1>1, <1>2, <1>3, <1>4, <1>5 DEF Rest

\* The lock of the caller.
LEMMA RelockInv == ASSUME Inv, NEW t \in Threads, Relock(t)
               PROVE  Rest'
  <1>1. TypeOK'
    BY ConstantsAssumption DEF Inv, TypeOK, Relock, Go, program, Before, After, Notifying
  <1>2. LocksAreHeld'
    BY NoneIsNoThread DEF Inv, TypeOK, LocksAreHeld, Relock, Go, program, Before, After, Notifying
  <1>3. CloserHasClosed'
    BY DEF Inv, TypeOK, CloserHasClosed, Relock, Go, program, Before, After, Notifying
  <1>4. CloseReachesAll'
    BY NoneIsNoThread DEF Inv, TypeOK, LocksAreHeld, CloserHasClosed, CloseReachesAll, Relock, Go, program,
       Before, After, Notifying
  <1>5. NoUseAfterDestroy'
    BY NoneIsNoThread DEF Inv, TypeOK, LocksAreHeld, CloserHasClosed, CloseReachesAll,
       NoUseAfterDestroy, Relock, Go, program, Before, After, Notifying
  <1> QED
    BY <1>1, <1>2, <1>3, <1>4, <1>5 DEF Rest

\* A notification that waits for *__mut_.
LEMMA PassMutexInv == ASSUME Inv, NEW t \in Threads, PassMutex(t)
               PROVE  Rest'
  <1>1. TypeOK'
    BY ConstantsAssumption DEF Inv, TypeOK, PassMutex, Go, program, Before, After, Notifying
  <1>2. LocksAreHeld'
    BY NoneIsNoThread DEF Inv, TypeOK, LocksAreHeld, PassMutex, Go, program, Before, After, Notifying
  <1>3. CloserHasClosed'
    BY DEF Inv, TypeOK, CloserHasClosed, PassMutex, Go, program, Before, After, Notifying
  <1>4. CloseReachesAll'
    BY NoneIsNoThread DEF Inv, TypeOK, LocksAreHeld, CloserHasClosed, CloseReachesAll, PassMutex, Go, program,
       Before, After, Notifying
  <1>5. NoUseAfterDestroy'
    BY NoneIsNoThread DEF Inv, TypeOK, LocksAreHeld, CloserHasClosed, CloseReachesAll,
       NoUseAfterDestroy, PassMutex, Go, program, Before, After, Notifying
  <1> QED
    BY <1>1, <1>2, <1>3, <1>4, <1>5 DEF Rest

\* A wait that ends.
LEMMA LeaveInv == ASSUME Inv, NEW t \in Threads, Leave(t)
               PROVE  Rest'
  <1>1. TypeOK'
    BY ConstantsAssumption DEF Inv, TypeOK, Leave, Go, program, Before, After, Notifying
  <1>2. LocksAreHeld'
    BY NoneIsNoThread DEF Inv, TypeOK, LocksAreHeld, Leave, Go, program, Before, After, Notifying
  <1>3. CloserHasClosed'
    BY DEF Inv, TypeOK, CloserHasClosed, Leave, Go, program, Before, After, Notifying
  <1>4. CloseReachesAll'
    BY NoneIsNoThread DEF Inv, TypeOK, LocksAreHeld, CloserHasClosed, CloseReachesAll, Leave, Go, program,
       Before, After, Notifying
  <1>5. NoUseAfterDestroy'
    BY NoneIsNoThread DEF Inv, TypeOK, LocksAreHeld, CloserHasClosed, CloseReachesAll,
       NoUseAfterDestroy, Leave, Go, program, Before, After, Notifying
  <1> QED
    BY <1>1, <1>2, <1>3, <1>4, <1>5 DEF Rest

\* A wait that begins.
LEMMA CopyTestInv == ASSUME Inv, NEW t \in Threads, Copy(t), ~closed
               PROVE  Rest'
  <1>1. TypeOK'
    BY ConstantsAssumption DEF Inv, TypeOK, Copy, Go, program, Before, After, Notifying
  <1>2. LocksAreHeld'
    BY NoneIsNoThread DEF Inv, TypeOK, LocksAreHeld, Copy, Go, program, Before, After, Notifying
  <1>3. CloserHasClosed'
    BY DEF Inv, TypeOK, CloserHasClosed, Copy, Go, program, Before, After, Notifying
  <1>4. CloseReachesAll'
    BY NoneIsNoThread DEF Inv, TypeOK, LocksAreHeld, CloserHasClosed, CloseReachesAll, Copy, Go, program,
       Before, After, Notifying
  <1>5. NoUseAfterDestroy'
    BY NoneIsNoThread DEF Inv, TypeOK, LocksAreHeld, CloserHasClosed, CloseReachesAll,
       NoUseAfterDestroy, Copy, Go, program, Before, After, Notifying
  <1> QED
    BY <1>1, <1>2, <1>3, <1>4, <1>5 DEF Rest

\* The unlock of the caller.
LEMMA UnlockInv == ASSUME Inv, NEW t \in Threads, Unlock(t)
               PROVE  Rest'
  <1>1. TypeOK'
    BY ConstantsAssumption DEF Inv, TypeOK, Unlock, Go, program, Before, After, Notifying
  <1>2. LocksAreHeld'
    BY NoneIsNoThread DEF Inv, TypeOK, LocksAreHeld, Unlock, Go, program, Before, After, Notifying
  <1>3. CloserHasClosed'
    BY DEF Inv, TypeOK, CloserHasClosed, Unlock, Go, program, Before, After, Notifying
  <1>4. CloseReachesAll'
    BY NoneIsNoThread DEF Inv, TypeOK, LocksAreHeld, CloserHasClosed, CloseReachesAll, Unlock, Go, program,
       Before, After, Notifying
  <1>5. NoUseAfterDestroy'
    BY NoneIsNoThread DEF Inv, TypeOK, LocksAreHeld, CloserHasClosed, CloseReachesAll,
       NoUseAfterDestroy, Unlock, Go, program, Before, After, Notifying
  <1> QED
    BY <1>1, <1>2, <1>3, <1>4, <1>5 DEF Rest

\* __cv_.wait.
LEMMA BlockInv == ASSUME Inv, NEW t \in Threads, Block(t)
               PROVE  Rest'
  <1>1. TypeOK'
    BY ConstantsAssumption DEF Inv, TypeOK, Block, Go, program, Before, After, Notifying
  <1>2. LocksAreHeld'
    BY NoneIsNoThread DEF Inv, TypeOK, LocksAreHeld, Block, Go, program, Before, After, Notifying
  <1>3. CloserHasClosed'
    BY DEF Inv, TypeOK, CloserHasClosed, Block, Go, program, Before, After, Notifying
  <1>4. CloseReachesAll'
    <2>1. closed' = closed /\ pc[t] = "unlocked" /\ cv' \subseteq cv \cup {t}
      BY DEF Block, Go, program
    <2>2. \A u \in Threads \ {t} : pc'[u] = pc[u]
      BY DEF Inv, TypeOK, Block, Go
    <2>3. pc'[t] \in {"waiting", "woken"}
      BY DEF Inv, TypeOK, Block, Go
    <2>4. closed => \E u \in Threads \ {t} : pc[u] = "notify_all"
      BY <2>1 DEF Inv, CloseReachesAll
    <2>5. closed => \E u \in Threads : pc'[u] = "notify_all"
      BY <2>2, <2>4
    <2>6. closed => \A u \in Threads : pc'[u] \notin {"copied", "locked"}
      BY <2>2, <2>3 DEF Inv, CloseReachesAll
    <2> QED
      BY <2>1, <2>5, <2>6 DEF CloseReachesAll
  <1>5. NoUseAfterDestroy'
    BY NoneIsNoThread DEF Inv, TypeOK, LocksAreHeld, CloserHasClosed, CloseReachesAll,
       NoUseAfterDestroy, Block, Go, program, Before, After, Notifying
  <1> QED
    BY <1>1, <1>2, <1>3, <1>4, <1>5 DEF Rest

\* The unlock of *__mut_.
LEMMA UnlockMutexInv == ASSUME Inv, NEW t \in Threads, UnlockMutex(t)
               PROVE  Rest'
  <1>1. TypeOK'
    BY ConstantsAssumption DEF Inv, TypeOK, UnlockMutex, Go, program, Before, After, Notifying
  <1>2. LocksAreHeld'
    BY NoneIsNoThread DEF Inv, TypeOK, LocksAreHeld, UnlockMutex, Go, program, Before, After, Notifying
  <1>3. CloserHasClosed'
    BY DEF Inv, TypeOK, CloserHasClosed, UnlockMutex, Go, program, Before, After, Notifying
  <1>4. CloseReachesAll'
    BY NoneIsNoThread DEF Inv, TypeOK, LocksAreHeld, CloserHasClosed, CloseReachesAll, UnlockMutex, Go, program,
       Before, After, Notifying
  <1>5. NoUseAfterDestroy'
    BY NoneIsNoThread DEF Inv, TypeOK, LocksAreHeld, CloserHasClosed, CloseReachesAll,
       NoUseAfterDestroy, UnlockMutex, Go, program, Before, After, Notifying
  <1> QED
    BY <1>1, <1>2, <1>3, <1>4, <1>5 DEF Rest

\* The end of the copy of __mut_.
LEMMA DropCopyInv == ASSUME Inv, NEW t \in Threads, DropCopy(t)
               PROVE  Rest'
  <1>1. TypeOK'
    BY ConstantsAssumption DEF Inv, TypeOK, DropCopy, Go, program, Before, After, Notifying
  <1>2. LocksAreHeld'
    BY NoneIsNoThread DEF Inv, TypeOK, LocksAreHeld, DropCopy, Go, program, Before, After, Notifying
  <1>3. CloserHasClosed'
    BY DEF Inv, TypeOK, CloserHasClosed, DropCopy, Go, program, Before, After, Notifying
  <1>4. CloseReachesAll'
    BY NoneIsNoThread DEF Inv, TypeOK, LocksAreHeld, CloserHasClosed, CloseReachesAll, DropCopy, Go, program,
       Before, After, Notifying
  <1>5. NoUseAfterDestroy'
    BY NoneIsNoThread DEF Inv, TypeOK, LocksAreHeld, CloserHasClosed, CloseReachesAll,
       NoUseAfterDestroy, DropCopy, Go, program, Before, After, Notifying
  <1> QED
    BY <1>1, <1>2, <1>3, <1>4, <1>5 DEF Rest

\* notify_one.
LEMMA SignalOneInv == ASSUME Inv, NEW t \in Threads, SignalOne(t)
               PROVE  Rest'
  <1>1. TypeOK'
    BY ConstantsAssumption DEF Inv, TypeOK, SignalOne, Go, program, Before, After, Notifying
  <1>2. LocksAreHeld'
    BY NoneIsNoThread DEF Inv, TypeOK, LocksAreHeld, SignalOne, Go, program, Before, After, Notifying
  <1>3. CloserHasClosed'
    BY DEF Inv, TypeOK, CloserHasClosed, SignalOne, Go, program, Before, After, Notifying
  <1>4. CloseReachesAll'
    BY NoneIsNoThread DEF Inv, TypeOK, LocksAreHeld, CloserHasClosed, CloseReachesAll, SignalOne, Go, program,
       Before, After, Notifying
  <1>5. NoUseAfterDestroy'
    BY NoneIsNoThread DEF Inv, TypeOK, LocksAreHeld, CloserHasClosed, CloseReachesAll,
       NoUseAfterDestroy, SignalOne, Go, program, Before, After, Notifying
  <1> QED
    BY <1>1, <1>2, <1>3, <1>4, <1>5 DEF Rest

\* notify_all.
LEMMA SignalAllInv == ASSUME Inv, NEW t \in Threads, SignalAll(t)
               PROVE  Rest'
  <1>1. TypeOK'
    BY ConstantsAssumption DEF Inv, TypeOK, SignalAll, Go, program, Before, After, Notifying
  <1>2. LocksAreHeld'
    BY NoneIsNoThread DEF Inv, TypeOK, LocksAreHeld, SignalAll, Go, program, Before, After, Notifying
  <1>3. CloserHasClosed'
    BY DEF Inv, TypeOK, CloserHasClosed, SignalAll, Go, program, Before, After, Notifying
  <1>4. CloseReachesAll'
    BY NoneIsNoThread DEF Inv, TypeOK, LocksAreHeld, CloserHasClosed, CloseReachesAll, SignalAll, Go, program,
       Before, After, Notifying
  <1>5. NoUseAfterDestroy'
    BY NoneIsNoThread DEF Inv, TypeOK, LocksAreHeld, CloserHasClosed, CloseReachesAll,
       NoUseAfterDestroy, SignalAll, Go, program, Before, After, Notifying
  <1> QED
    BY <1>1, <1>2, <1>3, <1>4, <1>5 DEF Rest

\* The destructor.
LEMMA DestroyInv == ASSUME Inv, NEW t \in Threads, Destroy(t)
               PROVE  Rest'
  <1>1. TypeOK'
    BY ConstantsAssumption DEF Inv, TypeOK, Destroy, Go, program, Before, After, Notifying
  <1>2. LocksAreHeld'
    BY NoneIsNoThread DEF Inv, TypeOK, LocksAreHeld, Destroy, Go, program, Before, After, Notifying
  <1>3. CloserHasClosed'
    BY DEF Inv, TypeOK, CloserHasClosed, Destroy, Go, program, Before, After, Notifying
  <1>4. CloseReachesAll'
    BY NoneIsNoThread DEF Inv, TypeOK, LocksAreHeld, CloserHasClosed, CloseReachesAll, Destroy, Go, program,
       Before, After, Notifying
  <1>5. NoUseAfterDestroy'
    BY NoneIsNoThread DEF Inv, TypeOK, LocksAreHeld, CloserHasClosed, CloseReachesAll,
       NoUseAfterDestroy, Destroy, Go, program, Before, After, Notifying
  <1> QED
    BY <1>1, <1>2, <1>3, <1>4, <1>5 DEF Rest

-----------------------------------------------------------------------------
(* The tokens.                                                             *)

\* There are finitely many threads, and so many that are active or notify.
LEMMA ActiveFinite ==
    /\ IsFiniteSet(Active) /\ Cardinality(Active) \in Nat
    /\ IsFiniteSet(Active') /\ Cardinality(Active') \in Nat
    /\ IsFiniteSet(Notifiers) /\ Cardinality(Notifiers) \in Nat
    /\ IsFiniteSet(Notifiers') /\ Cardinality(Notifiers') \in Nat
  <1>1. /\ Active \subseteq Threads /\ Active' \subseteq Threads
        /\ Notifiers \subseteq Threads /\ Notifiers' \subseteq Threads
    BY DEF Active, Notifiers
  <1> QED
    BY <1>1, ConstantsAssumption, FS_Subset, FS_CardinalityType

\* Whoever notifies is active.
LEMMA NotifiersAreActive == Cardinality(Notifiers) <= Cardinality(Active)
  <1>1. Notifiers \subseteq Active
    BY DEF Notifiers, Active
  <1> QED
    BY <1>1, ActiveFinite, FS_Subset

\* Once there are no tokens, or the program is closed, nothing is to be announced.
LEMMA NothingToAnnounce == ASSUME tokens' = 0 \/ closed' PROVE TokensAreAnnounced'
  BY ActiveFinite DEF TokensAreAnnounced

\* A step that changes neither tokens nor closed, and by which nobody stops being
\* active, keeps the tokens announced if it lets no thread past a token.
LEMMA StaysAnnounced ==
    ASSUME Inv, UNCHANGED program, Active \subseteq Active',
           (\E t \in Threads : pc'[t] \in {"copied", "locked"}) =>
               \E t \in Threads : pc[t] \in {"copied", "locked"},
           (\E t \in Threads : pc'[t] = "unlocked") =>
               /\ Notifiers \subseteq Notifiers'
               /\ \E t \in Threads : pc[t] \in {"unlocked", "locked"},
           cv' # {} => cv # {} \/ \E t \in Threads : pc[t] = "unlocked"
    PROVE  TokensAreAnnounced'
  <1> USE DEF Inv, TypeOK
  <1>0. tokens' = tokens /\ closed' = closed /\ tokens \in Nat
    BY ConstantsAssumption DEF program
  <1> SUFFICES ASSUME ~closed PROVE TokensAreAnnounced'
    BY <1>0, NothingToAnnounce
  <1>1. Cardinality(Active) <= Cardinality(Active')
    BY ActiveFinite, FS_Subset
  <1>2. (\E t \in Threads : pc'[t] \in {"copied", "locked"}) => tokens = 0
    BY DEF TokensAreAnnounced
  <1>3. ASSUME \E t \in Threads : pc'[t] = "unlocked" PROVE tokens <= Cardinality(Notifiers')
    <2>1. Cardinality(Notifiers) <= Cardinality(Notifiers')
      BY <1>3, ActiveFinite, FS_Subset
    <2>2. tokens = 0 \/ tokens <= Cardinality(Notifiers)
      BY <1>3 DEF TokensAreAnnounced
    <2> QED
      BY <1>0, <2>1, <2>2, ActiveFinite
  <1>4. ASSUME cv' # {} PROVE tokens <= Cardinality(Active')
    <2>1. tokens <= Cardinality(Active) \/ tokens <= Cardinality(Notifiers)
      BY <1>4 DEF TokensAreAnnounced
    <2> QED
      BY <1>0, <1>1, <2>1, NotifiersAreActive, ActiveFinite
  <1> QED
    BY <1>0, <1>2, <1>3, <1>4 DEF TokensAreAnnounced

\* The steps on the two locks, a call, and the end of a wait.
LEMMA LocksAnnounced ==
    ASSUME Inv, NEW t \in Threads,
           \/ Enter(t) \/ Wake(t) \/ LockMutex(t) \/ Return(t) \/ Relock(t)
           \/ Unlock(t) \/ Block(t) \/ UnlockMutex(t) \/ DropCopy(t)
    PROVE  TokensAreAnnounced'
  <1> USE DEF Inv, TypeOK, Go
  <1>1. CASE Enter(t) \/ Wake(t) \/ Return(t) \/ Relock(t) \/ UnlockMutex(t) \/ DropCopy(t)
    <2> USE <1>1 DEF Enter, Wake, Return, Relock, UnlockMutex, DropCopy
    <2>1. UNCHANGED program /\ cv' \subseteq cv
      OBVIOUS
    <2>2. Active \subseteq Active' /\ Notifiers \subseteq Notifiers'
      BY DEF Active, Notifiers
    <2>3. \A u \in Threads : pc'[u] \in Before => pc'[u] = pc[u]
      BY DEF Before
    <2> HIDE <1>1
    <2> QED
      BY <2>1, <2>2, <2>3, StaysAnnounced DEF Before
  <1>2. CASE LockMutex(t) \/ Unlock(t) \/ Block(t)
    <2> USE <1>2 DEF LockMutex, Unlock, Block
    <2>1. UNCHANGED program /\ cv' \subseteq cv \cup {t} /\ pc[t] \in Before
      BY DEF Before
    <2>2. Active \subseteq Active' /\ Notifiers \subseteq Notifiers'
      BY DEF Active, Notifiers
    <2>3. /\ \A u \in Threads \ {t} : pc'[u] = pc[u]
          /\ pc'[t] = "locked" => pc[t] = "copied"
          /\ pc'[t] = "unlocked" => pc[t] = "locked"
          /\ pc'[t] # "copied"
          /\ cv' # cv => pc[t] = "unlocked"
      OBVIOUS
    <2> HIDE <1>2
    <2>4. (\E u \in Threads : pc'[u] \in {"copied", "locked"}) =>
             \E u \in Threads : pc[u] \in {"copied", "locked"}
      BY <2>3
    <2>5. (\E u \in Threads : pc'[u] = "unlocked") =>
             \E u \in Threads : pc[u] \in {"unlocked", "locked"}
      BY <2>3
    <2> QED
      BY <2>1, <2>2, <2>3, <2>4, <2>5, StaysAnnounced
  <1> QED
    BY <1>1, <1>2

\* A thread that has blocked or not yet let *__mut_ go holds a notification up.
LEMMA PassMutexAnnounced ==
    ASSUME Inv, NEW t \in Threads, PassMutex(t) PROVE TokensAreAnnounced'
  <1> USE DEF Inv, TypeOK, Go, PassMutex
  <1>1. UNCHANGED <<program, cv>>
    OBVIOUS
  <1>2. Active \subseteq Active'
    BY DEF Active
  <1>3. \A u \in Threads : pc'[u] \in Before => pc'[u] = pc[u]
    BY DEF Before
  <1>4. \A u \in Threads : pc[u] # "unlocked"
    BY NoneIsNoThread DEF LocksAreHeld
  <1> QED
    BY <1>1, <1>2, <1>3, <1>4, StaysAnnounced DEF Before

\* A token is posted and announced in one step.
LEMMA PostAnnounced == ASSUME Inv, NEW t \in Threads, Post(t) PROVE TokensAreAnnounced'
  <1> USE DEF Inv, TypeOK
  <1>0. tokens' = tokens + 1 /\ tokens \in Nat /\ ~closed /\ cv' = cv
    BY ConstantsAssumption DEF Post
  <1>1. pc[t] = "program" /\ pc'[t] = "notify_one" /\ \A u \in Threads \ {t} : pc'[u] = pc[u]
    BY DEF Post, Go
  <1>2. \A u \in Threads : pc'[u] \notin {"copied", "locked"}
    BY <1>1, NoneIsNoThread DEF Post, Keep, LocksAreHeld
  <1>3. Cardinality(Notifiers') = Cardinality(Notifiers) + 1
    <2>1. t \notin Notifiers /\ Notifiers' = Notifiers \cup {t}
      BY <1>1 DEF Notifiers
    <2> QED
      BY <2>1, ActiveFinite, FS_AddElement
  <1>4. Cardinality(Active') = Cardinality(Active) + 1
    <2>1. t \notin Active /\ Active' = Active \cup {t}
      BY <1>0, <1>1 DEF Active
    <2> QED
      BY <2>1, ActiveFinite, FS_AddElement
  <1>5. (\E u \in Threads : pc'[u] = "unlocked") => \E u \in Threads : pc[u] = "unlocked"
    BY <1>1
  <1> QED
    BY <1>0, <1>2, <1>3, <1>4, <1>5, ActiveFinite DEF TokensAreAnnounced

\* The thread whose wait is over takes a token, if there is one, and is not active
\* any more.
LEMMA LeaveAnnounced == ASSUME Inv, NEW t \in Threads, Leave(t) PROVE TokensAreAnnounced'
  <1> USE DEF Inv, TypeOK
  <1>0. tokens \in Nat /\ cv' = cv /\ closed' = closed
    BY ConstantsAssumption DEF Leave
  <1>1. pc[t] = "test" /\ pc'[t] = "program" /\ \A u \in Threads \ {t} : pc'[u] = pc[u]
    BY DEF Leave, Go
  <1>2. tokens' = IF tokens > 0 THEN tokens - 1 ELSE 0
    BY DEF Leave
  <1>3. CASE tokens > 0 /\ ~closed
    <2>1. tokens' = tokens - 1
      BY <1>2, <1>3
    <2>2. Notifiers' = Notifiers
      BY <1>1 DEF Notifiers
    <2>3. Cardinality(Active') = Cardinality(Active) - 1
      <3>1. t \in Active /\ Active' = Active \ {t}
        BY <1>0, <1>1 DEF Active
      <3> QED
        BY <3>1, ActiveFinite, FS_RemoveElement
    <2>4. /\ (\E u \in Threads : pc'[u] = "unlocked") => \E u \in Threads : pc[u] = "unlocked"
          /\ (\E u \in Threads : pc'[u] \in {"copied", "locked"}) =>
                \E u \in Threads : pc[u] \in {"copied", "locked"}
      BY <1>1
    <2> QED
      BY <1>0, <1>3, <2>1, <2>2, <2>3, <2>4, ActiveFinite DEF TokensAreAnnounced
  <1>4. CASE ~(tokens > 0) \/ closed
    BY <1>0, <1>2, <1>4, NothingToAnnounce
  <1> QED
    BY <1>3, <1>4

\* notify_one hands its announcement to a thread that sleeps.
LEMMA SignalOneAnnounced ==
    ASSUME Inv, NEW t \in Threads, SignalOne(t) PROVE TokensAreAnnounced'
  <1> USE DEF Inv, TypeOK
  <1>0. tokens' = tokens /\ closed' = closed
    BY DEF SignalOne, program
  <1>1. pc[t] = "signal_one" /\ pc'[t] = "program" /\ \A u \in Threads \ {t} : pc'[u] = pc[u]
    BY DEF SignalOne, Go
  <1>2. Notifiers' = Notifiers
    BY <1>1 DEF Notifiers
  <1>3. /\ (\E u \in Threads : pc'[u] = "unlocked") => \E u \in Threads : pc[u] = "unlocked"
        /\ (\E u \in Threads : pc'[u] \in {"copied", "locked"}) =>
              \E u \in Threads : pc[u] \in {"copied", "locked"}
    BY <1>1
  <1>4. CASE cv = {}
    <2>1. cv' = {}
      BY <1>4 DEF SignalOne
    <2> QED
      BY <1>0, <1>2, <1>3, <2>1 DEF TokensAreAnnounced
  <1>5. CASE cv # {}
    <2>1. PICK u \in cv : cv' = cv \ {u}
      BY <1>5 DEF SignalOne
    <2>2. u \in Threads /\ pc[u] = "waiting" /\ u # t
      BY <1>1, <2>1
    <2>3. t \in Active /\ u \notin Active \ {t} /\ Active' = (Active \ {t}) \cup {u}
      BY <1>1, <2>1, <2>2 DEF Active
    <2>4. IsFiniteSet(Active \ {t}) /\ Cardinality(Active \ {t}) = Cardinality(Active) - 1
      BY <2>3, ActiveFinite, FS_RemoveElement
    <2>5. Cardinality(Active') = Cardinality(Active \ {t}) + 1
      BY <2>3, <2>4, FS_AddElement
    <2>6. Cardinality(Active') = Cardinality(Active)
      BY <2>4, <2>5, ActiveFinite
    <2> QED
      BY <1>0, <1>2, <1>3, <1>5, <2>6 DEF TokensAreAnnounced
  <1> QED
    BY <1>4, <1>5

\* Every step keeps the tokens announced.
LEMMA NextAnnounced == ASSUME Inv, Next PROVE TokensAreAnnounced'
  <1>1. PICK t \in Threads :
           Enter(t) \/ Wake(t) \/ Post(t) \/ Close(t) \/ Locking(t) \/ Going(t)
    BY DEF Next
  <1>2. CASE Close(t) \/ SignalAll(t) \/ Destroy(t)
    <2>1. closed'
      BY <1>2 DEF Close, SignalAll, Destroy, Go, program, Inv, CloserHasClosed
    <2> QED
      BY <2>1, NothingToAnnounce
  <1>3. CASE Test(t)
    <2>1. CASE Leave(t)
      BY <2>1, LeaveAnnounced
    <2>2. CASE Copy(t) /\ ~(tokens > 0)
      <3>1. tokens' = 0
        BY <2>2, ConstantsAssumption DEF Copy, program, Inv, TypeOK
      <3> QED
        BY <3>1, NothingToAnnounce
    <2> QED
      BY <1>3, <2>1, <2>2 DEF Test
  <1> QED
    BY <1>1, <1>2, <1>3, LocksAnnounced, PassMutexAnnounced, PostAnnounced, SignalOneAnnounced
       DEF Locking, Going

\* Every step keeps the invariant.
LEMMA NextInv == Inv /\ [Next]_vars => Inv'
  <1> SUFFICES ASSUME Inv, [Next]_vars PROVE Inv'
    OBVIOUS
  <1>1. CASE UNCHANGED vars
    BY <1>1 DEF Inv, TypeOK, LocksAreHeld, CloserHasClosed, CloseReachesAll,
       NoUseAfterDestroy, TokensAreAnnounced, Notifiers, Active, vars, program
  <1>2. ASSUME NEW t \in Threads, Enter(t) \/ Wake(t) \/ Post(t) \/ Close(t)
        PROVE  Rest'
    BY <1>2, EnterInv, WakeInv, PostInv, CloseInv
  <1>3. ASSUME NEW t \in Threads, Locking(t)
        PROVE  Rest'
    BY <1>3, LockMutexInv, ReturnInv, RelockInv, PassMutexInv DEF Locking
  <1>4. ASSUME NEW t \in Threads, Going(t)
        PROVE  Rest'
    <2>1. CASE Test(t)
      BY <2>1, LeaveInv, CopyTestInv DEF Test
    <2>2. CASE Unlock(t) \/ Block(t) \/ UnlockMutex(t) \/ DropCopy(t)
      BY <2>2, UnlockInv, BlockInv, UnlockMutexInv, DropCopyInv
    <2>3. CASE SignalOne(t) \/ SignalAll(t) \/ Destroy(t)
      BY <2>3, SignalOneInv, SignalAllInv, DestroyInv
    <2> QED
      BY <1>4, <2>1, <2>2, <2>3 DEF Going
  <1> QED
    BY <1>1, <1>2, <1>3, <1>4, NextAnnounced DEF Next, Rest, Inv

\* The inductive invariant, for any number of threads.
THEOREM SpecInv == Spec => []Inv
  BY InitInv, NextInv, PTL DEF Spec

\* Nobody uses the condition variable after its destruction, as soon as all waiters
\* have been notified.
THEOREM SpecNoUseAfterDestroy == Spec => []NoUseAfterDestroy
  <1>1. Inv => NoUseAfterDestroy
    BY DEF Inv
  <1> QED
    BY <1>1, SpecInv, PTL

\* No notification is lost on a token: while threads sleep and the program is not
\* closed there are, for each token, threads about to notify or on their way to it.
THEOREM SpecTokensAreAnnounced == Spec => []TokensAreAnnounced
  <1>1. Inv => TokensAreAnnounced
    BY DEF Inv
  <1> QED
    BY <1>1, SpecInv, PTL
=============================================================================
