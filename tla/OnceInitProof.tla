---------------------------- MODULE OnceInitProof ----------------------------
(***************************************************************************)
(* Proofs about CxaGuard and CallOnce, the implementations of OnceInit,    *)
(* for any set of threads and of guards or flags, with initializers that   *)
(* nest, recur and throw in any way.                                       *)
(*                                                                         *)
(* The two are specifications of their own, with the variables of          *)
(* Initializers in common: a theorem is about one of them.                 *)
(***************************************************************************)
EXTENDS CxaGuard, CallOnce, TLAPS

-----------------------------------------------------------------------------
(* The guards.                                                             *)

\* Every step keeps the types.
LEMMA NextType == ASSUME TypeOK, Next PROVE TypeOK'
  <1> USE DEF TypeOK
  <1>1. ASSUME NEW t \in Threads, NEW o \in Objects, Reach(t, o) PROVE TypeOK'
    BY <1>1 DEF Reach
  <1>2. ASSUME NEW t \in Threads, SpuriousWake(t) PROVE TypeOK'
    BY <1>2 DEF SpuriousWake
  <1>3. ASSUME NEW t \in Threads, Acquire(t) PROVE TypeOK'
    <2>1. CASE ReturnReady(t, want[t])
      BY <1>3, <2>1 DEF Acquire, Runs, ReturnReady
    <2>2. CASE WaitOrAbort(t, want[t])
      <3>1. /\ UNCHANGED <<apple, initialized, lock, pc, want, stack, ready>>
            /\ guard_cv' \subseteq guard_cv \cup {t} /\ aborted' \in BOOLEAN
        BY <2>2 DEF WaitOrAbort
      <3>2. pc[t] = "acquire"
        BY <1>3 DEF Acquire, Runs
      <3>3. guard_cv' \subseteq {u \in Threads : pc'[u] = "acquire"}
        BY <3>1, <3>2
      <3> QED
        BY <3>1, <3>3
    <2>3. CASE ReturnLocked(t, want[t])
      BY <1>3, <2>3 DEF Acquire, Runs, ReturnLocked
    <2> QED
      BY <1>3, <2>1, <2>2, <2>3 DEF Acquire
  <1>4. ASSUME NEW t \in Threads, NEW o \in Objects, NEW done \in BOOLEAN, Finish(t, o, done)
        PROVE  TypeOK'
    <2>1. initialized' \in [Objects -> BOOLEAN]
      BY <1>4 DEF Finish
    <2>2. stack' \in [Threads -> Seq(Objects)]
      BY <1>4 DEF Finish
    <2>3. ready' \in [Threads -> SUBSET Objects]
      BY <1>4 DEF Finish
    <2> QED
      BY <1>4, <2>1, <2>2, <2>3 DEF Finish
  <1>5. ASSUME NEW t \in Threads, Broadcast(t) PROVE TypeOK'
    BY <1>5 DEF Broadcast
  <1> QED
    BY <1>1, <1>2, <1>3, <1>4, <1>5, ConstantsAssumption DEF Next, Release, Abort

\* Nobody is left asleep without somebody who is about to broadcast.
LEMMA NextKnown == ASSUME TypeOK, WaitersAreKnown, Next PROVE WaitersAreKnown'
  <1> USE DEF TypeOK, WaitersAreKnown
  <1>1. ASSUME NEW t \in Threads, NEW o \in Objects, Reach(t, o) PROVE WaitersAreKnown'
    BY <1>1 DEF Reach
  <1>2. ASSUME NEW t \in Threads, SpuriousWake(t) PROVE WaitersAreKnown'
    BY <1>2 DEF SpuriousWake
  <1>3. ASSUME NEW t \in Threads, Acquire(t) PROVE WaitersAreKnown'
    <2>1. pc[t] = "acquire" /\ t \notin guard_cv
      BY <1>3 DEF Acquire, Runs
    <2>2. CASE ReturnReady(t, want[t])
      BY <2>1, <2>2 DEF ReturnReady
    <2>3. CASE lock[want[t]] # Free /\ WaitOrAbort(t, want[t])
      <3>1. UNCHANGED <<lock, want, pc>> /\ guard_cv' \subseteq guard_cv \cup {t}
        BY <2>3 DEF WaitOrAbort
      <3> QED
        BY <2>3, <3>1
    <2>4. CASE ReturnLocked(t, want[t])
      <3>1. \A u \in Threads : pc[u] = "broadcast" => pc'[u] = "broadcast"
        BY <2>1, <2>4 DEF ReturnLocked
      <3>2. \A o \in Objects : lock[o] # Free => lock'[o] # Free
        BY <2>4, ConstantsAssumption DEF ReturnLocked, Free
      <3> QED
        BY <2>4, <3>1, <3>2 DEF ReturnLocked
    <2> QED
      BY <1>3, <2>2, <2>3, <2>4 DEF Acquire
  <1>4. ASSUME NEW t \in Threads, NEW o \in Objects, NEW done \in BOOLEAN, Finish(t, o, done)
        PROVE  WaitersAreKnown'
    <2>1. pc'[t] = "broadcast"
      BY <1>4 DEF Finish
    <2> QED
      BY <2>1
  <1>5. ASSUME NEW t \in Threads, Broadcast(t) PROVE WaitersAreKnown'
    BY <1>5 DEF Broadcast
  <1> QED
    BY <1>1, <1>2, <1>3, <1>4, <1>5, ConstantsAssumption DEF Next, Release, Abort

\* The invariant holds at the start.
LEMMA InitInv == Init => Inv
  <1> SUFFICES ASSUME Init PROVE Inv
    OBVIOUS
  <1>1. \A t \in Threads : stack[t] = <<>>
    BY DEF Init
  <1>2. initialized \in [Objects -> BOOLEAN] /\ aborted \in BOOLEAN
    BY DEF Init
  <1>3. stack \in [Threads -> Seq(Objects)] /\ ready \in [Threads -> SUBSET Objects]
    BY DEF Init
  <1>4. TypeOK
    BY <1>2, <1>3 DEF Init, TypeOK
  <1>5. WaitersAreKnown
    BY DEF Init, WaitersAreKnown
  <1> QED
    BY <1>1, <1>4, <1>5 DEF Init, Inv

\* A call that locks a free guard puts it on top of the stack of its thread.
LEMMA LockedStep ==
    ASSUME Inv, TypeOK', WaitersAreKnown', NEW t \in Threads, NEW o \in Objects,
           ~initialized[o], lock[o] = Free, ReturnLocked(t, o)
    PROVE  Inv'
  <1> USE DEF Inv, TypeOK, ReturnLocked
  <1>1. /\ Len(stack'[t]) = Len(stack[t]) + 1 /\ stack'[t][1] = o
        /\ \A i \in 1 .. Len(stack[t]) : stack'[t][i + 1] = stack[t][i]
        /\ \A i \in 2 .. Len(stack'[t]) : i - 1 \in 1 .. Len(stack[t]) /\ stack'[t][i] = stack[t][i - 1]
        /\ Len(stack[t]) \in Nat
    OBVIOUS
  <1>2. \A u \in Threads \ {t} : stack'[u] = stack[u]
    OBVIOUS
  <1>3. \A x \in Objects : lock'[x] = IF x = o THEN t ELSE lock[x]
    OBVIOUS
  <1>4. \A u \in Threads : \A i \in 1 .. Len(stack[u]) : stack[u][i] \in Objects \ {o}
    BY ConstantsAssumption DEF Free
  <1>5. \A x \in Objects : initialized'[x] => lock'[x] = Free
    BY <1>3
  <1>6. \A x \in Objects : lock'[x] # Free =>
            \E i \in 1 .. Len(stack'[lock'[x]]) : stack'[lock'[x]][i] = x
    <2> SUFFICES ASSUME NEW x \in Objects, lock'[x] # Free
                 PROVE  \E i \in 1 .. Len(stack'[lock'[x]]) : stack'[lock'[x]][i] = x
      OBVIOUS
    <2>1. CASE x = o
      BY <1>1, <1>3, <2>1
    <2>2. CASE x # o
      <3>1. PICK i \in 1 .. Len(stack[lock[x]]) : stack[lock[x]][i] = x
        BY <1>3, <2>2
      <3>2. lock'[x] = lock[x]
        BY <1>3, <2>2
      <3>3. CASE lock[x] = t
        <4>1. i + 1 \in 1 .. Len(stack'[t]) /\ stack'[t][i + 1] = x
          BY <1>1, <3>1, <3>3
        <4> QED
          BY <4>1, <3>2, <3>3
      <3>4. CASE lock[x] # t
        BY <1>2, <3>1, <3>2, <3>4
      <3> QED
        BY <3>3, <3>4
    <2> QED
      BY <2>1, <2>2
  <1>7. \A u \in Threads : \A i \in 1 .. Len(stack'[u]) : lock'[stack'[u][i]] = u
    <2> SUFFICES ASSUME NEW u \in Threads, NEW i \in 1 .. Len(stack'[u])
                 PROVE  lock'[stack'[u][i]] = u
      OBVIOUS
    <2>1. CASE u # t
      BY <1>2, <1>3, <1>4, <2>1
    <2>2. CASE u = t /\ i = 1
      BY <1>1, <1>3, <2>2
    <2>3. CASE u = t /\ i # 1
      BY <1>1, <1>3, <1>4, <2>3
    <2> QED
      BY <2>1, <2>2, <2>3
  <1>8. \A u \in Threads : \A i, j \in 1 .. Len(stack'[u]) : stack'[u][i] = stack'[u][j] => i = j
    <2> SUFFICES ASSUME NEW u \in Threads, NEW i \in 1 .. Len(stack'[u]), NEW j \in 1 .. Len(stack'[u]),
                        stack'[u][i] = stack'[u][j]
                 PROVE  i = j
      OBVIOUS
    <2>1. CASE u # t
      BY <1>2, <2>1
    <2>2. CASE u = t /\ i # 1 /\ j # 1
      <3>1. i \in 2 .. Len(stack'[t]) /\ j \in 2 .. Len(stack'[t])
        BY <1>1, <2>2
      <3>2. /\ i - 1 \in 1 .. Len(stack[t]) /\ j - 1 \in 1 .. Len(stack[t])
            /\ stack[t][i - 1] = stack[t][j - 1]
        BY <1>1, <2>2, <3>1
      <3>3. i - 1 = j - 1
        BY <3>2
      <3> QED
        BY <3>1, <3>3
    <2>3. ASSUME u = t, NEW k \in 2 .. Len(stack'[t]) PROVE stack'[t][k] # o
      BY <1>1, <1>4
    <2>4. CASE u = t /\ i = 1 /\ j # 1
      <3>1. j \in 2 .. Len(stack'[t]) /\ stack'[t][j] = o
        BY <1>1, <2>4
      <3> QED
        BY <2>3, <2>4, <3>1
    <2>5. CASE u = t /\ j = 1 /\ i # 1
      <3>1. i \in 2 .. Len(stack'[t]) /\ stack'[t][i] = o
        BY <1>1, <2>5
      <3> QED
        BY <2>3, <2>5, <3>1
    <2>6. CASE i = j
      BY <2>6
    <2>7. i = 1 /\ j = 1 => i = j
      OBVIOUS
    <2> HIDE DEF Inv, TypeOK, ReturnLocked
    <2> QED
      BY <2>1, <2>2, <2>4, <2>5, <2>6, <2>7
  <1> QED
    BY <1>5, <1>6, <1>7, <1>8

\* An initializer that ends unlocks its guard, which is on top of the stack.
LEMMA FinishStep ==
    ASSUME Inv, TypeOK', WaitersAreKnown', NEW t \in Threads, NEW o \in Objects, NEW done \in BOOLEAN,
           Finish(t, o, done)
    PROVE  Inv'
  <1> USE DEF Inv, TypeOK, Finish
  <1>1. /\ stack[t] # <<>> /\ stack[t][1] = o /\ stack'[t] = Tail(stack[t])
        /\ Len(stack[t]) \in Nat \ {0}
    OBVIOUS
  <1>2. /\ Len(stack'[t]) = Len(stack[t]) - 1
        /\ \A i \in 1 .. Len(stack'[t]) :
              i + 1 \in 1 .. Len(stack[t]) /\ stack'[t][i] = stack[t][i + 1]
    BY <1>1
  <1>3. \A u \in Threads \ {t} : stack'[u] = stack[u]
    OBVIOUS
  <1>4. \A x \in Objects : lock'[x] = IF x = o THEN Free ELSE lock[x]
    OBVIOUS
  <1>5. \A i \in 1 .. Len(stack'[t]) : stack'[t][i] \in Objects \ {o}
    BY <1>1, <1>2
  <1>6. lock[o] = t
    BY <1>1
  <1>7. \A x \in Objects : initialized'[x] => lock'[x] = Free
    BY <1>4
  <1>8. \A x \in Objects : lock'[x] # Free =>
            \E i \in 1 .. Len(stack'[lock'[x]]) : stack'[lock'[x]][i] = x
    <2> SUFFICES ASSUME NEW x \in Objects, lock'[x] # Free
                 PROVE  \E i \in 1 .. Len(stack'[lock'[x]]) : stack'[lock'[x]][i] = x
      OBVIOUS
    <2>1. x # o /\ lock'[x] = lock[x]
      BY <1>4
    <2>2. PICK i \in 1 .. Len(stack[lock[x]]) : stack[lock[x]][i] = x
      BY <2>1
    <2>3. CASE lock[x] = t
      <3>1. i # 1
        BY <1>1, <2>1, <2>2, <2>3
      <3>2. i - 1 \in 1 .. Len(stack'[t])
        BY <1>1, <1>2, <2>2, <2>3, <3>1
      <3>3. stack'[t][i - 1] = x
        BY <1>2, <2>2, <2>3, <3>2
      <3> QED
        BY <2>1, <2>3, <3>2, <3>3
    <2>4. CASE lock[x] # t
      BY <1>3, <2>1, <2>2, <2>4
    <2> QED
      BY <2>3, <2>4
  <1>9. \A u \in Threads : \A i \in 1 .. Len(stack'[u]) : lock'[stack'[u][i]] = u
    <2> SUFFICES ASSUME NEW u \in Threads, NEW i \in 1 .. Len(stack'[u])
                 PROVE  lock'[stack'[u][i]] = u
      OBVIOUS
    <2>1. CASE u = t
      BY <1>2, <1>4, <1>5, <2>1
    <2>2. CASE u # t
      BY <1>3, <1>4, <1>6, <2>2
    <2> QED
      BY <2>1, <2>2
  <1>10. \A u \in Threads : \A i, j \in 1 .. Len(stack'[u]) : stack'[u][i] = stack'[u][j] => i = j
    <2> SUFFICES ASSUME NEW u \in Threads, NEW i \in 1 .. Len(stack'[u]), NEW j \in 1 .. Len(stack'[u]),
                        stack'[u][i] = stack'[u][j]
                 PROVE  i = j
      OBVIOUS
    <2>1. CASE u = t
      BY <1>2, <2>1
    <2>2. CASE u # t
      BY <1>3, <2>2
    <2> QED
      BY <2>1, <2>2
  <1> QED
    BY <1>7, <1>8, <1>9, <1>10

\* A step that leaves the guards and the stacks alone.
LEMMA OtherStep ==
    ASSUME Inv, TypeOK', WaitersAreKnown', UNCHANGED <<initialized, lock, stack>>
    PROVE  Inv'
  BY DEF Inv

\* Every step keeps the invariant.
LEMMA NextInv == ASSUME Inv, [Next]_vars PROVE Inv'
  <1>1. CASE UNCHANGED vars
    BY <1>1 DEF vars, Inv, TypeOK, WaitersAreKnown
  <1>2. CASE Next
    <2>1. TypeOK' /\ WaitersAreKnown'
      BY <1>2, NextType, NextKnown DEF Inv
    <2> PICK t \in Threads :
          \/ \E o \in Objects : Reach(t, o)
          \/ SpuriousWake(t) \/ Acquire(t) \/ Release(t) \/ Abort(t) \/ Broadcast(t)
      BY <1>2 DEF Next
    <2>2. CASE (\E o \in Objects : Reach(t, o)) \/ SpuriousWake(t) \/ Broadcast(t)
      BY <2>1, <2>2, OtherStep DEF Reach, SpuriousWake, Broadcast
    <2>3. CASE Acquire(t)
      <3>1. want[t] \in Objects
        BY DEF Inv, TypeOK
      <3>2. CASE ReturnReady(t, want[t]) \/ WaitOrAbort(t, want[t])
        BY <2>1, <3>2, OtherStep DEF ReturnReady, WaitOrAbort
      <3>3. CASE ~initialized[want[t]] /\ lock[want[t]] = Free /\ ReturnLocked(t, want[t])
        BY <2>1, <3>1, <3>3, LockedStep
      <3> QED
        BY <2>3, <3>2, <3>3 DEF Acquire
    <2>4. CASE Release(t) \/ Abort(t)
      BY <2>1, <2>4, FinishStep, ConstantsAssumption DEF Release, Abort
    <2> QED
      BY <2>2, <2>3, <2>4
  <1> QED
    BY <1>1, <1>2

\* The lock of a guard names the one thread that runs the initializer, and an
\* initialized guard is not locked (__cxa_guard_acquire, _release, _abort).
THEOREM SpecInv == Spec => []Inv
  BY InitInv, NextInv, PTL DEF Spec

\* No thread sleeps on a guard that nobody has locked, unless somebody is about to
\* broadcast (__cxa_guard_release, __cxa_guard_abort).
THEOREM SpecWaitersAreKnown == Spec => []WaitersAreKnown
  <1>1. Inv => WaitersAreKnown
    BY DEF Inv
  <1> QED
    BY <1>1, SpecInv, PTL

\* The guards implement one-time initialization, for any number of threads and
\* guards that share one mutex and one condition variable.
THEOREM SpecImplementsOnce == Spec => ImplementsOnce
  <1> DEFINE runs == [o \in Objects |-> IF initialized[o] THEN "done"
                                        ELSE IF lock[o] = Free THEN "nobody" ELSE lock[o]]
  <1>1. Init => Once!Init
    BY DEF Init, Once!Init
  <1>2. ASSUME Inv, [Next]_vars PROVE [Once!Next]_<<runs, ready>>
    <2> USE DEF Inv, TypeOK
    <2>1. CASE UNCHANGED <<initialized, lock, ready>>
      BY <2>1
    <2> SUFFICES ASSUME Next PROVE Once!Next \/ UNCHANGED <<runs, ready>>
      BY <1>2, <2>1 DEF vars
    <2> PICK t \in Threads :
          \/ \E o \in Objects : Reach(t, o)
          \/ SpuriousWake(t) \/ Acquire(t) \/ Release(t) \/ Abort(t) \/ Broadcast(t)
      BY DEF Next
    <2>2. CASE (\E o \in Objects : Reach(t, o)) \/ SpuriousWake(t) \/ Broadcast(t)
      BY <2>1, <2>2 DEF Reach, SpuriousWake, Broadcast
    <2>3. CASE Acquire(t)
      <3> DEFINE o == want[t]
      <3>1. o \in Objects
        BY <1>2
      <3>2. CASE initialized[o] /\ ReturnReady(t, o)
        <4>1. Once!Tell(t, o)
          BY <3>1, <3>2 DEF ReturnReady, Once!Tell
        <4> QED
          BY <3>1, <4>1 DEF Once!Next
      <3>3. CASE WaitOrAbort(t, o)
        BY <2>1, <3>3 DEF WaitOrAbort
      <3>4. CASE ~initialized[o] /\ lock[o] = Free /\ ReturnLocked(t, o)
        <4>a. initialized' = initialized /\ lock' = [lock EXCEPT ![o] = t] /\ t # Free
          BY <3>4, ConstantsAssumption DEF ReturnLocked, Free
        <4>b. ASSUME NEW x \in Objects
              PROVE  (IF initialized'[x] THEN "done"
                      ELSE IF lock'[x] = Free THEN "nobody" ELSE lock'[x])
                     = [runs EXCEPT ![o] = t][x]
          <5>1. CASE x = o
            BY <1>2, <3>1, <3>4, <4>a, <5>1
          <5>2. CASE x # o
            BY <1>2, <3>1, <4>a, <5>2
          <5> QED
            BY <5>1, <5>2
        <4>1. runs' = [runs EXCEPT ![o] = t]
          BY <4>b, <3>1
        <4>2. runs[o] = "nobody" /\ ready' = ready
          BY <3>1, <3>4 DEF ReturnLocked
        <4> QED
          BY <3>1, <4>1, <4>2 DEF Once!Start, Once!Next
      <3>5. \/ initialized[o] /\ ReturnReady(t, o)
            \/ WaitOrAbort(t, o)
            \/ ~initialized[o] /\ lock[o] = Free /\ ReturnLocked(t, o)
        BY <2>3 DEF Acquire
      <3> HIDE DEF o
      <3> HIDE DEF Inv, TypeOK
      <3> QED
        BY <3>2, <3>3, <3>4, <3>5, Zenon
    <2>4. ASSUME NEW o \in Objects, NEW done \in BOOLEAN, Finish(t, o, done)
          PROVE  Once!Next
      <3>1. o = stack[t][1] /\ 1 \in 1 .. Len(stack[t])
        BY <1>2, <2>4 DEF Finish
      <3>2. lock[o] = t /\ ~initialized[o]
        BY <1>2, <3>1, ConstantsAssumption DEF Free
      <3>3. runs[o] = t
        BY <3>2, ConstantsAssumption DEF Free
      <3>4. runs' = [runs EXCEPT ![o] = IF done THEN "done" ELSE "nobody"]
        BY <1>2, <2>4 DEF Finish
      <3>5. CASE done
        <4>1. ready' = [ready EXCEPT ![t] = @ \cup {o}]
          BY <2>4, <3>5 DEF Finish
        <4> QED
          BY <3>3, <3>4, <3>5, <4>1 DEF Once!Complete, Once!Next
      <3>6. CASE ~done
        <4>1. ready' = ready
          BY <1>2, <2>4, <3>6 DEF Finish
        <4> QED
          BY <3>3, <3>4, <3>6, <4>1 DEF Once!Fail, Once!Next
      <3> QED
        BY <3>5, <3>6
    <2> QED
      BY <2>2, <2>3, <2>4, ConstantsAssumption DEF Release, Abort
  <1> QED
    BY <1>1, <1>2, SpecInv, PTL DEF Spec, ImplementsOnce, Once!Spec

\* On Apple systems no thread waits for an initializer that it runs itself.
THEOREM SpecNoSelfWait == Spec => []NoSelfWait
  <1>1. Init => NoSelfWait
    BY DEF Init, NoSelfWait
  <1>2. ASSUME Inv, NoSelfWait, [Next]_vars PROVE NoSelfWait'
    <2> USE DEF Inv, TypeOK, NoSelfWait
    <2>1. CASE UNCHANGED vars
      BY <1>2, <2>1 DEF vars
    <2> SUFFICES ASSUME Next PROVE NoSelfWait'
      BY <1>2, <2>1
    <2> PICK t \in Threads :
          \/ \E o \in Objects : Reach(t, o)
          \/ SpuriousWake(t) \/ Acquire(t) \/ Release(t) \/ Abort(t) \/ Broadcast(t)
      BY DEF Next
    <2>2. CASE \E o \in Objects : Reach(t, o)
      BY <1>2, <2>2 DEF Reach
    <2>3. CASE SpuriousWake(t) \/ Broadcast(t)
      BY <1>2, <2>3 DEF SpuriousWake, Broadcast
    <2>4. CASE Acquire(t)
      <3>1. t \notin guard_cv
        BY <2>4 DEF Acquire, Runs
      <3>2. CASE ReturnReady(t, want[t])
        BY <1>2, <3>2 DEF ReturnReady
      <3>3. CASE WaitOrAbort(t, want[t])
        <4>1. apple => lock[want[t]] # t \/ UNCHANGED <<guard_cv, lock, want>>
          BY <3>3 DEF WaitOrAbort
        <4>2. UNCHANGED <<apple, lock, want>> /\ guard_cv' \subseteq guard_cv \cup {t}
          BY <3>3 DEF WaitOrAbort
        <4> QED
          BY <1>2, <4>1, <4>2
      <3>4. CASE ReturnLocked(t, want[t])
        BY <1>2, <3>1, <3>4 DEF ReturnLocked
      <3> QED
        BY <2>4, <3>2, <3>3, <3>4 DEF Acquire
    <2>5. ASSUME NEW o \in Objects, NEW done \in BOOLEAN, Finish(t, o, done)
          PROVE  NoSelfWait'
      BY <1>2, <2>5, ConstantsAssumption DEF Finish, Free
    <2> QED
      BY <2>2, <2>3, <2>4, <2>5, ConstantsAssumption DEF Release, Abort
  <1> QED
    BY <1>1, <1>2, SpecInv, PTL DEF Spec

-----------------------------------------------------------------------------
(* The flags of call_once.                                                 *)

\* Every step keeps the types.
LEMMA FlagNextType == ASSUME FlagTypeOK, FlagNext PROVE FlagTypeOK'
  <1> USE DEF FlagTypeOK, Idle, Running, Done
  <1>1. ASSUME NEW t \in Threads, NEW o \in Objects, Call(t, o) PROVE FlagTypeOK'
    <2>1. CASE Skip(t, o)
      BY <2>1 DEF Skip
    <2>2. CASE Enter(t, o)
      BY <1>1, <2>2 DEF Call, Enter
    <2> QED
      BY <1>1, <2>1, <2>2 DEF Call
  <1>2. ASSUME NEW t \in Threads, FlagSpuriousWake(t) PROVE FlagTypeOK'
    BY <1>2 DEF FlagSpuriousWake
  <1>3. ASSUME NEW t \in Threads, Test(t) PROVE FlagTypeOK'
    <2>1. CASE Wait(t)
      BY <1>3, <2>1 DEF Test, Wait
    <2>2. CASE Start(t, want[t])
      BY <1>3, <2>2 DEF Test, Start
    <2>3. CASE ReturnDone(t, want[t])
      BY <1>3, <2>3 DEF Test, ReturnDone
    <2> QED
      BY <1>3, <2>1, <2>2, <2>3 DEF Test
  <1>4. ASSUME NEW t \in Threads, NEW o \in Objects, NEW ok \in BOOLEAN, End(t, o, ok)
        PROVE  FlagTypeOK'
    <2>1. state' \in [Objects -> {Idle, Running, Done}]
      BY <1>4 DEF End
    <2>2. stack' \in [Threads -> Seq(Objects)]
      BY <1>4 DEF End
    <2>3. ready' \in [Threads -> SUBSET Objects]
      BY <1>4 DEF End
    <2> QED
      BY <1>4, <2>1, <2>2, <2>3 DEF End
  <1>5. ASSUME NEW t \in Threads, FlagBroadcast(t) PROVE FlagTypeOK'
    BY <1>5 DEF FlagBroadcast
  <1> QED
    BY <1>1, <1>2, <1>3, <1>4, <1>5, ConstantsAssumption DEF FlagNext, Return, Throw

\* Nobody is left asleep without somebody who is about to broadcast.
LEMMA FlagNextKnown ==
    ASSUME FlagTypeOK, FlagWaitersAreKnown, FlagNext PROVE FlagWaitersAreKnown'
  <1> USE DEF FlagTypeOK, FlagWaitersAreKnown
  <1>1. ASSUME NEW t \in Threads, NEW o \in Objects, Call(t, o) PROVE FlagWaitersAreKnown'
    BY <1>1 DEF Call, Skip, Enter
  <1>2. ASSUME NEW t \in Threads, FlagSpuriousWake(t) PROVE FlagWaitersAreKnown'
    BY <1>2 DEF FlagSpuriousWake
  <1>3. ASSUME NEW t \in Threads, Test(t) PROVE FlagWaitersAreKnown'
    <2>1. pc[t] = "__call_once" /\ t \notin cv
      BY <1>3 DEF Test
    <2>2. CASE state[want[t]] = Running /\ Wait(t)
      BY <2>2 DEF Wait
    <2>3. CASE Start(t, want[t])
      <3>1. \A u \in Threads : pc[u] = "broadcast" => pc'[u] = "broadcast"
        BY <2>1, <2>3 DEF Start
      <3>2. \A o \in Objects : state[o] = Running => state'[o] = Running
        BY <2>3 DEF Start
      <3> QED
        BY <2>3, <3>1, <3>2 DEF Start
    <2>4. CASE ReturnDone(t, want[t])
      BY <2>1, <2>4 DEF ReturnDone
    <2> QED
      BY <1>3, <2>2, <2>3, <2>4 DEF Test, Idle, Running, Done
  <1>4. ASSUME NEW t \in Threads, NEW o \in Objects, NEW ok \in BOOLEAN, End(t, o, ok)
        PROVE  FlagWaitersAreKnown'
    <2>1. pc'[t] = "broadcast"
      BY <1>4 DEF End
    <2> QED
      BY <2>1
  <1>5. ASSUME NEW t \in Threads, FlagBroadcast(t) PROVE FlagWaitersAreKnown'
    BY <1>5 DEF FlagBroadcast
  <1> QED
    BY <1>1, <1>2, <1>3, <1>4, <1>5, ConstantsAssumption DEF FlagNext, Return, Throw

\* The invariant holds at the start.
LEMMA FlagInitInv == FlagInit => FlagInv
  <1> SUFFICES ASSUME FlagInit PROVE FlagInv
    OBVIOUS
  <1>1. \A t \in Threads : stack[t] = <<>>
    BY DEF FlagInit
  <1>2. stack \in [Threads -> Seq(Objects)] /\ ready \in [Threads -> SUBSET Objects]
    BY DEF FlagInit
  <1>3. FlagTypeOK
    BY <1>2 DEF FlagInit, FlagTypeOK, Idle
  <1>4. \A o \in Objects : state[o] # Running
    BY DEF FlagInit, Idle, Running
  <1>5. FlagWaitersAreKnown
    BY DEF FlagInit, FlagWaitersAreKnown
  <1> QED
    BY <1>1, <1>3, <1>4, <1>5 DEF FlagInv, RunsFunction

\* No function runs twice.
LEMMA FlagStacksDiffer ==
    ASSUME FlagInv, NEW t \in Threads, NEW u \in Threads, NEW i \in 1 .. Len(stack[t]),
           NEW j \in 1 .. Len(stack[u]), stack[t][i] = stack[u][j]
    PROVE  t = u /\ i = j
  BY DEF FlagInv

\* A thread that starts the function of a flag that is 0.
LEMMA FlagStartStep ==
    ASSUME FlagInv, FlagTypeOK', FlagWaitersAreKnown', NEW t \in Threads, NEW o \in Objects,
           state[o] = Idle, Start(t, o)
    PROVE  /\ FlagInv'
           /\ RunsFunction(t, o)'
           /\ \A u \in Threads, x \in Objects \ {o} : RunsFunction(u, x)' <=> RunsFunction(u, x)
  <1> USE DEF FlagInv, FlagTypeOK, Start, Idle, Running
  <1>1. /\ Len(stack'[t]) = Len(stack[t]) + 1 /\ stack'[t][1] = o
        /\ \A i \in 1 .. Len(stack[t]) : stack'[t][i + 1] = stack[t][i]
        /\ \A i \in 2 .. Len(stack'[t]) :
              i - 1 \in 1 .. Len(stack[t]) /\ stack'[t][i] = stack[t][i - 1]
        /\ Len(stack[t]) \in Nat
    OBVIOUS
  <1>2. \A u \in Threads \ {t} : stack'[u] = stack[u]
    OBVIOUS
  <1>3. \A x \in Objects : state'[x] = IF x = o THEN Running ELSE state[x]
    OBVIOUS
  <1>4. \A u \in Threads : \A i \in 1 .. Len(stack[u]) : stack[u][i] # o
    <2> HIDE DEF FlagTypeOK, Start
    <2> SUFFICES ASSUME NEW u \in Threads, NEW i \in 1 .. Len(stack[u]), stack[u][i] = o
                 PROVE  FALSE
      OBVIOUS
    <2>1. RunsFunction(u, o)
      BY DEF RunsFunction
    <2>2. state[o] = Running
      BY <2>1
    <2> QED
      BY <2>2
  <1>5. RunsFunction(t, o)'
    BY <1>1 DEF RunsFunction
  <1>6. ASSUME NEW u \in Threads, NEW x \in Objects \ {o} PROVE RunsFunction(u, x)' <=> RunsFunction(u, x)
    <2>1. CASE u # t
      BY <1>2, <2>1 DEF RunsFunction
    <2>2. CASE u = t
      <3>1. ASSUME NEW i \in 1 .. Len(stack[t]), stack[t][i] = x PROVE RunsFunction(t, x)'
        <4>1. i + 1 \in 1 .. Len(stack'[t])
          BY <1>1
        <4> QED
          BY <1>1, <3>1, <4>1 DEF RunsFunction
      <3>2. ASSUME NEW i \in 1 .. Len(stack'[t]), stack'[t][i] = x PROVE RunsFunction(t, x)
        <4>1. i \in 2 .. Len(stack'[t])
          BY <1>1, <3>2
        <4> QED
          BY <1>1, <3>2, <4>1 DEF RunsFunction
      <3> QED
        BY <2>2, <3>1, <3>2 DEF RunsFunction
    <2> QED
      BY <2>1, <2>2
  <1>7. \A x \in Objects : state'[x] = Running <=> \E u \in Threads : RunsFunction(u, x)'
    BY <1>3, <1>5, <1>6
  <1>8. ASSUME NEW u \in Threads, NEW i \in 2 .. Len(stack'[t]) PROVE stack'[t][i] # o
    BY <1>1, <1>4
  <1>9. ASSUME NEW u \in Threads, NEW v \in Threads, NEW i \in 1 .. Len(stack'[u]),
               NEW j \in 1 .. Len(stack'[v]), stack'[u][i] = stack'[v][j]
        PROVE  u = v /\ i = j
    <2>1. CASE stack'[u][i] = o
      <3>1. u = t /\ i = 1
        BY <1>1, <1>2, <1>4, <1>8, <2>1
      <3>2. v = t /\ j = 1
        BY <1>1, <1>2, <1>4, <1>8, <1>9, <2>1
      <3> QED
        BY <3>1, <3>2
    <2>2. CASE stack'[u][i] # o
      <3> DEFINE m == IF u = t THEN i - 1 ELSE i
      <3> DEFINE n == IF v = t THEN j - 1 ELSE j
      <3>1. m \in 1 .. Len(stack[u]) /\ stack[u][m] = stack'[u][i]
        <4>1. CASE u = t
          <5>1. i \in 2 .. Len(stack'[t])
            BY <1>1, <2>2, <4>1
          <5> QED
            BY <1>1, <4>1, <5>1
        <4>2. CASE u # t
          BY <1>2, <4>2
        <4> QED
          BY <4>1, <4>2
      <3>2. n \in 1 .. Len(stack[v]) /\ stack[v][n] = stack'[v][j]
        <4>1. CASE v = t
          <5>1. j \in 2 .. Len(stack'[t])
            BY <1>1, <1>9, <2>2, <4>1
          <5> QED
            BY <1>1, <4>1, <5>1
        <4>2. CASE v # t
          BY <1>2, <4>2
        <4> QED
          BY <4>1, <4>2
      <3>3. stack[u][m] = stack[v][n]
        BY <1>9, <3>1, <3>2
      <3> HIDE DEF m, n, FlagInv, FlagTypeOK, Start
      <3>4. u = v /\ m = n
        BY <3>1, <3>2, <3>3, FlagStacksDiffer
      <3> QED
        BY <3>4 DEF m, n
    <2> QED
      BY <2>1, <2>2
  <1> QED
    BY <1>5, <1>6, <1>7, <1>9

\* A function that ends is the newest of its thread, and runs nowhere else.
LEMMA FlagEndStep ==
    ASSUME FlagInv, FlagTypeOK', FlagWaitersAreKnown', NEW t \in Threads, NEW o \in Objects, NEW ok \in BOOLEAN,
           End(t, o, ok)
    PROVE  /\ FlagInv'
           /\ RunsFunction(t, o) /\ state[o] = Running
           /\ \A u \in Threads, x \in Objects \ {o} : RunsFunction(u, x)' <=> RunsFunction(u, x)
  <1> USE DEF FlagInv, FlagTypeOK, End, Idle, Running, Done
  <1>1. /\ stack[t] # <<>> /\ stack[t][1] = o /\ stack'[t] = Tail(stack[t])
        /\ Len(stack[t]) \in Nat \ {0}
    OBVIOUS
  <1>2. /\ Len(stack'[t]) = Len(stack[t]) - 1
        /\ \A i \in 1 .. Len(stack'[t]) :
              i + 1 \in 1 .. Len(stack[t]) /\ stack'[t][i] = stack[t][i + 1]
    BY <1>1
  <1>3. \A u \in Threads \ {t} : stack'[u] = stack[u]
    OBVIOUS
  <1>4. \A x \in Objects : state'[x] = IF x = o THEN (IF ok THEN Done ELSE Idle) ELSE state[x]
    OBVIOUS
  <1>5. \A u \in Threads : \A i \in 1 .. Len(stack[u]) : stack[u][i] = o => u = t /\ i = 1
    BY <1>1
  <1>6. \A u \in Threads : \A i \in 1 .. Len(stack'[u]) : stack'[u][i] # o
    BY <1>2, <1>3, <1>5
  <1>7. RunsFunction(t, o) /\ state[o] = Running
    <2>1. RunsFunction(t, o)
      BY <1>1 DEF RunsFunction
    <2> QED
      BY <2>1
  <1>8. ASSUME NEW u \in Threads, NEW x \in Objects \ {o} PROVE RunsFunction(u, x)' <=> RunsFunction(u, x)
    <2>1. CASE u # t
      BY <1>3, <2>1 DEF RunsFunction
    <2>2. CASE u = t
      <3>1. ASSUME NEW i \in 1 .. Len(stack[t]), stack[t][i] = x PROVE RunsFunction(t, x)'
        <4>1. i # 1
          BY <1>1, <3>1
        <4>2. i - 1 \in 1 .. Len(stack'[t])
          BY <1>1, <1>2, <4>1
        <4>3. stack'[t][i - 1] = x
          BY <1>2, <3>1, <4>2
        <4> QED
          BY <4>2, <4>3 DEF RunsFunction
      <3>2. ASSUME NEW i \in 1 .. Len(stack'[t]), stack'[t][i] = x PROVE RunsFunction(t, x)
        BY <1>2, <3>2 DEF RunsFunction
      <3> QED
        BY <2>2, <3>1, <3>2 DEF RunsFunction
    <2> QED
      BY <2>1, <2>2
  <1>9. \A x \in Objects : state'[x] = Running <=> \E u \in Threads : RunsFunction(u, x)'
    <2> SUFFICES ASSUME NEW x \in Objects
                 PROVE  state'[x] = Running <=> \E u \in Threads : RunsFunction(u, x)'
      OBVIOUS
    <2>1. CASE x = o
      BY <1>4, <1>6, <2>1 DEF RunsFunction
    <2>2. CASE x # o
      BY <1>4, <1>8, <2>2
    <2> QED
      BY <2>1, <2>2
  <1>10. ASSUME NEW u \in Threads, NEW v \in Threads, NEW i \in 1 .. Len(stack'[u]),
                NEW j \in 1 .. Len(stack'[v]), stack'[u][i] = stack'[v][j]
         PROVE  u = v /\ i = j
    <2> DEFINE m == IF u = t THEN i + 1 ELSE i
    <2> DEFINE n == IF v = t THEN j + 1 ELSE j
    <2>1. m \in 1 .. Len(stack[u]) /\ stack[u][m] = stack'[u][i]
      BY <1>2, <1>3
    <2>2. n \in 1 .. Len(stack[v]) /\ stack[v][n] = stack'[v][j]
      BY <1>2, <1>3
    <2>3. u = v /\ m = n
      BY <1>10, <2>1, <2>2
    <2> QED
      BY <2>3
  <1> QED
    BY <1>7, <1>8, <1>9, <1>10

\* A step that leaves the flags and the stacks alone.
LEMMA FlagOtherStep == ASSUME FlagInv, FlagTypeOK', FlagWaitersAreKnown', UNCHANGED <<state, stack>> PROVE FlagInv'
  BY DEF FlagInv, RunsFunction

\* Every step keeps the invariant.
LEMMA FlagNextInv == ASSUME FlagInv, [FlagNext]_flagVars PROVE FlagInv'
  <1>1. CASE UNCHANGED flagVars
    BY <1>1 DEF flagVars, FlagInv, FlagTypeOK, RunsFunction, FlagWaitersAreKnown
  <1>2. CASE FlagNext
    <2>1. FlagTypeOK' /\ FlagWaitersAreKnown'
      BY <1>2, FlagNextType, FlagNextKnown DEF FlagInv
    <2> PICK t \in Threads :
          \/ \E o \in Objects : Call(t, o)
          \/ FlagSpuriousWake(t) \/ Test(t) \/ Return(t) \/ Throw(t)
          \/ FlagBroadcast(t)
      BY <1>2 DEF FlagNext
    <2>2. CASE (\E o \in Objects : Call(t, o)) \/ FlagSpuriousWake(t) \/ FlagBroadcast(t)
      BY <2>1, <2>2, FlagOtherStep
      DEF Call, Skip, Enter, FlagSpuriousWake, FlagBroadcast
    <2>3. CASE Test(t)
      <3>1. want[t] \in Objects /\ state[want[t]] \in {Idle, Running, Done}
        BY DEF FlagInv, FlagTypeOK
      <3>2. CASE Wait(t) \/ ReturnDone(t, want[t])
        BY <2>1, <3>2, FlagOtherStep DEF ReturnDone, Wait
      <3>3. CASE state[want[t]] = Idle /\ Start(t, want[t])
        BY <2>1, <3>1, <3>3, FlagStartStep
      <3> QED
        BY <2>3, <3>1, <3>2, <3>3 DEF Test, Idle, Running, Done
    <2>4. CASE Return(t) \/ Throw(t)
      BY <2>1, <2>4, FlagEndStep, ConstantsAssumption DEF Return, Throw
    <2> QED
      BY <2>2, <2>3, <2>4
  <1> QED
    BY <1>1, <1>2

\* A flag is 1 while exactly one activation of its function runs (__call_once).
THEOREM FlagSpecInv == FlagSpec => []FlagInv
  BY FlagInitInv, FlagNextInv, PTL DEF FlagSpec

\* No thread sleeps on a flag whose function nobody runs, unless somebody is about to
\* broadcast (__call_once).
THEOREM FlagSpecWaitersAreKnown == FlagSpec => []FlagWaitersAreKnown
  <1>1. FlagInv => FlagWaitersAreKnown
    BY DEF FlagInv
  <1> QED
    BY <1>1, FlagSpecInv, PTL

\* call_once implements one-time initialization for any number of threads and
\* flags that share one mutex and one condition variable, with the test of the
\* flag that takes no lock.
THEOREM FlagSpecImplementsOnce == FlagSpec => FlagImplementsOnce
  <1> DEFINE runner(o) == CHOOSE t \in Threads : RunsFunction(t, o)
  <1> DEFINE runs == [o \in Objects |-> IF state[o] = Done THEN "done"
                                      ELSE IF state[o] = Idle THEN "nobody"
                                      ELSE runner(o)]
  <1>1. FlagInit => FlagOnce!Init
    BY DEF FlagInit, FlagOnce!Init, Idle, Done
  <1>2. ASSUME FlagInv, [FlagNext]_flagVars PROVE [FlagOnce!Next]_<<runs, ready>>
    <2>1. CASE UNCHANGED <<state, stack, ready>>
      BY <2>1 DEF RunsFunction
    <2> SUFFICES ASSUME FlagNext PROVE FlagOnce!Next \/ UNCHANGED <<runs, ready>>
      BY <1>2, <2>1 DEF flagVars
    <2>2. FlagInv /\ FlagInv'
      BY <1>2, FlagNextInv
    <2>3. /\ state \in [Objects -> {Idle, Running, Done}]
          /\ ready \in [Threads -> SUBSET Objects]
      BY <2>2 DEF FlagInv, FlagTypeOK
    <2>4. \A u \in Threads, x \in Objects : RunsFunction(u, x) => runner(x) = u
      BY <2>2 DEF FlagInv, RunsFunction
    <2>5. \A u, v \in Threads, x \in Objects : RunsFunction(u, x)' /\ RunsFunction(v, x)' => u = v
      BY <2>2 DEF FlagInv, RunsFunction
    <2>6. ASSUME NEW o \in Objects, \A x \in Objects \ {o} : state'[x] = state[x],
                 \A u \in Threads, x \in Objects \ {o} : RunsFunction(u, x)' <=> RunsFunction(u, x)
          PROVE  \A x \in Objects \ {o} : runs'[x] = runs[x]
      <3> SUFFICES ASSUME NEW x \in Objects \ {o} PROVE runs'[x] = runs[x]
        OBVIOUS
      <3>1. state'[x] = state[x]
        BY <2>6
      <3>2. \A u \in Threads : RunsFunction(u, x)' <=> RunsFunction(u, x)
        BY <2>6
      <3>3. runner(x)' = runner(x)
        BY <3>2
      <3> HIDE DEF runner
      <3> QED
        BY <3>1, <3>3
    <2> PICK t \in Threads :
          \/ \E o \in Objects : Call(t, o)
          \/ FlagSpuriousWake(t) \/ Test(t) \/ Return(t) \/ Throw(t)
          \/ FlagBroadcast(t)
      BY DEF FlagNext
    <2>7. ASSUME NEW o \in Objects, state[o] = Done, UNCHANGED <<state, stack>>,
                 ready' = [ready EXCEPT ![t] = @ \cup {o}]
          PROVE  FlagOnce!Next
      <3>1. runs' = runs
        BY <2>7 DEF RunsFunction
      <3>2. runs[o] = "done"
        BY <2>7
      <3> QED
        BY <2>7, <3>1, <3>2 DEF FlagOnce!Tell, FlagOnce!Next
    <2>8. CASE (\E o \in Objects : Call(t, o)) \/ FlagSpuriousWake(t) \/ FlagBroadcast(t)
      BY <2>1, <2>7, <2>8 DEF Call, Skip, Enter, FlagSpuriousWake, FlagBroadcast
    <2>9. CASE Test(t)
      <3>1. want[t] \in Objects
        BY <2>2 DEF FlagInv, FlagTypeOK
      <3>2. CASE Wait(t)
        BY <2>1, <3>2 DEF Wait
      <3>3. CASE state[want[t]] = Done /\ ReturnDone(t, want[t])
        BY <2>7, <3>1, <3>3 DEF ReturnDone
      <3>4. ASSUME NEW o \in Objects, state[o] = Idle, Start(t, o) PROVE FlagOnce!Next
        <4>1. /\ RunsFunction(t, o)'
              /\ \A u \in Threads, x \in Objects \ {o} : RunsFunction(u, x)' <=> RunsFunction(u, x)
          BY <2>2, <3>4, FlagStartStep DEF FlagInv
        <4>2. state' = [state EXCEPT ![o] = Running] /\ ready' = ready
          BY <3>4 DEF Start
        <4>3. \A x \in Objects \ {o} : runs'[x] = runs[x]
          BY <2>3, <2>6, <4>1, <4>2
        <4>4. runs'[o] = t
          <5>1. runner(o)' = t
            BY <2>5, <4>1
          <5> HIDE DEF runner
          <5> QED
            BY <2>3, <4>2, <5>1 DEF Idle, Running, Done
        <4>5. runs[o] = "nobody"
          BY <3>4 DEF Idle, Done
        <4>6. runs' = [runs EXCEPT ![o] = t]
          <5> HIDE DEF runner
          <5> QED
            BY <4>3, <4>4
        <4> QED
          BY <4>2, <4>5, <4>6 DEF FlagOnce!Start, FlagOnce!Next
      <3>5. state[want[t]] \in {Idle, Running, Done}
        BY <2>3, <3>1
      <3> QED
        BY <2>9, <3>1, <3>2, <3>3, <3>4, <3>5 DEF Test, Idle, Running, Done
    <2>10. ASSUME NEW o \in Objects, NEW ok \in BOOLEAN, End(t, o, ok) PROVE FlagOnce!Next
      <3>1. /\ RunsFunction(t, o) /\ state[o] = Running
            /\ \A u \in Threads, x \in Objects \ {o} : RunsFunction(u, x)' <=> RunsFunction(u, x)
        BY <2>2, <2>10, FlagEndStep DEF FlagInv
      <3>2. /\ state' = [state EXCEPT ![o] = IF ok THEN Done ELSE Idle]
            /\ ready' = [ready EXCEPT ![t] = IF ok THEN @ \cup {o} ELSE @]
        BY <2>10 DEF End
      <3>3. \A x \in Objects \ {o} : runs'[x] = runs[x]
        BY <2>3, <2>6, <3>1, <3>2
      <3>4. runs[o] = t
        BY <2>4, <3>1 DEF Idle, Running, Done
      <3>5. runs'[o] = IF ok THEN "done" ELSE "nobody"
        BY <2>3, <3>2 DEF Idle, Done
      <3>6. runs' = [runs EXCEPT ![o] = IF ok THEN "done" ELSE "nobody"]
        <4> HIDE DEF runner
        <4> QED
          BY <3>3, <3>5
      <3>7. CASE ok
        BY <3>2, <3>4, <3>6, <3>7 DEF FlagOnce!Complete, FlagOnce!Next
      <3>8. CASE ~ok
        <4>1. ready' = ready
          BY <2>3, <3>2, <3>8
        <4> QED
          BY <3>4, <3>6, <3>8, <4>1 DEF FlagOnce!Fail, FlagOnce!Next
      <3> QED
        BY <3>7, <3>8
    <2>11. CASE Return(t) \/ Throw(t)
      BY <2>10, <2>11, ConstantsAssumption DEF Return, Throw
    <2> QED
      BY <2>8, <2>9, <2>11
  <1> QED
    BY <1>1, <1>2, FlagSpecInv, PTL DEF FlagSpec, FlagImplementsOnce, FlagOnce!Spec
==============================================================================
