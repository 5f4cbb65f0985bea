---------------------------- MODULE MutexProof ----------------------------
(***************************************************************************)
(* Proofs about the <mutex> of libc++: TimedMutex, for any set of threads  *)
(* and any limit, and StdLock, for any set of threads and any lists of     *)
(* locks, of any length and in any order.                                  *)
(*                                                                         *)
(* The two are specifications of their own, with the threads and their    *)
(* places in common: a theorem is about one of them.                       *)
(***************************************************************************)
EXTENDS TimedMutex, StdLock, SequenceTheorems, TLAPS

-----------------------------------------------------------------------------
(* timed_mutex and recursive_timed_mutex.                                  *)

\* The invariant holds at the start.
LEMMA InitInv == Init => Inv
  <1> SUFFICES ASSUME Init PROVE Inv
    OBVIOUS
  <1>1. TypeOK
    <2>1. 0 \in 0 .. MaxCount
      BY ConstantsAssumption
    <2>2. /\ holds \in [Threads -> 0 .. MaxCount]
          /\ late \in [Threads -> BOOLEAN]
          /\ pc \in [Threads -> {"program", "locking", "notify"}]
          /\ call \in [Threads -> {"none", "lock", "try_lock_until"}]
      BY <2>1 DEF Init
    <2> QED
      BY <2>1, <2>2 DEF Init, TypeOK
  <1>2. StateIsAccurate /\ MutexIsHeld
    BY ConstantsAssumption DEF Init, StateIsAccurate, MutexIsHeld
  <1>3. NoLostWakeup /\ NoUseAfterDestroy /\ (destroyed => count = 0)
    BY DEF Init, NoLostWakeup, NoUseAfterDestroy
  <1> QED
    BY <1>1, <1>2, <1>3 DEF Inv

\* A thread that may lock the mutex and finds it free, or its own, takes it.
LEMMA TakeStep ==
    ASSUME Inv, NEW t \in Threads, ~destroyed, mutex = None, Take(t),
           count = 0 \/ (recursive /\ id = t), count < MaxCount,
           UNCHANGED <<recursive, mutex, cv, destroyed>>,
           pc' = [pc EXCEPT ![t] = "program"],
           call' \in [Threads -> {"none", "lock", "try_lock_until"}],
           late' \in [Threads -> BOOLEAN], t \notin cv
    PROVE  Inv'
  <1> USE DEF Inv, Take
  <1>0. holds[t] = count /\ \A u \in Threads \ {t} : holds[u] = 0
    BY ConstantsAssumption DEF StateIsAccurate, TypeOK
  <1>1. TypeOK'
    <2>1. count' \in 0 .. MaxCount /\ holds' = [holds EXCEPT ![t] = count']
      BY <1>0, ConstantsAssumption DEF TypeOK
    <2>2. holds' \in [Threads -> 0 .. MaxCount]
      BY <2>1 DEF TypeOK
    <2>3. pc' \in [Threads -> {"program", "locking", "notify"}]
      BY DEF TypeOK
    <2>4. cv' \subseteq {u \in Threads : pc'[u] = "locking"}
      BY DEF TypeOK
    <2>5. id' \in Threads \cup {None}
      BY DEF TypeOK
    <2> HIDE DEF Take
    <2> QED
      BY <2>1, <2>2, <2>3, <2>4, <2>5 DEF TypeOK
  <1>2. StateIsAccurate'
    <2>2. holds'[t] = count' /\ \A u \in Threads \ {t} : holds'[u] = 0
      BY <1>0 DEF TypeOK
    <2>3. recursive => id' = t
      OBVIOUS
    <2>4. ~recursive => count' <= 1 /\ id' = None
      BY ConstantsAssumption DEF StateIsAccurate, TypeOK
    <2>5. count' > 0
      BY DEF TypeOK
    <2> QED
      BY <2>2, <2>3, <2>4, <2>5 DEF StateIsAccurate
  <1>3. MutexIsHeld' /\ NoLostWakeup' /\ NoUseAfterDestroy'
    BY DEF MutexIsHeld, NoLostWakeup, NoUseAfterDestroy, TypeOK
  <1> QED
    BY <1>1, <1>2, <1>3

\* One step per action.
LEMMA NextInv == ASSUME Inv, [Next]_vars PROVE Inv'
  <1> USE DEF Inv
  <1>1. CASE UNCHANGED vars
    BY <1>1 DEF vars, TypeOK, StateIsAccurate, MutexIsHeld, NoLostWakeup, NoUseAfterDestroy
  <1>2. ASSUME Destroy PROVE Inv'
    <2>1. count = 0
      BY <1>2 DEF Destroy, StateIsAccurate, TypeOK
    <2>2. \A t \in Threads : pc[t] = "notify" => recursive
      BY <1>2, ConstantsAssumption DEF Destroy, MutexIsHeld
    <2> QED
      BY <1>2, <2>1, <2>2
         DEF Destroy, TypeOK, StateIsAccurate, MutexIsHeld, NoLostWakeup, NoUseAfterDestroy
  <1>3. ASSUME NEW t \in Threads, Begin(t) PROVE Inv'
    <2>1. TypeOK'
      BY <1>3 DEF Begin, MayLock, TypeOK
    <2> QED
      BY <1>3, <2>1
         DEF Begin, MayLock, TypeOK, StateIsAccurate, MutexIsHeld, NoLostWakeup, NoUseAfterDestroy
  <1>4. ASSUME NEW t \in Threads, Lock(t) PROVE Inv'
    <2> USE <1>4 DEF Lock
    <2>0. ~destroyed
      BY DEF NoUseAfterDestroy
    <2>1. CASE Return(t) /\ Take(t) /\ (count = 0 \/ (recursive /\ id = t)) /\ count < MaxCount
      <3>1. /\ call' \in [Threads -> {"none", "lock", "try_lock_until"}]
            /\ late' \in [Threads -> BOOLEAN]
        BY <2>1 DEF Return, TypeOK
      <3> QED
        BY <2>0, <2>1, <3>1, TakeStep DEF Return
    <2>2. CASE Return(t) /\ Fail /\ count > 0
      BY <2>0, <2>2
         DEF Return, Fail, TypeOK, StateIsAccurate, MutexIsHeld, NoLostWakeup, NoUseAfterDestroy
    <2>3. CASE Block(t) /\ count > 0
      BY <2>0, <2>3
         DEF Block, TypeOK, StateIsAccurate, MutexIsHeld, NoLostWakeup, NoUseAfterDestroy
    <2>4. count = 0 => count < MaxCount
      BY ConstantsAssumption
    <2>5. count # 0 <=> count > 0
      BY DEF TypeOK
    <2>6. recursive /\ id = t => count > 0
      BY ConstantsAssumption DEF StateIsAccurate
    <2>7. count # MaxCount => count < MaxCount
      BY ConstantsAssumption DEF TypeOK
    <2> QED
      BY <2>1, <2>2, <2>3, <2>4, <2>5, <2>6, <2>7
  <1>5. ASSUME NEW t \in Threads, TryLock(t) PROVE Inv'
    <2>1. pc' = [pc EXCEPT ![t] = "program"] /\ t \notin cv
      BY <1>5 DEF TryLock, MayLock, TypeOK
    <2>2. /\ call' \in [Threads -> {"none", "lock", "try_lock_until"}]
          /\ late' \in [Threads -> BOOLEAN]
      BY <1>5 DEF TryLock, TypeOK
    <2> QED
      BY <1>5, <2>1, <2>2, TakeStep DEF TryLock, MayLock
  <1>6. ASSUME NEW t \in Threads, DeadlinePasses(t) PROVE Inv'
    BY <1>6 DEF DeadlinePasses, TypeOK, StateIsAccurate, MutexIsHeld, NoLostWakeup, NoUseAfterDestroy
  <1>7. ASSUME NEW t \in Threads, Wake(t) PROVE Inv'
    BY <1>7 DEF Wake, TypeOK, StateIsAccurate, MutexIsHeld, NoLostWakeup, NoUseAfterDestroy
  <1>8. ASSUME NEW t \in Threads, Unlock(t) PROVE Inv'
    <2> USE <1>8 DEF Unlock
    <2>0. ~destroyed /\ count > 0 /\ holds[t] = count
      BY DEF StateIsAccurate, TypeOK
    <2>1. TypeOK'
      BY <2>0, ConstantsAssumption DEF TypeOK
    <2>2. StateIsAccurate'
      <3>1. holds'[t] = count' /\ \A u \in Threads \ {t} : holds'[u] = 0
        BY <2>0 DEF StateIsAccurate, TypeOK
      <3>2. recursive => id = t
        BY DEF StateIsAccurate
      <3>3. ~recursive => id = None /\ count' <= 1
        BY <2>0, ConstantsAssumption DEF StateIsAccurate, TypeOK
      <3> QED
        BY <2>1, <3>1, <3>2, <3>3, ConstantsAssumption DEF StateIsAccurate, TypeOK
    <2>3. MutexIsHeld'
      <3>1. ~recursive => count' = 0
        BY <2>0 DEF StateIsAccurate, TypeOK
      <3> QED
        BY <3>1, ConstantsAssumption DEF MutexIsHeld, TypeOK
    <2>4. NoLostWakeup' /\ NoUseAfterDestroy' /\ (destroyed' => count' = 0)
      BY <2>0 DEF NoLostWakeup, NoUseAfterDestroy, TypeOK
    <2> QED
      BY <2>1, <2>2, <2>3, <2>4
  <1>9. ASSUME NEW t \in Threads, Notify(t) PROVE Inv'
    <2> USE <1>9 DEF Notify
    <2>1. cv' \subseteq cv /\ (cv' # {} => \E u \in cv : u \notin cv')
      OBVIOUS
    <2>2. TypeOK'
      BY <2>1, ConstantsAssumption DEF TypeOK
    <2>3. StateIsAccurate'
      BY DEF StateIsAccurate
    <2>4. MutexIsHeld'
      BY ConstantsAssumption DEF MutexIsHeld, TypeOK
    <2>5. NoLostWakeup'
      BY <2>1 DEF NoLostWakeup, TypeOK
    <2>6. NoUseAfterDestroy' /\ (destroyed' => count' = 0)
      BY DEF NoUseAfterDestroy, TypeOK
    <2> QED
      BY <2>2, <2>3, <2>4, <2>5, <2>6
  <1> QED
    BY <1>1, <1>2, <1>3, <1>4, <1>5, <1>6, <1>7, <1>8, <1>9 DEF Next

\* The inductive invariant, for both classes.
THEOREM SpecInv == Spec => []Inv
  BY InitInv, NextInv, PTL DEF Spec

\* While the mutex is free no waiter sleeps unless somebody runs that will take it
\* or notify.
THEOREM SpecNoLostWakeup == Spec => []NoLostWakeup
  <1>1. Inv => NoLostWakeup
    BY DEF Inv
  <1> QED
    BY <1>1, SpecInv, PTL

\* A timed_mutex is not used after its destruction.
THEOREM SpecNoUseAfterDestroy == Spec => []NoUseAfterDestroy
  <1>1. Inv => NoUseAfterDestroy
    BY DEF Inv
  <1> QED
    BY <1>1, SpecInv, PTL

\* Both classes implement a mutex that one thread owns, up to the limit.
THEOREM SpecImplementsLock == Spec => ImplementsLock
  <1>1. Init => Owned!Init
    BY DEF Init, Owned!Init
  <1>2. ASSUME Inv, [Next]_vars PROVE [Owned!Next]_holds
    <2>0. TypeOK /\ StateIsAccurate
      BY <1>2 DEF Inv
    <2>1. ASSUME NEW t \in Threads, Take(t), count = 0 \/ (recursive /\ id = t), count < MaxCount
          PROVE  Owned!Next
      <3>1. holds[t] = count /\ \A u \in Threads \ {t} : holds[u] = 0
        BY <2>0, <2>1, ConstantsAssumption DEF StateIsAccurate, TypeOK
      <3> QED
        BY <2>1, <3>1 DEF Take, Owned!Next, Owned!Acquire
    <2>2. ASSUME NEW t \in Threads, Lock(t) PROVE Owned!Next \/ UNCHANGED holds
      <3>1. count = 0 => count < MaxCount
        BY ConstantsAssumption
      <3>2. count # MaxCount => count < MaxCount
        BY <2>0, ConstantsAssumption DEF TypeOK
      <3> QED
        BY <2>1, <2>2, <3>1, <3>2 DEF Lock, Fail, Block
    <2>3. ASSUME NEW t \in Threads, TryLock(t) PROVE Owned!Next
      BY <2>1, <2>3 DEF TryLock
    <2>4. ASSUME NEW t \in Threads, Unlock(t) PROVE Owned!Next
      BY <2>4 DEF Unlock, Owned!Next, Owned!Release
    <2>5. ASSUME NEW t \in Threads, Begin(t) \/ DeadlinePasses(t) \/ Wake(t) \/ Notify(t)
          PROVE  UNCHANGED holds
      BY <2>5 DEF Begin, DeadlinePasses, Wake, Notify
    <2> QED
      BY <1>2, <2>2, <2>3, <2>4, <2>5 DEF Next, Destroy, vars
  <1> QED
    BY <1>1, <1>2, SpecInv, PTL DEF Spec, ImplementsLock, Owned!Spec

-----------------------------------------------------------------------------
(* lock and try_lock.                                                      *)

\* The locks of a list.
Elements(s) == {s[j] : j \in DOMAIN s}

\* The arguments of a call, rotated or not: locks, none of them twice.
IsArgs(s) ==
    /\ s \in Seq(Locks) /\ Len(s) > 0
    /\ \A j, k \in 1 .. Len(s) : s[j] = s[k] => j = k
    /\ \E l \in Lists : Elements(s) = Elements(l)

\* The list that rotation makes.
LEMMA RotateProperties ==
    ASSUME NEW S, NEW s \in Seq(S), NEW n \in 0 .. Len(s)
    PROVE  /\ Rotate(s, n) \in Seq(S) /\ Len(Rotate(s, n)) = Len(s)
           /\ \A j \in 1 .. Len(s) :
                Rotate(s, n)[j] = IF j <= Len(s) - n THEN s[j + n] ELSE s[j + n - Len(s)]
  <1> DEFINE front == SubSeq(s, n + 1, Len(s))
             back == SubSeq(s, 1, n)
  <1>1. /\ front \in Seq(S) /\ Len(front) = Len(s) - n
        /\ \A i \in 1 .. Len(s) - n : front[i] = s[i + n]
    <2>1. \A i \in n + 1 .. Len(s) : s[i] \in S
      OBVIOUS
    <2> DEFINE m == n + 1
               k == Len(s)
    <2>2. m \in Int /\ k \in Int /\ k - m + 1 = Len(s) - n /\ n \in Nat /\ n <= k
      OBVIOUS
    <2> HIDE DEF m, k
    <2>3. /\ SubSeq(s, m, k) \in Seq(S) /\ Len(SubSeq(s, m, k)) = IF m <= k THEN k - m + 1 ELSE 0
          /\ \A i \in 1 .. k - m + 1 : SubSeq(s, m, k)[i] = s[m + i - 1]
      <3>1. \A i \in m .. k : s[i] \in S
        BY <2>1 DEF m, k
      <3> QED
        BY <2>2, <3>1, SubSeqProperties
    <2>4. m = n + 1 /\ k = Len(s)
      BY DEF m, k
    <2>5. Len(SubSeq(s, m, k)) = Len(s) - n
      BY <2>2, <2>3
    <2>6. \A i \in 1 .. Len(s) - n : SubSeq(s, m, k)[i] = s[i + n]
      BY <2>2, <2>3, <2>4
    <2> QED
      BY <2>3, <2>4, <2>5, <2>6
  <1>2. /\ back \in Seq(S) /\ Len(back) = n
        /\ \A i \in 1 .. n : back[i] = s[i]
    <2>1. \A i \in 1 .. n : s[i] \in S
      OBVIOUS
    <2> QED
      BY <2>1, SubSeqProperties
  <1>3. Rotate(s, n) = front \o back
    BY DEF Rotate
  <1> HIDE DEF front, back
  <1> QED
    BY <1>1, <1>2, <1>3, ConcatProperties

\* It has the same elements, none of them twice.
LEMMA RotateArgs ==
    ASSUME NEW s, IsArgs(s), NEW n \in 0 .. Len(s)
    PROVE  IsArgs(Rotate(s, n)) /\ Elements(Rotate(s, n)) = Elements(s)
  <1> DEFINE r == Rotate(s, n)
  <1>1. /\ s \in Seq(Locks) /\ Len(s) > 0 /\ Len(s) \in Nat /\ n \in Nat /\ n <= Len(s)
        /\ \A j, k \in 1 .. Len(s) : s[j] = s[k] => j = k
    BY DEF IsArgs
  <1>2. /\ r \in Seq(Locks) /\ Len(r) = Len(s)
        /\ \A j \in 1 .. Len(s) : r[j] = IF j <= Len(s) - n THEN s[j + n] ELSE s[j + n - Len(s)]
    BY <1>1, RotateProperties
  <1>3. DOMAIN s = 1 .. Len(s) /\ DOMAIN r = 1 .. Len(s)
    BY <1>1, <1>2
  <1> HIDE DEF r
  <1>4. ASSUME NEW j \in 1 .. Len(s)
        PROVE  \E k \in 1 .. Len(s) : r[j] = s[k] /\ (k = j + n \/ k = j + n - Len(s))
    <2>1. CASE j <= Len(s) - n
      <3>1. j + n \in 1 .. Len(s) /\ r[j] = s[j + n]
        BY <1>1, <1>2, <2>1
      <3> QED
        BY <3>1
    <2>2. CASE j > Len(s) - n
      <3>1. j + n - Len(s) \in 1 .. Len(s) /\ r[j] = s[j + n - Len(s)]
        BY <1>1, <1>2, <2>2
      <3> QED
        BY <3>1
    <2> QED
      BY <1>1, <2>1, <2>2
  <1>5. ASSUME NEW j \in 1 .. Len(s), NEW k \in 1 .. Len(s), r[j] = r[k] PROVE j = k
    <2>1. PICK a \in 1 .. Len(s) : r[j] = s[a] /\ (a = j + n \/ a = j + n - Len(s))
      BY <1>4
    <2>2. PICK b \in 1 .. Len(s) : r[k] = s[b] /\ (b = k + n \/ b = k + n - Len(s))
      BY <1>4
    <2>3. a = b
      BY <1>1, <1>5, <2>1, <2>2
    <2> QED
      BY <1>1, <2>1, <2>2, <2>3
  <1>6. ASSUME NEW j \in 1 .. Len(s) PROVE \E k \in 1 .. Len(s) : s[j] = r[k]
    <2>1. CASE j > n
      <3> DEFINE i == j - n
      <3>1. i \in 1 .. Len(s) /\ i <= Len(s) - n /\ i + n = j
        BY <1>1, <2>1
      <3> HIDE DEF i
      <3>2. r[i] = s[j]
        BY <1>2, <3>1
      <3> QED
        BY <3>1, <3>2
    <2>2. CASE j <= n
      <3>1. j + Len(s) - n \in 1 .. Len(s)
        BY <1>1, <2>2
      <3>2. r[j + Len(s) - n] = s[j]
        <4> DEFINE i == j + Len(s) - n
        <4>1. i \in 1 .. Len(s) /\ ~(i <= Len(s) - n) /\ i + n - Len(s) = j
          BY <1>1, <2>2, <3>1
        <4> HIDE DEF i
        <4>2. r[i] = s[j]
          BY <1>2, <4>1
        <4> QED
          BY <4>2 DEF i
      <3> QED
        BY <3>1, <3>2
    <2> QED
      BY <1>1, <2>1, <2>2
  <1>7. Elements(r) = Elements(s)
    <2>1. Elements(s) = {s[j] : j \in 1 .. Len(s)} /\ Elements(r) = {r[j] : j \in 1 .. Len(s)}
      BY <1>3 DEF Elements
    <2>2. {r[j] : j \in 1 .. Len(s)} \subseteq {s[j] : j \in 1 .. Len(s)}
      BY <1>4
    <2>3. {s[j] : j \in 1 .. Len(s)} \subseteq {r[j] : j \in 1 .. Len(s)}
      BY <1>6
    <2> QED
      BY <2>1, <2>2, <2>3
  <1> QED
    BY <1>1, <1>2, <1>5, <1>7 DEF IsArgs, r

-----------------------------------------------------------------------------
\* Where a call is, and what its variables are there.
CallAt(t) ==
    /\ pc[t] = "program" => has[t] = 0 /\ failed[t] = None /\ place[t] = 0
    /\ pc[t] # "program" => IsArgs(list[t]) /\ place[t] < Len(list[t])
    /\ pc[t] = "first" => has[t] = 0
    /\ pc[t] \in {"first", "try", "try_lock", "fail"} => has[t] < Len(list[t])
    /\ pc[t] \in {"try", "locked"} => has[t] > 0
    /\ pc[t] = "undo" /\ ~thrown[t] =>
         \E r \in 0 .. Len(list[t]) - 2 : Order(t)[r + 2] = failed[t]

\* A list that stays is an argument list as before.
LEMMA ArgsStay ==
    ASSUME NEW t, IsArgs(list[t]), list'[t] = list[t]
    PROVE  IsArgs(list[t])'
  <1>1. IsArgs(list'[t])
    OBVIOUS
  <1> QED
    BY <1>1 DEF IsArgs, Elements

\* The inductive invariant.
CallsInv == AllTypeOK /\ OwnerHasIt /\ BlocksOnFailed /\ \A t \in Threads : CallAt(t)

\* The order in which a call takes its locks.
LEMMA OrderProperties ==
    ASSUME CallsInv, NEW t \in Threads, pc[t] # "program"
    PROVE  /\ IsArgs(Order(t)) /\ Elements(Order(t)) = Elements(list[t])
           /\ Order(t) \in Seq(Locks) /\ Len(Order(t)) = Len(list[t]) /\ Len(list[t]) \in Nat \ {0}
           /\ has[t] \in 0 .. Len(list[t])
  <1>1. /\ IsArgs(list[t]) /\ list[t] \in Seq(Locks) /\ place[t] \in {0, 1} /\ place[t] < Len(list[t])
        /\ has[t] \in Nat /\ has[t] <= Len(list[t])
    BY DEF CallsInv, AllTypeOK, CallAt
  <1>2. Len(list[t]) \in Nat \ {0} /\ place[t] \in 0 .. Len(list[t]) /\ has[t] \in 0 .. Len(list[t])
    BY <1>1
  <1> QED
    BY <1>1, <1>2, RotateArgs, RotateProperties DEF Order

\* Thread u is not concerned by a step that changes none of its variables.
LEMMA OthersStay ==
    ASSUME NEW u, list'[u] = list[u], place'[u] = place[u], has'[u] = has[u],
           pc'[u] = pc[u], failed'[u] = failed[u], thrown'[u] = thrown[u]
    PROVE  Order(u)' = Order(u) /\ Held(u)' = Held(u) /\ (CallAt(u) => CallAt(u)')
  <1>1. Order(u)' = Order(u)
    BY DEF Order
  <1>2. Held(u)' = Held(u)
    BY <1>1 DEF Held
  <1> QED
    BY <1>1, <1>2 DEF CallAt

\* A thread that has no locks holds none.
LEMMA NoneHeld == \A t : (has[t] = 0 => Held(t) = {}) /\ (has'[t] = 0 => Held(t)' = {})
  BY DEF Held

\* The locks of a call, with one more at the end.
LEMMA HeldMore ==
    ASSUME NEW s, NEW n \in Nat
    PROVE  {s[j] : j \in 1 .. n + 1} = {s[j] : j \in 1 .. n} \cup {s[n + 1]}
  OBVIOUS

\* A call takes its next lock, which is free: it is the owner, and has one lock more.
LEMMA TakeHolds ==
    ASSUME CallsInv, NEW t \in Threads, pc[t] # "program", has[t] < Len(list[t]), TakeNext(t)
    PROVE  /\ has'[t] = has[t] + 1 /\ has'[t] <= Len(list[t])
           /\ \E l \in Locks : /\ owner[l] = None /\ owner' = [owner EXCEPT ![l] = t]
                               /\ Held(t)' = Held(t) \cup {l}
  <1> DEFINE l == Order(t)[has[t] + 1]
  <1>1. Order(t) \in Seq(Locks) /\ Len(Order(t)) = Len(list[t]) /\ Len(list[t]) \in Nat
        /\ has[t] \in Nat
    BY OrderProperties
  <1>2. l \in Locks
    BY <1>1
  <1>3. has'[t] = has[t] + 1 /\ Order(t)' = Order(t)
    BY DEF TakeNext, CallsInv, AllTypeOK, Order
  <1>4. Held(t)' = Held(t) \cup {l}
    BY <1>1, <1>3, HeldMore DEF Held
  <1>5. owner[l] = None /\ owner' = [owner EXCEPT ![l] = t]
    BY DEF TakeNext
  <1>6. has'[t] <= Len(list[t])
    BY <1>1, <1>3
  <1> HIDE DEF l
  <1> QED
    BY <1>2, <1>3, <1>4, <1>5, <1>6

\* A call gives back its last lock: nobody owns it, and the call has one less.
LEMMA GiveHolds ==
    ASSUME CallsInv, NEW t \in Threads, pc[t] # "program", has[t] # 0,
           Order(t)' = Order(t), has' = [has EXCEPT ![t] = @ - 1]
    PROVE  /\ has'[t] = has[t] - 1 /\ Order(t)[has[t]] \in Locks
           /\ Order(t)[has[t]] \in Held(t) /\ Held(t)' = Held(t) \ {Order(t)[has[t]]}
  <1>1. /\ IsArgs(Order(t)) /\ Len(Order(t)) = Len(list[t]) /\ Len(list[t]) \in Nat
        /\ has[t] \in 1 .. Len(list[t]) /\ Order(t) \in Seq(Locks)
    BY OrderProperties
  <1>2. has'[t] = has[t] - 1
    BY DEF CallsInv, AllTypeOK
  <1>3. \A j, k \in 1 .. has[t] : Order(t)[j] = Order(t)[k] => j = k
    BY <1>1 DEF IsArgs
  <1>4. {Order(t)[j] : j \in 1 .. has[t] - 1} = {Order(t)[j] : j \in 1 .. has[t]} \ {Order(t)[has[t]]}
    BY <1>1, <1>3
  <1>5. Held(t)' = {Order(t)[j] : j \in 1 .. has[t] - 1}
    BY <1>2 DEF Held
  <1>6. Order(t)[has[t]] \in Locks /\ Order(t)[has[t]] \in Held(t)
    BY <1>1 DEF Held
  <1> QED
    BY <1>2, <1>4, <1>5, <1>6 DEF Held

-----------------------------------------------------------------------------
\* The owners are right after t has taken a lock,
LEMMA OwnersAfterTake ==
    ASSUME CallsInv, NEW t \in Threads, NEW l \in Locks, owner[l] = None,
           owner' = [owner EXCEPT ![l] = t], Held(t)' = Held(t) \cup {l},
           \A u \in Threads \ {t} : Held(u)' = Held(u)
    PROVE  OwnerHasIt' /\ owner' \in [Locks -> Threads \cup {None}]
  BY ListsAssumption DEF CallsInv, AllTypeOK, OwnerHasIt

\* and after it has given one back.
LEMMA OwnersAfterGive ==
    ASSUME CallsInv, NEW t \in Threads, NEW l \in Locks, l \in Held(t),
           owner' = [owner EXCEPT ![l] = None], Held(t)' = Held(t) \ {l},
           \A u \in Threads \ {t} : Held(u)' = Held(u)
    PROVE  OwnerHasIt' /\ owner' \in [Locks -> Threads \cup {None}]
  BY ListsAssumption DEF CallsInv, AllTypeOK, OwnerHasIt

\* The owners stay right when nothing is taken or given back.
LEMMA OwnersStay ==
    ASSUME CallsInv, UNCHANGED owner, \A u \in Threads : Held(u)' = Held(u)
    PROVE  OwnerHasIt'
  BY DEF CallsInv, OwnerHasIt

\* What the next state has to be for the invariant.
LEMMA MakeIInv ==
    ASSUME CallsInv, NEW t \in Threads, AllTypeOK', OwnerHasIt', CallAt(t)',
           \A u \in Threads \ {t} :
              /\ list'[u] = list[u] /\ place'[u] = place[u] /\ has'[u] = has[u]
              /\ pc'[u] = pc[u] /\ failed'[u] = failed[u] /\ thrown'[u] = thrown[u],
           pc'[t] = "first" /\ failed'[t] # None => Order(t)'[1] = failed'[t]
    PROVE  CallsInv'
  <1>1. \A u \in Threads \ {t} : Order(u)' = Order(u) /\ CallAt(u)'
    BY OthersStay DEF CallsInv
  <1>2. BlocksOnFailed'
    BY <1>1 DEF BlocksOnFailed, CallsInv
  <1> QED
    BY <1>1, <1>2 DEF CallsInv

-----------------------------------------------------------------------------
\* A number and its half.
LEMMA Halves ==
    ASSUME NEW i \in Nat
    PROVE  i \div 2 \in Nat /\ i % 2 \in {0, 1} /\ i = 2 * (i \div 2) + (i % 2)
  <1>1. i \div 2 \in Int /\ i % 2 \in 0 .. 1
    OBVIOUS
  <1>2. i = 2 * (i \div 2) + (i % 2)
    OBVIOUS
  <1> QED
    BY <1>1, <1>2

\* __lock_first begins again with the lock that was found taken, whatever was rotated
\* before.
LEMMA RecallFindsFailed ==
    ASSUME CallsInv, NEW t \in Threads, pc[t] = "undo", ~thrown[t],
           Recall(t, NextPlace(place[t], Result(t), Len(list[t])))
    PROVE  /\ list' = [list EXCEPT ![t] = list'[t]] /\ place' = [place EXCEPT ![t] = place'[t]]
           /\ IsArgs(list'[t]) /\ Len(list'[t]) = Len(list[t])
           /\ place'[t] \in {0, 1} /\ place'[t] < Len(list[t]) /\ Order(t)'[1] = failed[t]
  <1> DEFINE n == Len(list[t])
             s == list[t]
             r == Result(t)
             i == NextPlace(place[t], r, n)
             u == Rotate(s, 2 * (i \div 2))
  <1>1. /\ s \in Seq(Locks) /\ n \in Nat /\ place[t] \in {0, 1} /\ place[t] < n /\ IsArgs(s)
        /\ list \in [Threads -> Seq(Locks)] /\ place \in [Threads -> {0, 1}]
    BY DEF CallsInv, AllTypeOK, CallAt
  <1>2. r \in 0 .. n - 2 /\ Order(t)[r + 2] = failed[t]
    <2>1. \E q \in 0 .. n - 2 : Order(t)[q + 2] = failed[t]
      BY DEF CallsInv, CallAt
    <2> QED
      BY <2>1 DEF Result
  <1> HIDE DEF r
  <1>3. i \in 0 .. n - 1
    BY <1>1, <1>2 DEF NextPlace
  <1>4. s[i + 1] = failed[t]
    <2>1. /\ r + 2 \in 1 .. n /\ place[t] \in 0 .. n
      BY <1>1, <1>2
    <2>2. failed[t] = IF r + 2 <= n - place[t] THEN s[r + 2 + place[t]] ELSE s[r + 2 + place[t] - n]
      <3> DEFINE j == r + 2
      <3>1. Order(t)[j] = IF j <= n - place[t] THEN s[j + place[t]] ELSE s[j + place[t] - n]
        <4>1. j \in 1 .. n
          BY <2>1
        <4> HIDE DEF j
        <4> QED
          BY <1>1, <2>1, <4>1, RotateProperties DEF Order
      <3> QED
        BY <1>2, <3>1
    <2>3. CASE place[t] = 0
      <3>1. i + 1 = r + 2 + place[t] /\ r + 2 <= n - place[t]
        BY <1>1, <1>2, <2>3 DEF NextPlace
      <3> QED
        BY <2>2, <3>1
    <2>4. CASE place[t] = 1 /\ r = n - 2
      <3>1. i + 1 = r + 2 + place[t] - n /\ ~(r + 2 <= n - place[t])
        BY <1>1, <1>2, <2>4 DEF NextPlace
      <3> QED
        BY <2>2, <3>1
    <2>5. CASE place[t] = 1 /\ r # n - 2
      <3>1. i + 1 = r + 2 + place[t] /\ r + 2 <= n - place[t]
        BY <1>1, <1>2, <2>5 DEF NextPlace
      <3> QED
        BY <2>2, <3>1
    <2> QED
      BY <1>1, <2>3, <2>4, <2>5
  <1>5. /\ list' = [list EXCEPT ![t] = u] /\ place' = [place EXCEPT ![t] = i % 2]
        /\ list'[t] = u /\ place'[t] = i % 2
    BY <1>1 DEF Recall, r
  <1> HIDE DEF i
  <1> DEFINE h == 2 * (i \div 2)
             m == i % 2
  <1>6. h \in 0 .. n /\ m \in {0, 1} /\ m < n /\ h + m = i
    <2>1. i \in Nat /\ i <= n - 1 /\ n \in Nat
      BY <1>1, <1>3
    <2>2. i \div 2 \in Nat /\ i % 2 \in {0, 1} /\ i = 2 * (i \div 2) + (i % 2)
      BY <2>1, Halves
    <2> QED
      BY <2>1, <2>2, <1>2
  <1>7. u = Rotate(s, h) /\ place'[t] = m
    BY <1>5
  <1> HIDE DEF h, m, u
  <1>8. /\ u \in Seq(Locks) /\ Len(u) = n /\ IsArgs(u)
        /\ \A j \in 1 .. n : u[j] = IF j <= n - h THEN s[j + h] ELSE s[j + h - n]
    BY <1>1, <1>6, <1>7, RotateProperties, RotateArgs
  <1>9. Order(t)' = Rotate(u, m)
    BY <1>5, <1>7 DEF Order
  <1>10. Rotate(u, m)[1] = u[1 + m]
    <2>1. m \in 0 .. n /\ 1 \in 1 .. n /\ 1 <= n - m
      BY <1>1, <1>6
    <2>2. Rotate(u, m)[1] = IF 1 <= Len(u) - m THEN u[1 + m] ELSE u[1 + m - Len(u)]
      <3>1. m \in 0 .. Len(u) /\ 1 \in 1 .. Len(u) /\ u \in Seq(Locks)
        BY <2>1, <1>8
      <3> QED
        BY <3>1, RotateProperties
    <2> QED
      BY <2>1, <2>2, <1>8
  <1>11. u[1 + m] = s[i + 1]
    <2>1. 1 + m \in 1 .. n /\ 1 + m <= n - h /\ 1 + m + h = i + 1
      BY <1>1, <1>3, <1>6
    <2> QED
      BY <1>8, <2>1
  <1> QED
    BY <1>4, <1>5, <1>6, <1>7, <1>8, <1>9, <1>10, <1>11

\* The call is over, or begins again.
LEMMA RestartCall ==
    ASSUME CallsInv, NEW t \in Threads, pc[t] # "program", Restart(t),
           has' = [has EXCEPT ![t] = 0]
    PROVE  /\ CallAt(t)' /\ pc'[t] # "locked" /\ Held(t)' = {}
           /\ list' \in [Threads -> Seq(Locks)] /\ place' \in [Threads -> {0, 1}]
           /\ has' \in [Threads -> Nat] /\ \A u \in Threads : has'[u] <= Len(list'[u])
           /\ pc' \in [Threads -> {"program", "first", "try", "undo", "try_lock", "fail", "locked"}]
           /\ failed' \in [Threads -> Locks \cup {None}] /\ thrown' \in [Threads -> BOOLEAN]
           /\ \A u \in Threads \ {t} :
                /\ list'[u] = list[u] /\ place'[u] = place[u] /\ has'[u] = has[u]
                /\ pc'[u] = pc[u] /\ failed'[u] = failed[u] /\ thrown'[u] = thrown[u]
           /\ pc'[t] = "first" /\ failed'[t] # None => Order(t)'[1] = failed'[t]
  <1>1. /\ list \in [Threads -> Seq(Locks)] /\ place \in [Threads -> {0, 1}]
        /\ has \in [Threads -> Nat] /\ \A u \in Threads : has[u] <= Len(list[u])
        /\ pc \in [Threads -> {"program", "first", "try", "undo", "try_lock", "fail", "locked"}]
        /\ failed \in [Threads -> Locks \cup {None}] /\ thrown \in [Threads -> BOOLEAN]
    BY DEF CallsInv, AllTypeOK
  <1>2. has'[t] = 0 /\ Held(t)' = {} /\ has' \in [Threads -> Nat]
    BY <1>1, NoneHeld
  <1>3. CASE pc[t] = "undo" /\ ~thrown[t]
    <2>1. /\ Recall(t, NextPlace(place[t], Result(t), Len(list[t])))
          /\ pc' = [pc EXCEPT ![t] = "first"] /\ failed' = failed /\ thrown' = thrown
      BY <1>3 DEF Restart
    <2>2. /\ list' = [list EXCEPT ![t] = list'[t]] /\ place' = [place EXCEPT ![t] = place'[t]]
          /\ IsArgs(list'[t]) /\ Len(list'[t]) = Len(list[t])
          /\ place'[t] \in {0, 1} /\ place'[t] < Len(list[t]) /\ Order(t)'[1] = failed[t]
      BY <1>3, <2>1, RecallFindsFailed
    <2>3. list'[t] \in Seq(Locks) /\ Len(list'[t]) > 0
      BY <2>2 DEF IsArgs
    <2>4. pc'[t] = "first" /\ failed'[t] = failed[t]
      BY <1>1, <2>1
    <2>5. CallAt(t)'
      <3>1. IsArgs(list[t])'
        BY <2>2 DEF IsArgs, Elements
      <3> QED
        BY <1>2, <2>2, <2>3, <2>4, <3>1 DEF CallAt
    <2>6. list' \in [Threads -> Seq(Locks)] /\ place' \in [Threads -> {0, 1}]
      BY <1>1, <2>2, <2>3
    <2>7. \A u \in Threads : has'[u] <= Len(list'[u])
      BY <1>1, <1>2, <2>2, <2>3
    <2> QED
      BY <1>1, <1>2, <2>1, <2>2, <2>4, <2>5, <2>6, <2>7
  <1>4. CASE ~(pc[t] = "undo" /\ ~thrown[t])
    <2>1. /\ list' = [list EXCEPT ![t] = << >>] /\ place' = [place EXCEPT ![t] = 0]
          /\ pc' = [pc EXCEPT ![t] = "program"] /\ failed' = [failed EXCEPT ![t] = None]
          /\ thrown' = [thrown EXCEPT ![t] = FALSE]
      BY <1>4 DEF Restart
    <2>2. << >> \in Seq(Locks) /\ Len(<< >>) = 0
      BY EmptySeq
    <2>3. pc'[t] = "program" /\ failed'[t] = None /\ place'[t] = 0 /\ list'[t] = << >>
      BY <1>1, <2>1
    <2>4. CallAt(t)'
      BY <1>2, <2>3 DEF CallAt
    <2>5. list' \in [Threads -> Seq(Locks)] /\ place' \in [Threads -> {0, 1}]
      BY <1>1, <2>1, <2>2
    <2>6. \A u \in Threads : has'[u] <= Len(list'[u])
      BY <1>1, <1>2, <2>1, <2>2, <2>3
    <2> QED
      BY <1>1, <1>2, <2>1, <2>3, <2>4, <2>5, <2>6
  <1> QED
    BY <1>3, <1>4

-----------------------------------------------------------------------------
\* Who has all the locks of a call: what AtomicLocks sees of the owners.
Whole == [l \in Locks |-> IF owner[l] # None /\ pc[owner[l]] = "locked" THEN owner[l] ELSE None]

\* What a step does that concerns one thread: the invariant stays, and for AtomicLocks
\* the thread takes all locks of its list, gives one back, or does nothing.
Good == CallsInv' /\ [Atomically!Next]_Whole

\* A step in which no call comes to have all its locks or had them.
LEMMA WholeStays ==
    ASSUME CallsInv, NEW t \in Threads, NEW l \in Locks, pc[t] # "locked", pc'[t] # "locked",
           \A u \in Threads \ {t} : pc'[u] = pc[u],
           \/ owner' = owner
           \/ owner[l] = None /\ owner' = [owner EXCEPT ![l] = t]
           \/ owner[l] = t /\ owner' = [owner EXCEPT ![l] = None]
    PROVE  Whole' = Whole
  <1>1. owner \in [Locks -> Threads \cup {None}] /\ None \notin Threads
    BY ListsAssumption DEF CallsInv, AllTypeOK
  <1>2. ASSUME NEW k \in Locks
        PROVE  (owner'[k] # None /\ pc'[owner'[k]] = "locked" <=> owner[k] # None /\ pc[owner[k]] = "locked")
               /\ (owner[k] # None /\ pc[owner[k]] = "locked" => owner'[k] = owner[k])
    BY <1>1
  <1> QED
    BY <1>2 DEF Whole

\* A call has got all the locks of its list.
LEMMA WholeTaken ==
    ASSUME CallsInv, NEW t \in Threads, NEW l \in Locks, NEW s \in Lists,
           pc[t] # "locked", pc'[t] = "locked", \A u \in Threads \ {t} : pc'[u] = pc[u],
           owner[l] = None, owner' = [owner EXCEPT ![l] = t],
           OwnerHasIt', Held(t)' = Elements(s)
    PROVE  Atomically!Next
  <1> DEFINE S == Elements(s)
  <1>1. owner \in [Locks -> Threads \cup {None}] /\ None \notin Threads
    BY ListsAssumption DEF CallsInv, AllTypeOK
  <1>2. S \subseteq Locks /\ S \in {{q[j] : j \in DOMAIN q} : q \in Lists}
    <2>1. s \in Seq(Locks)
      BY ListsAssumption
    <2> QED
      BY <2>1 DEF Elements
  <1>3. \A k \in Locks : k \in S <=> owner'[k] = t
    BY DEF OwnerHasIt
  <1> HIDE DEF S
  <1>4. \A k \in S : Whole[k] = None
    BY <1>1, <1>2, <1>3 DEF Whole
  <1>5. Whole' = [k \in Locks |-> IF k \in S THEN t ELSE Whole[k]]
    <2>1. ASSUME NEW k \in Locks, k \in S
          PROVE  owner'[k] = t /\ t # None /\ pc'[owner'[k]] = "locked"
      BY <1>1, <1>3, <2>1
    <2>2. ASSUME NEW k \in Locks, k \notin S
          PROVE  owner'[k] = owner[k] /\ (owner[k] # None => pc'[owner[k]] = pc[owner[k]])
      <3>1. owner'[k] # t
        BY <1>3, <2>2
      <3> QED
        BY <1>1, <3>1
    <2> QED
      BY <2>1, <2>2 DEF Whole
  <1>6. Atomically!LockAll(t, S)
    BY <1>4, <1>5 DEF Atomically!LockAll, Whole
  <1> QED
    BY <1>2, <1>6 DEF Atomically!Next

\* The caller unlocks one of its locks; with the last one the call is forgotten.
LEMMA WholeGiven ==
    ASSUME CallsInv, NEW t \in Threads, NEW l \in Locks, pc[t] = "locked", owner[l] = t,
           \A u \in Threads \ {t} : pc'[u] = pc[u],
           pc'[t] = "locked" \/ \A k \in Locks : owner'[k] # t,
           owner' = [owner EXCEPT ![l] = None]
    PROVE  Atomically!Next
  <1>1. owner \in [Locks -> Threads \cup {None}] /\ None \notin Threads
    BY ListsAssumption DEF CallsInv, AllTypeOK
  <1>2. Whole[l] = t
    BY <1>1 DEF Whole
  <1>3. Whole' = [Whole EXCEPT ![l] = None]
    <2>1. owner'[l] = None
      BY <1>1
    <2>2. ASSUME NEW k \in Locks, k # l
          PROVE  /\ owner'[k] = owner[k]
                 /\ owner[k] # None => (pc'[owner[k]] = "locked" <=> pc[owner[k]] = "locked")
      <3>1. owner'[k] = owner[k]
        BY <1>1, <2>2
      <3>2. owner[k] = t => pc'[t] = "locked"
        BY <3>1
      <3>3. owner[k] # None /\ owner[k] # t => pc'[owner[k]] = pc[owner[k]]
        BY <1>1
      <3> QED
        BY <3>1, <3>2, <3>3
    <2>3. ASSUME NEW k \in Locks, k # l
          PROVE  (IF owner'[k] # None /\ pc'[owner'[k]] = "locked" THEN owner'[k] ELSE None)
                     = IF owner[k] # None /\ pc[owner[k]] = "locked" THEN owner[k] ELSE None
      BY <2>2, <2>3
    <2>4. Whole' = [k \in Locks |-> IF k = l THEN None ELSE Whole[k]]
      BY <2>1, <2>3 DEF Whole
    <2>5. Whole = [k \in Locks |-> Whole[k]]
      BY DEF Whole
    <2> QED
      BY <2>4, <2>5
  <1>4. Atomically!Unlock(t, l)
    BY <1>2, <1>3 DEF Atomically!Unlock, Whole
  <1> QED
    BY <1>4 DEF Atomically!Next

-----------------------------------------------------------------------------
\* A call begins.
LEMMA CallGood == ASSUME CallsInv, NEW t \in Threads, Call(t) PROVE Good
  <1>1. AllTypeOK
    BY DEF CallsInv
  <1>2. PICK s \in Lists, p \in {"first", "try_lock"} :
          list' = [list EXCEPT ![t] = s] /\ pc' = [pc EXCEPT ![t] = p]
    BY DEF Call
  <1>3. s \in Seq(Locks) /\ Len(s) > 0 /\ Len(s) \in Nat /\ IsArgs(s)
    <2>1. s \in Seq(Locks)
      BY ListsAssumption
    <2> QED
      BY <2>1, ListsAssumption DEF IsArgs
  <1>4. /\ pc[t] = "program" /\ has[t] = 0 /\ failed[t] = None /\ place[t] = 0
        /\ UNCHANGED <<owner, place, has, failed, thrown>>
    BY DEF Call, CallsInv, CallAt
  <1>5. list'[t] = s /\ pc'[t] = p
    BY <1>1, <1>2 DEF AllTypeOK
  <1>6. \A u \in Threads \ {t} :
              /\ list'[u] = list[u] /\ place'[u] = place[u] /\ has'[u] = has[u]
              /\ pc'[u] = pc[u] /\ failed'[u] = failed[u] /\ thrown'[u] = thrown[u]
    BY <1>1, <1>2, <1>4 DEF AllTypeOK
  <1>7. AllTypeOK'
    BY <1>1, <1>2, <1>3, <1>4, <1>5, <1>6 DEF AllTypeOK
  <1>8. CallAt(t)'
    <2>1. IsArgs(list[t])'
      BY <1>3, <1>5 DEF IsArgs, Elements
    <2> QED
      BY <1>3, <1>4, <1>5, <2>1 DEF CallAt
  <1>9. OwnerHasIt'
    <2>1. \A u \in Threads : Held(u)' = Held(u)
      BY <1>4, <1>6, OthersStay, NoneHeld
    <2> QED
      BY <1>4, <2>1, OwnersStay
  <1>10. CallsInv'
    BY <1>4, <1>5, <1>6, <1>7, <1>8, <1>9, MakeIInv
  <1>11. Whole' = Whole
    <2>1. CASE Locks = {}
      BY <2>1 DEF Whole
    <2>2. CASE Locks # {}
      BY <1>4, <1>5, <1>6, <2>2, WholeStays
    <2> QED
      BY <2>1, <2>2
  <1> QED
    BY <1>10, <1>11 DEF Good

\* A lock of the list throws.
LEMMA ThrowGood == ASSUME CallsInv, NEW t \in Threads, Throw(t) PROVE Good
  <1>1. AllTypeOK
    BY DEF CallsInv
  <1>2. /\ pc[t] \in {"first", "try", "try_lock"} /\ pc' = [pc EXCEPT ![t] = "undo"]
        /\ thrown' = [thrown EXCEPT ![t] = TRUE] /\ UNCHANGED <<owner, list, place, has, failed>>
    BY DEF Throw
  <1>3. pc'[t] = "undo" /\ thrown'[t] = TRUE
    BY <1>1, <1>2 DEF AllTypeOK
  <1>4. \A u \in Threads \ {t} :
              /\ list'[u] = list[u] /\ place'[u] = place[u] /\ has'[u] = has[u]
              /\ pc'[u] = pc[u] /\ failed'[u] = failed[u] /\ thrown'[u] = thrown[u]
    BY <1>1, <1>2 DEF AllTypeOK
  <1>5. AllTypeOK'
    BY <1>1, <1>2 DEF AllTypeOK
  <1>6. CallAt(t)'
    <2>1. IsArgs(list[t]) /\ place[t] < Len(list[t])
      BY <1>2 DEF CallsInv, CallAt
    <2>2. IsArgs(list[t])'
      BY <1>2, <2>1, ArgsStay
    <2> QED
      BY <1>2, <1>3, <2>1, <2>2 DEF CallAt
  <1>7. \A u \in Threads : Held(u)' = Held(u)
    BY <1>2 DEF Held, Order
  <1>8. OwnerHasIt'
    BY <1>2, <1>7, OwnersStay
  <1>9. CallsInv'
    BY <1>3, <1>4, <1>5, <1>6, <1>8, MakeIInv
  <1>10. Whole' = Whole
    <2>1. CASE Locks = {}
      BY <2>1 DEF Whole
    <2>2. CASE Locks # {}
      BY <1>2, <1>3, <1>4, <2>2, WholeStays
    <2> QED
      BY <2>1, <2>2
  <1> QED
    BY <1>9, <1>10 DEF Good

\* A call takes the next lock, and goes on at p or has all its locks.
LEMMA TakeGood ==
    ASSUME CallsInv, NEW t \in Threads, NEW p \in {"try", "try_lock"},
           pc[t] \in {"first", "try", "try_lock"}, TakeNext(t), Taken(t, p)
    PROVE  Good
  <1>1. AllTypeOK
    BY DEF CallsInv
  <1>2. /\ UNCHANGED <<list, place, thrown>> /\ failed' = [failed EXCEPT ![t] = None]
        /\ has' = [has EXCEPT ![t] = @ + 1]
        /\ pc' = [pc EXCEPT ![t] = IF has'[t] = Len(list[t]) THEN "locked" ELSE p]
    BY DEF TakeNext, Taken
  <1>3. has[t] < Len(list[t]) /\ IsArgs(list[t]) /\ place[t] < Len(list[t])
    BY DEF CallsInv, CallAt
  <1>4. PICK l \in Locks : /\ owner[l] = None /\ owner' = [owner EXCEPT ![l] = t]
                           /\ Held(t)' = Held(t) \cup {l}
    BY <1>3, TakeHolds
  <1>5. has'[t] = has[t] + 1 /\ has'[t] <= Len(list[t])
    BY <1>3, TakeHolds
  <1>6. \A u \in Threads \ {t} :
              /\ list'[u] = list[u] /\ place'[u] = place[u] /\ has'[u] = has[u]
              /\ pc'[u] = pc[u] /\ failed'[u] = failed[u] /\ thrown'[u] = thrown[u]
    BY <1>1, <1>2 DEF AllTypeOK
  <1>7. OwnerHasIt' /\ owner' \in [Locks -> Threads \cup {None}]
    <2>1. \A u \in Threads \ {t} : Held(u)' = Held(u)
      BY <1>6, OthersStay
    <2> QED
      BY <1>4, <2>1, OwnersAfterTake
  <1>8. pc'[t] = IF has'[t] = Len(list[t]) THEN "locked" ELSE p
    BY <1>1, <1>2 DEF AllTypeOK
  <1>9. AllTypeOK'
    <2>1. \A u \in Threads : has'[u] <= Len(list'[u])
      BY <1>1, <1>2, <1>5, <1>6 DEF AllTypeOK
    <2>2. has' \in [Threads -> Nat]
      BY <1>1, <1>2 DEF AllTypeOK
    <2> QED
      BY <1>1, <1>2, <1>7, <2>1, <2>2 DEF AllTypeOK
  <1>10. has[t] \in Nat /\ Len(list[t]) \in Nat
    BY <1>1 DEF AllTypeOK
  <1>11. CallAt(t)'
    <2>1. IsArgs(list[t])'
      BY <1>2, <1>3, ArgsStay
    <2>2. has'[t] > 0 /\ (pc'[t] # "locked" => has'[t] < Len(list'[t]))
      BY <1>2, <1>5, <1>8, <1>10
    <2>3. pc'[t] \in {"locked", "try", "try_lock"} /\ place'[t] < Len(list'[t])
      BY <1>2, <1>3, <1>8
    <2> QED
      BY <2>1, <2>2, <2>3 DEF CallAt
  <1>12. CallsInv'
    BY <1>6, <1>7, <1>8, <1>9, <1>11, MakeIInv
  <1>13. CASE has'[t] = Len(list[t])
    <2>1. pc'[t] = "locked"
      BY <1>8, <1>13
    <2>2. Order(t)' = Order(t) /\ Elements(Order(t)) = Elements(list[t]) /\ Order(t) \in Seq(Locks)
          /\ Len(Order(t)) = Len(list[t])
      BY <1>2, OrderProperties DEF Order
    <2>3. DOMAIN Order(t) = 1 .. Len(list[t])
      BY <2>2
    <2>4. Held(t)' = Elements(list[t])
      BY <1>13, <2>2, <2>3 DEF Held, Elements
    <2>5. PICK s \in Lists : Elements(list[t]) = Elements(s)
      BY <1>3 DEF IsArgs
    <2>6. Atomically!Next
      BY <1>4, <1>6, <1>7, <2>1, <2>4, <2>5, WholeTaken
    <2> QED
      BY <1>12, <2>6 DEF Good
  <1>14. CASE has'[t] # Len(list[t])
    <2>1. pc'[t] # "locked"
      BY <1>8, <1>14
    <2>2. Whole' = Whole
      BY <1>4, <1>6, <2>1, WholeStays
    <2> QED
      BY <1>12, <2>2 DEF Good
  <1> QED
    BY <1>13, <1>14

\* A lock is found taken.
LEMMA FailGood ==
    ASSUME CallsInv, NEW t \in Threads, pc[t] \in {"try", "try_lock"},
           failed' = [failed EXCEPT ![t] = Order(t)[has[t] + 1]],
           pc' = [pc EXCEPT ![t] = IF pc[t] = "try" THEN "undo" ELSE "fail"],
           UNCHANGED <<owner, list, place, has, thrown>>
    PROVE  Good
  <1>1. AllTypeOK
    BY DEF CallsInv
  <1>2. /\ Order(t) \in Seq(Locks) /\ Len(Order(t)) = Len(list[t]) /\ Len(list[t]) \in Nat
        /\ has[t] \in Nat /\ has[t] < Len(list[t]) /\ IsArgs(list[t]) /\ place[t] < Len(list[t])
    BY OrderProperties DEF CallsInv, CallAt
  <1>3. Order(t)[has[t] + 1] \in Locks
    BY <1>2
  <1>4. /\ pc'[t] = (IF pc[t] = "try" THEN "undo" ELSE "fail")
        /\ failed'[t] = Order(t)[has[t] + 1]
    BY <1>1 DEF AllTypeOK
  <1>5. \A u \in Threads \ {t} :
              /\ list'[u] = list[u] /\ place'[u] = place[u] /\ has'[u] = has[u]
              /\ pc'[u] = pc[u] /\ failed'[u] = failed[u] /\ thrown'[u] = thrown[u]
    BY <1>1 DEF AllTypeOK
  <1>6. AllTypeOK'
    <2> HIDE DEF Order
    <2> QED
      BY <1>1, <1>3 DEF AllTypeOK
  <1>7. CallAt(t)'
    <2>1. IsArgs(list[t])'
      BY <1>2, ArgsStay
    <2>2. Order(t)' = Order(t)
      BY DEF Order
    <2>3. pc[t] = "try" => \E r \in 0 .. Len(list[t]) - 2 : Order(t)[r + 2] = failed'[t]
      <3> SUFFICES ASSUME pc[t] = "try"
                   PROVE  \E r \in 0 .. Len(list[t]) - 2 : Order(t)[r + 2] = failed'[t]
        OBVIOUS
      <3>1. has[t] > 0
        BY DEF CallsInv, CallAt
      <3>2. has[t] - 1 \in 0 .. Len(list[t]) - 2 /\ has[t] - 1 + 2 = has[t] + 1
        BY <1>2, <3>1
      <3>3. Order(t)[has[t] - 1 + 2] = failed'[t]
        BY <1>4, <3>2
      <3> QED
        BY <3>2, <3>3
    <2> QED
      BY <1>2, <1>4, <2>1, <2>2, <2>3 DEF CallAt
  <1>8. \A u \in Threads : Held(u)' = Held(u)
    BY DEF Held, Order
  <1>9. OwnerHasIt'
    BY <1>8, OwnersStay
  <1>10. CallsInv'
    BY <1>4, <1>5, <1>6, <1>7, <1>9, MakeIInv
  <1>11. Whole' = Whole
    BY <1>3, <1>4, <1>5, WholeStays
  <1> QED
    BY <1>10, <1>11 DEF Good

\* The call gives back its last lock and goes on.
LEMMA GiveGood ==
    ASSUME CallsInv, NEW t \in Threads, pc[t] \in {"undo", "fail", "locked"}, has[t] # 0,
           pc[t] = "locked" => has[t] # 1,
           owner' = [owner EXCEPT ![Order(t)[has[t]]] = None],
           has' = [has EXCEPT ![t] = @ - 1],
           UNCHANGED <<list, place, pc, failed, thrown>>
    PROVE  Good
  <1> DEFINE l == Order(t)[has[t]]
  <1>1. AllTypeOK
    BY DEF CallsInv
  <1>2. Order(t)' = Order(t)
    BY DEF Order
  <1>3. /\ has'[t] = has[t] - 1 /\ l \in Locks /\ l \in Held(t) /\ Held(t)' = Held(t) \ {l}
    BY <1>2, GiveHolds
  <1>4. owner' = [owner EXCEPT ![l] = None]
    OBVIOUS
  <1> HIDE DEF l
  <1>5. has[t] \in Nat \ {0} /\ has[t] <= Len(list[t]) /\ Len(list[t]) \in Nat
    BY <1>1 DEF AllTypeOK
  <1>6. \A u \in Threads \ {t} :
              /\ list'[u] = list[u] /\ place'[u] = place[u] /\ has'[u] = has[u]
              /\ pc'[u] = pc[u] /\ failed'[u] = failed[u] /\ thrown'[u] = thrown[u]
    BY <1>1 DEF AllTypeOK
  <1>7. OwnerHasIt' /\ owner' \in [Locks -> Threads \cup {None}]
    <2>1. \A u \in Threads \ {t} : Held(u)' = Held(u)
      BY <1>6, OthersStay
    <2> QED
      BY <1>3, <1>4, <2>1, OwnersAfterGive
  <1>8. AllTypeOK'
    <2>1. \A u \in Threads : has'[u] <= Len(list'[u])
      BY <1>1, <1>3, <1>5, <1>6 DEF AllTypeOK
    <2>2. has' \in [Threads -> Nat]
      BY <1>1, <1>5 DEF AllTypeOK
    <2> QED
      BY <1>1, <1>7, <2>1, <2>2 DEF AllTypeOK
  <1>9. CallAt(t)'
    <2>1. IsArgs(list[t]) /\ place[t] < Len(list[t])
      BY DEF CallsInv, CallAt
    <2>2. IsArgs(list[t])'
      BY <2>1, ArgsStay
    <2>3. has'[t] < Len(list[t]) /\ (pc[t] = "locked" => has'[t] > 0)
      BY <1>3, <1>5
    <2> QED
      BY <1>2, <2>1, <2>2, <2>3 DEF CallAt, CallsInv
  <1>10. CallsInv'
    BY <1>6, <1>7, <1>8, <1>9, MakeIInv
  <1>11. owner[l] = t
    BY <1>3 DEF CallsInv, OwnerHasIt
  <1>12. CASE pc[t] = "locked"
    BY <1>3, <1>4, <1>10, <1>11, <1>12, WholeGiven DEF Good
  <1>13. CASE pc[t] # "locked"
    BY <1>3, <1>4, <1>10, <1>11, <1>13, WholeStays DEF Good
  <1> QED
    BY <1>12, <1>13

\* The call, which has nothing left, begins again or is over.
LEMMA EmptyGood ==
    ASSUME CallsInv, NEW t \in Threads, pc[t] \in {"undo", "fail"}, has[t] = 0,
           Restart(t), UNCHANGED <<owner, has>>
    PROVE  Good
  <1>1. owner \in [Locks -> Threads \cup {None}]
    BY DEF CallsInv, AllTypeOK
  <1>2. has' = [has EXCEPT ![t] = 0]
    BY DEF CallsInv, AllTypeOK
  <1>3. /\ CallAt(t)' /\ pc'[t] # "locked" /\ Held(t)' = {}
        /\ \A u \in Threads \ {t} :
             /\ list'[u] = list[u] /\ place'[u] = place[u] /\ has'[u] = has[u]
             /\ pc'[u] = pc[u] /\ failed'[u] = failed[u] /\ thrown'[u] = thrown[u]
        /\ pc'[t] = "first" /\ failed'[t] # None => Order(t)'[1] = failed'[t]
    BY <1>2, RestartCall
  <1>4. AllTypeOK'
    BY <1>1, <1>2, RestartCall DEF AllTypeOK
  <1>5. \A u \in Threads : Held(u)' = Held(u)
    BY <1>3, OthersStay, NoneHeld
  <1>6. OwnerHasIt'
    BY <1>5, OwnersStay
  <1>7. CallsInv'
    BY <1>3, <1>4, <1>6, MakeIInv
  <1>8. Whole' = Whole
    <2>1. CASE Locks = {}
      BY <2>1 DEF Whole
    <2>2. CASE Locks # {}
      BY <1>3, <2>2, WholeStays
    <2> QED
      BY <2>1, <2>2
  <1> QED
    BY <1>7, <1>8 DEF Good

\* The caller unlocks its last lock.
LEMMA LastGood ==
    ASSUME CallsInv, NEW t \in Threads, pc[t] = "locked", has[t] = 1,
           owner' = [owner EXCEPT ![Order(t)[has[t]]] = None],
           has' = [has EXCEPT ![t] = @ - 1], Restart(t)
    PROVE  Good
  <1> DEFINE l == Order(t)[has[t]]
  <1>1. owner' = [owner EXCEPT ![l] = None] /\ AllTypeOK
    BY DEF CallsInv
  <1>2. has' = [has EXCEPT ![t] = 0]
    BY DEF CallsInv, AllTypeOK
  <1>3. /\ CallAt(t)' /\ pc'[t] # "locked" /\ Held(t)' = {}
        /\ \A u \in Threads \ {t} :
             /\ list'[u] = list[u] /\ place'[u] = place[u] /\ has'[u] = has[u]
             /\ pc'[u] = pc[u] /\ failed'[u] = failed[u] /\ thrown'[u] = thrown[u]
        /\ pc'[t] = "first" /\ failed'[t] # None => Order(t)'[1] = failed'[t]
    BY <1>2, RestartCall
  <1>4. l \in Locks /\ Held(t) = {l}
    <2>1. Order(t) \in Seq(Locks) /\ Len(Order(t)) = Len(list[t]) /\ Len(list[t]) \in Nat \ {0}
      BY OrderProperties
    <2>2. Order(t)[1] \in Locks /\ {Order(t)[j] : j \in 1 .. 1} = {Order(t)[1]}
      BY <2>1
    <2> QED
      BY <2>2 DEF Held
  <1> HIDE DEF l
  <1>5. OwnerHasIt' /\ owner' \in [Locks -> Threads \cup {None}]
    <2>1. \A u \in Threads \ {t} : Held(u)' = Held(u)
      BY <1>3, OthersStay
    <2>2. Held(t)' = Held(t) \ {l} /\ l \in Held(t)
      BY <1>3, <1>4
    <2> QED
      BY <1>1, <1>4, <2>1, <2>2, OwnersAfterGive
  <1>6. AllTypeOK'
    BY <1>2, <1>5, RestartCall DEF AllTypeOK
  <1>7. CallsInv'
    BY <1>3, <1>5, <1>6, MakeIInv
  <1>8. owner[l] = t /\ \A k \in Locks : owner'[k] # t
    BY <1>3, <1>4, <1>5 DEF CallsInv, OwnerHasIt
  <1>9. Atomically!Next
    BY <1>1, <1>3, <1>4, <1>8, WholeGiven
  <1> QED
    BY <1>7, <1>9 DEF Good

\* Every step is good.
LEMMA StepGood == ASSUME CallsInv, [AllNext]_allVars PROVE Good
  <1>1. CASE UNCHANGED allVars
    <2>1. \A u \in Threads : Order(u)' = Order(u) /\ Held(u)' = Held(u) /\ (CallAt(u) => CallAt(u)')
      BY <1>1, OthersStay DEF allVars
    <2>2. CallsInv'
      BY <1>1, <2>1 DEF allVars, CallsInv, AllTypeOK, OwnerHasIt, BlocksOnFailed
    <2>3. Whole' = Whole
      BY <1>1 DEF allVars, Whole
    <2> QED
      BY <2>2, <2>3 DEF Good
  <1>2. ASSUME NEW t \in Threads, LockFirst(t) PROVE Good
    BY <1>2, TakeGood DEF LockFirst
  <1>3. ASSUME NEW t \in Threads, TryNext(t) PROVE Good
    <2>1. CASE pc[t] \in {"try", "try_lock"} /\ TakeNext(t) /\ Taken(t, pc[t])
      BY <2>1, TakeGood
    <2>2. CASE /\ pc[t] \in {"try", "try_lock"}
               /\ failed' = [failed EXCEPT ![t] = Order(t)[has[t] + 1]]
               /\ pc' = [pc EXCEPT ![t] = IF pc[t] = "try" THEN "undo" ELSE "fail"]
               /\ UNCHANGED <<owner, list, place, has, thrown>>
      BY <2>2, FailGood
    <2> QED
      BY <1>3, <2>1, <2>2 DEF TryNext
  <1>4. ASSUME NEW t \in Threads, Undo(t) PROVE Good
    <2>1. CASE has[t] = 0
      BY <1>4, <2>1, EmptyGood DEF Undo
    <2>2. CASE has[t] # 0
      BY <1>4, <2>2, GiveGood DEF Undo
    <2> QED
      BY <2>1, <2>2
  <1>5. ASSUME NEW t \in Threads, UnlockNext(t) PROVE Good
    <2>1. CASE has[t] = 1
      BY <1>5, <2>1, LastGood DEF UnlockNext
    <2>2. CASE has[t] # 1
      <3>1. has[t] # 0
        BY <1>5 DEF UnlockNext, CallsInv, CallAt
      <3> QED
        BY <1>5, <2>2, <3>1, GiveGood DEF UnlockNext
    <2> QED
      BY <2>1, <2>2
  <1> QED
    BY <1>1, <1>2, <1>3, <1>4, <1>5, CallGood, ThrowGood DEF AllNext, Step

\* No call is under way at the start.
LEMMA CallsInit == AllInit => CallsInv
  <1> SUFFICES ASSUME AllInit PROVE CallsInv
    OBVIOUS
  <1>1. << >> \in Seq(Locks) /\ Len(<< >>) = 0
    BY EmptySeq
  <1>2. AllTypeOK
    BY <1>1 DEF AllInit, AllTypeOK
  <1>3. \A t \in Threads : Held(t) = {} /\ CallAt(t)
    BY NoneHeld DEF AllInit, CallAt
  <1>4. OwnerHasIt /\ BlocksOnFailed
    BY <1>3, ListsAssumption DEF AllInit, OwnerHasIt, BlocksOnFailed
  <1> QED
    BY <1>2, <1>3, <1>4 DEF CallsInv

LEMMA CallsSpec == AllSpec => []CallsInv
  <1>1. CallsInv /\ [AllNext]_allVars => CallsInv'
    BY StepGood DEF Good
  <1> QED
    BY <1>1, CallsInit, PTL DEF AllSpec

\* What the lock functions promise: locks are owned by the calls that have them, a call
\* that blocks has none, it blocks on the lock that was taken, and not all calls wait.
THEOREM AllSpecInv == AllSpec => []AllInv
  <1>1. CallsInv => AllInv
    <2> SUFFICES ASSUME CallsInv PROVE AllInv
      OBVIOUS
    <2>1. NoHoldAndWait
      BY DEF CallsInv, CallAt, NoHoldAndWait
    <2>2. NoDeadlock
      <3> SUFFICES ASSUME NEW t \in Threads, pc[t] # "program",
                          \A u \in Threads : pc[u] \in {"program", "first"}
                   PROVE  pc[t] = "first" /\ owner[Order(t)[1]] = None
        BY DEF NoDeadlock
      <3>1. \A u \in Threads : Held(u) = {}
        BY <2>1, NoneHeld DEF NoHoldAndWait
      <3>2. Order(t)[1] \in Locks
        BY OrderProperties
      <3> QED
        BY <3>1, <3>2 DEF CallsInv, AllTypeOK, OwnerHasIt
    <2> QED
      BY <2>1, <2>2 DEF CallsInv, AllInv
  <1> QED
    BY <1>1, CallsSpec, PTL

\* lock and try_lock take all the locks of a list as if in one step, or none.
THEOREM AllSpecImplementsAtomic == AllSpec => ImplementsAtomic
  <1>1. AllInit => Atomically!Init
    BY ListsAssumption DEF AllInit, Atomically!Init
  <1>2. CallsInv /\ [AllNext]_allVars => [Atomically!Next]_Whole
    BY StepGood DEF Good
  <1> QED
    BY <1>1, <1>2, CallsSpec, PTL DEF AllSpec, ImplementsAtomic, Atomically!Spec, Whole
=============================================================================
