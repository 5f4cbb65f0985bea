--------------------------- MODULE AssocStateProof ---------------------------
(***************************************************************************)
(* Proofs about AssocState for any number of providers and consumers.      *)
(***************************************************************************)
EXTENDS AssocState, FiniteSetTheorems, TLAPS

\* Threads are at places of the program, and those blocked in a wait.
CvType ==
    /\ pc \in [Threads -> Places]
    /\ cv \subseteq {t \in Threads : pc[t] \in Waiting \cup {"timed"}}

\* A thread that is not blocked may go to any place.
LEMMA GotoType ==
    ASSUME CvType, NEW t \in Threads, NEW place \in Places, Goto(t, place),
           t \notin cv \/ pc[t] \notin Waiting \cup {"timed"}, cv' \subseteq cv
    PROVE  CvType'
  BY DEF CvType, Goto

\* Every step keeps the types.  Two things besides the types are needed: an owner
\* is counted, so that the count does not go below 0, and a thread that waits for
\* a function it runs is not blocked.
LEMMA NextType == ASSUME TypeOK, Next, \A t \in Threads : t \in held => owners > 0,
                         \A t \in Threads : pc[t] = "release" => t \in held
                  PROVE  TypeOK'
  <1>0. CvType
    BY DEF TypeOK, CvType
  <1> USE DEF TypeOK, Threads, Goto, flags, handles, Places, Waiting
  <1>1. ASSUME NEW t \in Providers, NEW how \in {"value", "exception"}, Set(t, how)
        PROVE  TypeOK'
    <2>1. value' \in Threads \cup {None} /\ exception' \in Threads \cup {None, "broken_promise"}
      BY <1>1 DEF Set, Store
    <2>2. /\ pc' \in [Threads -> Places] /\ after' \in [Threads -> Places] /\ ready' = TRUE
          /\ cv' \subseteq {u \in Threads : pc'[u] \in Waiting \cup {"timed"}}
      BY <1>1 DEF Set, MakeReady
    <2> QED
      BY <1>1, <2>1, <2>2 DEF Set
  <1>2. ASSUME NEW t \in Providers, NEW how \in {"value", "exception"}, SetAtExit(t, how)
        PROVE  TypeOK'
    BY <1>2 DEF SetAtExit, Store
  <1>3. ASSUME NEW t \in Providers, Exit(t) PROVE TypeOK'
    <2>1. Goto(t, "notify") /\ pc[t] \notin Waiting \cup {"timed"} /\ cv' = cv
      BY <1>3 DEF Exit
    <2>2. CvType'
      BY <1>0, <2>1, GotoType
    <2> QED
      BY <1>3, <2>2 DEF Exit, CvType
  <1>4. ASSUME NEW t \in Providers, DestroyPromise(t) PROVE TypeOK'
    <2>1. \E place \in Places : Goto(t, place)
      BY <1>4 DEF DestroyPromise
    <2>2. pc[t] \notin Waiting \cup {"timed"} /\ cv' = cv
      BY <1>4 DEF DestroyPromise
    <2>3. CvType'
      BY <1>0, <2>1, <2>2, GotoType
    <2>4. held' \subseteq Threads
      BY <1>4 DEF DestroyPromise
    <2> HIDE DEF Goto, Threads, Places, Waiting
    <2> QED
      BY <1>4, <2>3, <2>4 DEF DestroyPromise, CvType
  <1>5. ASSUME NEW t \in Providers, Break(t) PROVE TypeOK'
    <2>1. \E place \in Places : Goto(t, place)
      BY <1>5 DEF Break
    <2>2. pc[t] \notin Waiting \cup {"timed"} /\ cv' = cv
      BY <1>5 DEF Break
    <2>3. CvType'
      BY <1>0, <2>1, <2>2, GotoType
    <2>4. after' \in [Threads -> Places]
      BY <1>5 DEF Break
    <2> HIDE DEF Goto, Threads, Places, Waiting
    <2> QED
      BY <1>5, <2>3, <2>4 DEF Break, CvType
  <1>6. ASSUME NEW c \in Consumers, GetFuture(c) PROVE TypeOK'
    BY <1>6 DEF GetFuture
  <1>7. ASSUME NEW c \in Consumers, Attach(c) PROVE TypeOK'
    <2>1. \E place \in Places : Goto(c, place)
      BY <1>7 DEF Attach
    <2>2. pc[c] \notin Waiting \cup {"timed"} /\ cv' = cv
      BY <1>7 DEF Attach
    <2>3. CvType'
      BY <1>0, <2>1, <2>2, GotoType
    <2>4. future' \in [Consumers -> {"none", "unique", "shared"}] /\ owners' \in Nat
      BY <1>7 DEF Attach
    <2> HIDE DEF Goto, Threads, Places, Waiting
    <2> QED
      BY <1>7, <2>3, <2>4 DEF Attach, CvType
  <1>8. ASSUME NEW c \in Consumers, Share(c) PROVE TypeOK'
    BY <1>8 DEF Share
  <1>9. ASSUME NEW c \in Consumers, NEW d \in Consumers, CopyTo(c, d) PROVE TypeOK'
    BY <1>9 DEF CopyTo
  <1>10. ASSUME NEW c \in Consumers, Drop(c) PROVE TypeOK'
    <2>1. \E place \in Places : Goto(c, place)
      BY <1>10 DEF Drop, Holds
    <2>2. pc[c] \notin Waiting \cup {"timed"} /\ cv' = cv
      BY <1>10 DEF Drop, Holds
    <2>3. CvType'
      BY <1>0, <2>1, <2>2, GotoType
    <2>4. held' \subseteq Threads
      BY <1>10 DEF Drop, Holds
    <2> HIDE DEF Goto, Threads, Places, Waiting
    <2> QED
      BY <1>10, <2>3, <2>4 DEF Drop, Holds, CvType
  <1>11. ASSUME NEW c \in Consumers, Get(c) PROVE TypeOK'
    <2>1. \E place \in Places : Goto(c, place)
      BY <1>11 DEF Get, Holds
    <2>2. pc[c] \notin Waiting \cup {"timed"} /\ cv' = cv
      BY <1>11 DEF Get, Holds
    <2>3. CvType'
      BY <1>0, <2>1, <2>2, GotoType
    <2>4. held' \subseteq Threads
      BY <1>11 DEF Get, Holds
    <2> HIDE DEF Goto, Threads, Places, Waiting
    <2> QED
      BY <1>11, <2>3, <2>4 DEF Get, Holds, CvType
  <1>12. ASSUME NEW c \in Consumers, StartWait(c) PROVE TypeOK'
    <2>1. \E place \in Places : Goto(c, place)
      BY <1>12 DEF StartWait, Holds
    <2>2. pc[c] \notin Waiting \cup {"timed"} /\ cv' = cv
      BY <1>12 DEF StartWait, Holds
    <2>3. CvType'
      BY <1>0, <2>1, <2>2, GotoType
    <2> HIDE DEF Goto, Threads, Places, Waiting
    <2> QED
      BY <1>12, <2>3 DEF StartWait, Holds, CvType
  <1>13. ASSUME NEW t \in Threads, Execute(t) PROVE TypeOK'
    BY <1>13, ConstantsAssumption DEF Execute, Store, MakeReady
  <1>14. ASSUME NEW t \in Threads, Notify(t) PROVE TypeOK'
    BY <1>14 DEF Notify
  <1>15. ASSUME NEW t \in Threads, Release(t) PROVE TypeOK'
    <2>1. \E place \in Places : Goto(t, place)
      BY <1>15 DEF Release
    <2>2. pc[t] \notin Waiting \cup {"timed"} /\ cv' = cv
      BY <1>15 DEF Release
    <2>3. CvType'
      BY <1>0, <2>1, <2>2, GotoType
    <2> HIDE DEF Goto, Threads, Places, Waiting
    <2> QED
      BY <1>15, <2>3 DEF Release, CvType
  <1>16. ASSUME NEW t \in Threads, SubWait(t) PROVE TypeOK'
    <2>1. CASE EndWait(t)
      <3>1. Outcome \in {"value", "exception"} \X (Threads \cup {None, "broken_promise"})
        BY DEF Outcome
      <3> HIDE DEF Threads
      <3>2. got' \in [Threads -> {None} \cup
                {"value", "exception"} \X (Threads \cup {None, "broken_promise"})]
        BY <2>1, <3>1 DEF EndWait
      <3>3. /\ pc' \in [Threads -> Places]
            /\ cv' \subseteq {u \in Threads : pc'[u] \in Waiting \cup {"timed"}}
        BY <1>16, <2>1 DEF SubWait, EndWait
      <3> QED
        BY <2>1, <3>2, <3>3 DEF EndWait
    <2>2. CASE StartDeferred(t)
      <3>1. Goto(t, "execute") /\ t \notin cv /\ cv' = cv
        BY <1>16, <2>2 DEF SubWait, StartDeferred
      <3>2. CvType'
        BY <1>0, <3>1, GotoType
      <3> QED
        BY <2>2, <3>2 DEF StartDeferred, CvType
    <2>3. CASE Block(t)
      BY <1>16, <2>3 DEF SubWait, Block
    <2> QED
      BY <1>16, <2>1, <2>2, <2>3 DEF SubWait
  <1>17. ASSUME NEW t \in Threads, WaitUntil(t) PROVE TypeOK'
    BY <1>17 DEF WaitUntil, EndTimed, Block
  <1>18. ASSUME NEW t \in Threads, Wake(t) PROVE TypeOK'
    BY <1>18 DEF Wake
  <1> HIDE DEF TypeOK, Threads, Goto, flags, handles, Places, Waiting
  <1> QED
    BY <1>1, <1>2, <1>3, <1>4, <1>5, <1>6, <1>7, <1>8, <1>9, <1>10, <1>11, <1>12, <1>13,
       <1>14, <1>15, <1>16, <1>17, <1>18 DEF Next

\* The owners are finitely many.
LEMMA OwnersFinite == ASSUME TypeOK PROVE IsFiniteSet(Owners) /\ Cardinality(Owners) \in Nat
  <1> DEFINE Names == {"promise", "future", "exit", "call"}
  <1>1. IsFiniteSet({"promise"}) /\ IsFiniteSet({"future"}) /\ IsFiniteSet({"exit"}) /\ IsFiniteSet({"call"})
    BY FS_Singleton
  <1>2. IsFiniteSet({"promise", "future"}) /\ IsFiniteSet({"exit", "call"})
    <2>1. {"promise", "future"} = {"promise"} \cup {"future"} /\ {"exit", "call"} = {"exit"} \cup {"call"}
      OBVIOUS
    <2> QED
      BY <1>1, <2>1, FS_AddElement
  <1>3. IsFiniteSet(Names)
    <2>1. Names = {"promise", "future"} \cup {"exit", "call"}
      OBVIOUS
    <2> QED
      BY <1>2, <2>1, FS_Union
  <1>4. IsFiniteSet(Threads \cup {None})
    BY ConstantsAssumption, FS_AddElement
  <1>5. IsFiniteSet(Names \X (Threads \cup {None}))
    BY <1>3, <1>4, FS_Product
  <1>6. Owners \subseteq Names \X (Threads \cup {None})
    BY DEF Owners, TypeOK, Threads
  <1> QED
    BY <1>5, <1>6, FS_Subset, FS_CardinalityType

\* One thing takes the place of another in a finite set.
LEMMA Exchange ==
    ASSUME NEW S, IsFiniteSet(S), NEW x, NEW y, x \in S, y \notin S
    PROVE  Cardinality((S \ {x}) \cup {y}) = Cardinality(S)
  <1>1. IsFiniteSet(S \ {x}) /\ Cardinality(S \ {x}) = Cardinality(S) - 1
    BY FS_RemoveElement
  <1>2. Cardinality((S \ {x}) \cup {y}) = Cardinality(S \ {x}) + 1
    BY <1>1, FS_AddElement
  <1> QED
    BY <1>1, <1>2, FS_CardinalityType

\* While anything owns the state it is not deleted.
LEMMA Alive ==
    ASSUME Inv, NEW x \in Owners
    PROVE  owners > 0 /\ ~freed /\ \A t \in Threads : pc[t] # "zero"
  <1>1. Cardinality(Owners) # 0
    BY OwnersFinite, FS_EmptySet DEF Inv
  <1> QED
    BY <1>1, OwnersFinite DEF Inv, CountIsExact, DeletedOnce, CallsOwn

\* What is in the set of owners.
LEMMA OwnersAre ==
    ASSUME TypeOK
    PROVE  /\ promise <=> <<"promise", None>> \in Owners
           /\ \A c \in Consumers : future[c] # "none" <=> <<"future", c>> \in Owners
           /\ \A t \in Providers : t \in exits <=> <<"exit", t>> \in Owners
           /\ \A t \in Threads : t \in held <=> <<"call", t>> \in Owners
  BY DEF Owners, TypeOK

\* The invariant holds at the start.
LEMMA InitInv == Init => Inv
  <1> SUFFICES ASSUME Init PROVE Inv
    OBVIOUS
  <1> PICK c \in Consumers, w \in Providers :
          /\ held = IF kind = "promise" THEN {} ELSE {c}
          /\ pc = [t \in Threads |->
                    IF t = c /\ kind # "promise" THEN "launch"
                    ELSE IF t = w /\ kind = "async" THEN "execute" ELSE "program"]
    BY DEF Init
  <1>1. TypeOK
    BY DEF Init, TypeOK, Threads, Places
  <1>2. Cardinality(Owners) = 1
    <2>1. {d \in Consumers : future[d] # "none"} = {} /\ exits = {} /\ promise = (kind = "promise")
      BY DEF Init
    <2>2. CASE kind = "promise"
      <3>1. Owners = {<<"promise", None>>}
        BY <2>1, <2>2 DEF Owners
      <3> QED
        BY <3>1, FS_Singleton
    <2>3. CASE kind # "promise"
      <3>1. held = {c} /\ ~promise
        BY <2>1, <2>3
      <3>2. Owners = {"call"} \X {c}
        BY <2>1, <3>1 DEF Owners
      <3>3. Owners = {<<"call", c>>}
        BY <3>2
      <3> QED
        BY <3>3, FS_Singleton
    <2> QED
      BY <2>2, <2>3
  <1>3. CountIsExact /\ DeletedOnce
    <2>1. owners = 1 /\ freed = FALSE /\ \A t \in Threads : pc[t] # "zero"
      BY DEF Init
    <2> QED
      BY <1>2, <2>1 DEF CountIsExact, DeletedOnce
  <1>4. CallsOwn
    BY ConstantsAssumption DEF Init, CallsOwn, At, Threads
  <1>5. ResultIsSet
    BY ConstantsAssumption DEF Init, ResultIsSet, HasValue, NotBeforeExit, Threads
  <1>6. AttachedOnce
    BY DEF Init, AttachedOnce
  <1>7. ResultIsProvided
    <2>1. kind = "async" => w \in Threads /\ w # c /\ pc[w] = "execute"
      BY ConstantsAssumption DEF Threads
    <2>2. kind \in {"promise", "async", "deferred"}
      BY ConstantsAssumption DEF Init
    <2>3. kind = "promise" => \A t \in Threads : pc[t] # "launch"
      OBVIOUS
    <2> QED
      BY <2>1, <2>2, <2>3 DEF Init, ResultIsProvided, HasValue
  <1> QED
    BY <1>1, <1>3, <1>4, <1>5, <1>6, <1>7 DEF Inv

\* A step that neither adds nor takes away an owner.
LEMMA SameOwners ==
    ASSUME Inv, UNCHANGED owners, UNCHANGED handles
    PROVE  owners' = Cardinality(Owners')
  <1>1. Owners' = Owners
    BY DEF Owners, handles
  <1> QED
    BY <1>1 DEF Inv, CountIsExact

\* A step that adds one owner adds one to their number.
LEMMA OneMore ==
    ASSUME Inv, owners' = owners + 1, NEW x, x \notin Owners, Owners' = Owners \cup {x}
    PROVE  owners' = Cardinality(Owners')
  BY OwnersFinite, FS_AddElement DEF Inv, CountIsExact

\* The count stays exact: every step that adds an owner, or makes one of another,
\* changes the count accordingly.
LEMMA NextCount == ASSUME Inv, Next PROVE owners' = Cardinality(Owners')
  <1> USE DEF Inv
  <1>0. TypeOK /\ IsFiniteSet(Owners) /\ owners = Cardinality(Owners)
    BY OwnersFinite DEF CountIsExact
  <1>1. ASSUME NEW t \in Providers, NEW how \in {"value", "exception"}, Set(t, how)
        PROVE  owners' = Cardinality(Owners')
    BY <1>1, SameOwners DEF Set
  <1>2. ASSUME NEW t \in Providers, NEW how \in {"value", "exception"}, SetAtExit(t, how)
        PROVE  owners' = Cardinality(Owners')
    <2>1. t \notin exits
      BY <1>2, ConstantsAssumption DEF SetAtExit, Store, HasValue, ResultIsSet, Threads
    <2>2. <<"exit", t>> \notin Owners
      BY <1>0, <2>1, OwnersAre
    <2>3. Owners' = Owners \cup {<<"exit", t>>}
      BY <1>2 DEF SetAtExit, Owners
    <2> QED
      BY <1>2, <2>2, <2>3, OneMore DEF SetAtExit
  <1>3. ASSUME NEW t \in Providers, Exit(t) PROVE owners' = Cardinality(Owners')
    <2>1. <<"exit", t>> \in Owners /\ <<"call", t>> \notin Owners
      <3>1. At(t) = "program" /\ t \in Threads
        BY <1>3 DEF Exit, CallsOwn, At, Threads
      <3>2. t \notin held
        BY <3>1 DEF CallsOwn
      <3> QED
        BY <1>0, <1>3, <3>1, <3>2, OwnersAre DEF Exit
    <2>2. Owners' = (Owners \ {<<"exit", t>>}) \cup {<<"call", t>>}
      BY <1>3 DEF Exit, Owners
    <2> QED
      BY <1>0, <1>3, <2>1, <2>2, Exchange DEF Exit
  <1>4. ASSUME NEW t \in Providers, DestroyPromise(t) PROVE owners' = Cardinality(Owners')
    <2>1. <<"promise", None>> \in Owners /\ <<"call", t>> \notin Owners
      <3>1. At(t) = "program" /\ t \in Threads
        BY <1>4 DEF DestroyPromise, CallsOwn, At, Threads
      <3>2. t \notin held
        BY <3>1 DEF CallsOwn
      <3> QED
        BY <1>0, <1>4, <3>1, <3>2, OwnersAre DEF DestroyPromise
    <2>2. Owners' = (Owners \ {<<"promise", None>>}) \cup {<<"call", t>>}
      BY <1>4 DEF DestroyPromise, Owners
    <2> QED
      BY <1>0, <1>4, <2>1, <2>2, Exchange DEF DestroyPromise
  <1>5. ASSUME NEW t \in Providers, Break(t) PROVE owners' = Cardinality(Owners')
    BY <1>5, SameOwners DEF Break
  <1>6. ASSUME NEW c \in Consumers, owners' = owners + 1, UNCHANGED <<promise, exits, held>>,
               \E s \in {"unique", "shared"} : future' = [future EXCEPT ![c] = s],
               future[c] = "none"
        PROVE  owners' = Cardinality(Owners')
    <2>1. <<"future", c>> \notin Owners
      BY <1>0, <1>6, OwnersAre
    <2>2. {d \in Consumers : future'[d] # "none"} = {d \in Consumers : future[d] # "none"} \cup {c}
      BY <1>6 DEF TypeOK
    <2>3. Owners' = Owners \cup {<<"future", c>>}
      BY <1>6, <2>2 DEF Owners
    <2> QED
      BY <1>6, <2>1, <2>3, OneMore
  <1>7. ASSUME NEW c \in Consumers, GetFuture(c) \/ Attach(c)
        PROVE  owners' = Cardinality(Owners')
    <2>1. future[c] = "none"
      BY <1>7 DEF GetFuture, Attach, AttachedOnce, Threads
    <2> QED
      BY <1>6, <1>7, <2>1 DEF GetFuture, Attach
  <1>8. ASSUME NEW c \in Consumers, NEW d \in Consumers, CopyTo(c, d)
        PROVE  owners' = Cardinality(Owners')
    BY <1>6, <1>8 DEF CopyTo
  <1>9. ASSUME NEW c \in Consumers, Share(c) PROVE owners' = Cardinality(Owners')
    <2>1. {d \in Consumers : future'[d] # "none"} = {d \in Consumers : future[d] # "none"}
      BY <1>9 DEF Share, Holds, TypeOK
    <2>2. Owners' = Owners
      BY <1>9, <2>1 DEF Share, Owners
    <2> QED
      BY <1>0, <1>9, <2>2 DEF Share
  <1>10. ASSUME NEW c \in Consumers, pc[c] = "program", future[c] # "none",
                UNCHANGED <<owners, promise, exits>>, held' = held \cup {c},
                future' = [future EXCEPT ![c] = "none"]
         PROVE  owners' = Cardinality(Owners')
    <2>1. <<"future", c>> \in Owners /\ <<"call", c>> \notin Owners
      <3>1. At(c) = "program" /\ c \in Threads
        BY <1>10 DEF CallsOwn, At, Threads
      <3>2. c \notin held
        BY <3>1 DEF CallsOwn
      <3> QED
        BY <1>0, <1>10, <3>1, <3>2, OwnersAre
    <2>2. {d \in Consumers : future'[d] # "none"} = {d \in Consumers : future[d] # "none"} \ {c}
      BY <1>10 DEF TypeOK
    <2>3. Owners' = (Owners \ {<<"future", c>>}) \cup {<<"call", c>>}
      BY <1>10, <2>2 DEF Owners
    <2> QED
      BY <1>0, <1>10, <2>1, <2>3, Exchange
  <1>11. ASSUME NEW c \in Consumers, Drop(c) \/ Get(c) PROVE owners' = Cardinality(Owners')
    <2>1. CASE UNCHANGED <<future, held>>
      BY <1>11, <2>1, SameOwners DEF Drop, Get, handles
    <2>2. CASE future' = [future EXCEPT ![c] = "none"] /\ held' = held \cup {c}
      BY <1>10, <1>11, <2>2 DEF Drop, Get, Holds
    <2> QED
      BY <1>11, <2>1, <2>2 DEF Drop, Get
  <1>12. ASSUME NEW c \in Consumers, StartWait(c) PROVE owners' = Cardinality(Owners')
    BY <1>12, SameOwners DEF StartWait
  <1>13. ASSUME NEW t \in Threads, Execute(t) \/ Notify(t) \/ SubWait(t) \/ WaitUntil(t) \/ Wake(t)
         PROVE  owners' = Cardinality(Owners')
    BY <1>13, SameOwners
       DEF Execute, Notify, SubWait, EndWait, StartDeferred, Block, WaitUntil, EndTimed, Wake
  <1>14. ASSUME NEW t \in Threads, Release(t) PROVE owners' = Cardinality(Owners')
    <2>1. <<"call", t>> \in Owners
      <3>1. At(t) = "release"
        BY <1>14 DEF Release, CallsOwn, At
      <3>2. t \in held
        BY <3>1 DEF CallsOwn
      <3> QED
        BY <1>0, <3>2, OwnersAre
    <2>2. Owners' = Owners \ {<<"call", t>>}
      BY <1>14 DEF Release, Owners
    <2> QED
      BY <1>0, <1>14, <2>1, <2>2, FS_RemoveElement DEF Release
  <1> HIDE DEF Inv
  <1> QED
    BY <1>1, <1>2, <1>3, <1>4, <1>5, <1>7, <1>8, <1>9, <1>11, <1>12, <1>13, <1>14 DEF Next

\* The state is alive where a thread makes a step that uses it: except for the
\* thread of std::async something owns it, and there one waits to delete it.
LEMMA ActorOwns ==
    ASSUME Inv, NEW t \in Threads, t \in held \/ (t \in Consumers /\ future[t] # "none")
                                   \/ promise \/ exits # {}
    PROVE  owners > 0 /\ ~freed /\ \A u \in Threads : pc[u] # "zero"
  <1>1. \E x : x \in Owners
    BY OwnersAre DEF Inv, TypeOK
  <1> QED
    BY <1>1, Alive

\* The steps of the providers keep what Inv says besides types and count.
LEMMA ProviderSteps ==
    ASSUME Inv, TypeOK', NEW t \in Providers,
           (\E how \in {"value", "exception"} : Set(t, how) \/ SetAtExit(t, how))
             \/ Exit(t) \/ DestroyPromise(t) \/ Break(t)
    PROVE  DeletedOnce' /\ CallsOwn' /\ ResultIsSet' /\ AttachedOnce'
  <1> USE DEF Inv
  <1>0. t \in Threads /\ \A c \in Consumers : c \in Threads /\ c # t
    BY ConstantsAssumption DEF Threads
  <1>1. owners > 0 /\ ~freed /\ \A u \in Threads : pc[u] # "zero"
    BY <1>0, ActorOwns DEF Set, SetAtExit, Exit, DestroyPromise, Break, CallsOwn, At
  <1>2. owners \in Nat
    BY DEF TypeOK
  <1>a. t # None /\ "broken_promise" # None /\ \A u \in exits : u \in Providers /\ u # None
    BY ConstantsAssumption DEF TypeOK, Threads
  <1>b. ~HasValue => exits = {} /\ ~ready
    BY <1>a DEF HasValue, ResultIsSet
  <1>3. ASSUME NEW how \in {"value", "exception"}, Set(t, how)
        PROVE  DeletedOnce' /\ CallsOwn' /\ ResultIsSet' /\ AttachedOnce'
    <2> USE <1>3 DEF Set, Store, MakeReady, Goto, handles
    <2>1. after[t] = "program"
      BY <1>0 DEF CallsOwn
    <2>2. DeletedOnce'
      BY <1>1, <2>1 DEF DeletedOnce, TypeOK
    <2>3. CallsOwn'
      BY <1>0, <2>1 DEF CallsOwn, At, TypeOK, ResultIsSet
    <2>4. ResultIsSet'
      <3>1. HasValue' /\ (value' = None \/ exception' = None)
        BY <1>a, <2>1 DEF HasValue, ResultIsSet
      <3>2. exits' = {}
        BY <1>a, <1>b DEF ResultIsSet
      <3>3. \A u \in Threads : pc'[u] # "execute" /\ pc'[u] # "break"
        BY <1>0, <1>a, <2>1 DEF ResultIsSet, TypeOK, HasValue
      <3> QED
        BY <1>0, <1>1, <1>b, <2>1, <3>1, <3>2, <3>3 DEF ResultIsSet, NotBeforeExit, TypeOK
    <2>5. AttachedOnce'
      BY <2>1 DEF AttachedOnce, TypeOK
    <2> QED
      BY <2>2, <2>3, <2>4, <2>5
  <1>4. ASSUME NEW how \in {"value", "exception"}, SetAtExit(t, how)
        PROVE  DeletedOnce' /\ CallsOwn' /\ ResultIsSet' /\ AttachedOnce'
    <2> USE <1>4 DEF SetAtExit, Store
    <2>2. DeletedOnce'
      BY <1>1, <1>2 DEF DeletedOnce, TypeOK
    <2>1. kind = "promise"
      BY DEF ResultIsSet
    <2>3. CallsOwn'
      BY <1>0, <1>1, <1>2, <2>1 DEF CallsOwn, At, TypeOK
    <2>4. ResultIsSet'
      <3>1. HasValue' /\ (value' = None \/ exception' = None) /\ (value' = t \/ exception' = t)
        BY <1>a DEF HasValue
      <3>2. exits' = {t} /\ ~ready
        BY <1>b
      <3>3. \A u \in Threads : pc'[u] # "execute" /\ pc'[u] # "break" /\ pc'[u] # "notify"
        BY <1>b DEF ResultIsSet, TypeOK
      <3>4. kind = "promise" /\ ~deferred
        BY DEF ResultIsSet
      <3> QED
        BY <1>1, <3>1, <3>2, <3>3, <3>4 DEF ResultIsSet, NotBeforeExit
    <2>5. AttachedOnce'
      BY DEF AttachedOnce, TypeOK
    <2> QED
      BY <2>2, <2>3, <2>4, <2>5
  <1>5. ASSUME Exit(t)
        PROVE  DeletedOnce' /\ CallsOwn' /\ ResultIsSet' /\ AttachedOnce'
    <2> USE <1>5 DEF Exit, Goto
    <2>1. after[t] = "program" /\ kind = "promise"
      BY <1>0 DEF CallsOwn, ResultIsSet
    <2>2. DeletedOnce'
      BY <1>1, <1>2 DEF DeletedOnce, TypeOK
    <2>3. CallsOwn'
      BY <1>0, <1>1, <2>1 DEF CallsOwn, At, TypeOK
    <2>4. ResultIsSet'
      <3>1. HasValue' /\ (value' = None \/ exception' = None)
        BY <1>a, <2>1 DEF HasValue, ResultIsSet
      <3>2. exits' = {}
        BY <1>a, <1>b DEF ResultIsSet
      <3>3. \A u \in Threads : pc'[u] # "execute" /\ pc'[u] # "break"
        BY <1>0, <1>a, <2>1 DEF ResultIsSet, TypeOK, HasValue
      <3> QED
        BY <1>0, <1>1, <1>b, <2>1, <3>1, <3>2, <3>3 DEF ResultIsSet, NotBeforeExit, TypeOK
    <2>5. AttachedOnce'
      BY DEF AttachedOnce, TypeOK
    <2> QED
      BY <2>2, <2>3, <2>4, <2>5
  <1>6. ASSUME DestroyPromise(t)
        PROVE  DeletedOnce' /\ CallsOwn' /\ ResultIsSet' /\ AttachedOnce'
    <2> USE <1>6 DEF DestroyPromise, Goto, flags
    <2>1. after[t] = "program" /\ kind = "promise" /\ pc[t] = "program"
      BY <1>0 DEF CallsOwn, ResultIsSet
    <2>2. DeletedOnce'
      BY <1>1, <1>2 DEF DeletedOnce, TypeOK
    <2>3. CallsOwn'
      BY <1>0, <1>1, <2>1 DEF CallsOwn, At, TypeOK, HasValue
    <2>4. ResultIsSet'
      BY <1>0, <1>1, <2>1, ConstantsAssumption DEF ResultIsSet, HasValue, NotBeforeExit, TypeOK
    <2>5. AttachedOnce'
      BY DEF AttachedOnce, TypeOK
    <2> QED
      BY <2>2, <2>3, <2>4, <2>5
  <1>7. ASSUME Break(t)
        PROVE  DeletedOnce' /\ CallsOwn' /\ ResultIsSet' /\ AttachedOnce'
    <2> USE <1>7 DEF Break, Goto, handles
    <2>1. after[t] = "program" /\ kind = "promise"
      BY <1>0 DEF CallsOwn, ResultIsSet
    <2>2. DeletedOnce'
      BY <1>1, <1>2 DEF DeletedOnce, TypeOK
    <2>3. CallsOwn'
      BY <1>0, <1>1, <2>1 DEF CallsOwn, At, TypeOK
    <2>4. ResultIsSet'
      <3>1. HasValue' /\ (value' = None \/ exception' = None)
        BY <1>a, <2>1 DEF HasValue, ResultIsSet
      <3>2. exits' = {}
        BY <1>a, <1>b DEF ResultIsSet
      <3>3. \A u \in Threads : pc'[u] # "execute" /\ pc'[u] # "break"
        BY <1>0, <1>a, <2>1 DEF ResultIsSet, TypeOK, HasValue
      <3> QED
        BY <1>0, <1>1, <1>b, <2>1, <3>1, <3>2, <3>3 DEF ResultIsSet, NotBeforeExit, TypeOK
    <2>5. AttachedOnce'
      BY DEF AttachedOnce, TypeOK
    <2> QED
      BY <2>2, <2>3, <2>4, <2>5
  <1> QED
    BY <1>3, <1>4, <1>5, <1>6, <1>7

\* So do those of the consumers.
LEMMA ConsumerSteps ==
    ASSUME Inv, TypeOK', NEW c \in Consumers,
           \/ GetFuture(c) \/ Attach(c) \/ Share(c) \/ Drop(c) \/ Get(c) \/ StartWait(c)
           \/ \E d \in Consumers : CopyTo(c, d)
    PROVE  DeletedOnce' /\ CallsOwn' /\ ResultIsSet' /\ AttachedOnce'
  <1> USE DEF Inv
  <1>0. c \in Threads /\ \A t \in Providers : t \in Threads /\ c # t
    BY ConstantsAssumption DEF Threads
  <1>1. owners > 0 /\ ~freed /\ \A u \in Threads : pc[u] # "zero"
    BY <1>0, ActorOwns
       DEF GetFuture, Attach, Share, Drop, Get, StartWait, CopyTo, Holds, CallsOwn, At
  <1>2. owners \in Nat
    BY DEF TypeOK
  <1>3. DeletedOnce'
    BY <1>1, <1>2 DEF GetFuture, Attach, Share, Drop, Get, StartWait, CopyTo, Holds, Goto,
                      DeletedOnce, TypeOK
  <1>4. ResultIsSet'
    <2>1. /\ UNCHANGED <<kind, freed, deferred, ready, value, exception, exits>>
          /\ promise' = promise
          /\ \A u \in Threads : pc'[u] \in {"execute", "notify", "break"} => pc'[u] = pc[u]
      BY DEF GetFuture, Attach, Share, Drop, Get, StartWait, CopyTo, Goto, flags, handles, TypeOK
    <2> QED
      BY <2>1 DEF ResultIsSet, HasValue, NotBeforeExit
  <1>5. CASE GetFuture(c)
    <2>1. CallsOwn'
      BY <1>0, <1>1, <1>2, <1>5 DEF GetFuture, CallsOwn, At, TypeOK
    <2>2. AttachedOnce'
      BY <1>5 DEF GetFuture, AttachedOnce, TypeOK
    <2> QED
      BY <1>3, <1>4, <2>1, <2>2
  <1>6. CASE Attach(c)
    <2>0. after[c] = "program" /\ c \in held
      BY <1>0, <1>6 DEF Attach, CallsOwn, At
    <2>1. CallsOwn'
      BY <1>0, <1>1, <1>2, <1>6, <2>0 DEF Attach, Goto, CallsOwn, At, TypeOK
    <2>2. AttachedOnce'
      BY <1>0, <1>6 DEF Attach, Goto, AttachedOnce, TypeOK
    <2> QED
      BY <1>3, <1>4, <2>1, <2>2
  <1>7. CASE Share(c) \/ \E d \in Consumers : CopyTo(c, d)
    <2>1. CallsOwn'
      BY <1>0, <1>1, <1>2, <1>7 DEF Share, CopyTo, Holds, flags, CallsOwn, At, TypeOK
    <2>2. AttachedOnce'
      BY <1>7 DEF Share, CopyTo, Holds, flags, AttachedOnce, TypeOK
    <2> QED
      BY <1>3, <1>4, <2>1, <2>2
  <1>8. CASE Drop(c) \/ Get(c) \/ StartWait(c)
    <2>0. after[c] = "program" /\ c \notin held
      BY <1>0, <1>8 DEF Drop, Get, StartWait, Holds, CallsOwn, At
    <2>1. CallsOwn'
      BY <1>0, <1>1, <1>2, <1>8, <2>0
         DEF Drop, Get, StartWait, Holds, Goto, flags, handles, CallsOwn, At, TypeOK
    <2>2. AttachedOnce'
      BY <1>8 DEF Drop, Get, StartWait, Holds, Goto, flags, handles, AttachedOnce, TypeOK
    <2> QED
      BY <1>3, <1>4, <2>1, <2>2
  <1> QED
    BY <1>5, <1>6, <1>7, <1>8

\* So do the steps inside of calls of the library.
LEMMA LibrarySteps ==
    ASSUME Inv, TypeOK', NEW t \in Threads,
           Execute(t) \/ Notify(t) \/ Release(t) \/ SubWait(t) \/ WaitUntil(t) \/ Wake(t)
    PROVE  DeletedOnce' /\ CallsOwn' /\ ResultIsSet' /\ AttachedOnce'
  <1> USE DEF Inv
  <1>0. t # None /\ exits \subseteq Providers /\ \A u \in Providers : u \in Threads /\ u # None
    BY ConstantsAssumption DEF TypeOK, Threads
  <1>1. DeletedOnce
    OBVIOUS
  <1>2. ASSUME UNCHANGED <<freed, owners, promise, future, exits, held, kind, void, attached>>,
               UNCHANGED <<deferred, ready, value, exception, pc, after>>
        PROVE  DeletedOnce' /\ CallsOwn' /\ ResultIsSet' /\ AttachedOnce'
    BY <1>1, <1>2 DEF DeletedOnce, CallsOwn, At, ResultIsSet, HasValue, NotBeforeExit, AttachedOnce
  <1>3. CASE Wake(t) \/ Block(t)
    BY <1>2, <1>3 DEF Wake, Block, flags, handles
  <1>4. CASE Execute(t)
    <2> PICK how \in {"value", "exception"} : Store(t, how) /\ MakeReady(t, how)
      BY <1>4 DEF Execute
    <2> USE <1>4 DEF Execute, Store, MakeReady, Goto, handles
    <2>1. DeletedOnce'
      BY <1>1 DEF DeletedOnce, CallsOwn, TypeOK
    <2>2. CallsOwn'
      BY <1>0, ConstantsAssumption DEF CallsOwn, At, ResultIsSet, TypeOK
    <2>3. ResultIsSet'
      <3>1. HasValue' /\ (value' = None \/ exception' = None)
        BY <1>0 DEF HasValue
      <3>2. exits' = {} /\ ~deferred'
        BY <1>0 DEF ResultIsSet, HasValue
      <3>3. \A u \in Threads : pc'[u] # "execute" /\ pc'[u] # "break"
        BY DEF ResultIsSet, CallsOwn, TypeOK
      <3> QED
        BY <3>1, <3>2, <3>3 DEF ResultIsSet, NotBeforeExit
    <2>4. AttachedOnce'
      BY DEF AttachedOnce, CallsOwn, TypeOK
    <2> QED
      BY <2>1, <2>2, <2>3, <2>4
  <1>5. CASE Notify(t)
    <2> USE <1>5 DEF Notify, Goto, flags, handles
    <2>1. DeletedOnce'
      BY <1>1 DEF DeletedOnce, CallsOwn, TypeOK
    <2>2. CallsOwn'
      BY <1>0 DEF CallsOwn, At, ResultIsSet, TypeOK
    <2>3. ResultIsSet'
      BY DEF ResultIsSet, NotBeforeExit, HasValue, CallsOwn, TypeOK
    <2>4. AttachedOnce'
      BY DEF AttachedOnce, CallsOwn, TypeOK
    <2> QED
      BY <2>1, <2>2, <2>3, <2>4
  <1>6. CASE Release(t)
    <2> USE <1>6 DEF Release, Goto, flags
    <2>0. after[t] = "program" /\ t \in held /\ owners \in Nat
      BY DEF CallsOwn, At, TypeOK
    <2>a. owners > 0 /\ ~freed /\ \A u \in Threads : pc[u] # "zero"
      BY <2>0, ActorOwns
    <2>1. DeletedOnce'
      <3>1. CASE owners = 1 /\ kind = "async"
        <4>1. owners' = 0 /\ ~freed' /\ \A u \in Threads : pc'[u] = "zero" <=> u = t
          BY <2>a, <3>1 DEF TypeOK
        <4> HIDE <1>6
        <4> QED
          BY <4>1 DEF DeletedOnce
      <3>2. CASE ~(owners = 1 /\ kind = "async")
        <4>1. \A u \in Threads : pc'[u] # "zero"
          BY <2>a, <3>2 DEF TypeOK
        <4>2. owners' = owners - 1 /\ freed' = (freed \/ owners = 1)
          BY <3>2
        <4>3. freed' <=> owners = 1
          BY <2>a, <4>2, Zenon
        <4>4. owners' = 0 <=> owners = 1
          BY <2>0, <4>2
        <4> HIDE <1>6
        <4> QED
          BY <4>1, <4>3, <4>4, Zenon DEF DeletedOnce
      <3> QED
        BY <3>1, <3>2
    <2>2. CallsOwn'
      BY <2>0, <2>a DEF CallsOwn, At, TypeOK
    <2>3. ResultIsSet'
      BY <2>a DEF ResultIsSet, NotBeforeExit, HasValue, TypeOK
    <2>4. AttachedOnce'
      BY DEF AttachedOnce, TypeOK
    <2> QED
      BY <2>1, <2>2, <2>3, <2>4
  <1>7. CASE SubWait(t) /\ ready /\ EndWait(t)
    <2> USE <1>7 DEF SubWait, EndWait, Waiting, Goto, flags, handles
    <2>0. after[t] = "program"
      BY DEF CallsOwn
    <2>1. DeletedOnce'
      <3>1. CASE pc[t] = "zero"
        <4>1. owners' = 0 /\ freed' /\ \A u \in Threads : pc'[u] # "zero"
          <5>1. owners = 0 /\ \A u \in Threads : pc[u] = "zero" => u = t
            BY <3>1 DEF CallsOwn, DeletedOnce
          <5>2. \A u \in Threads : pc'[u] = IF u = t THEN "program" ELSE pc[u]
            BY <3>1 DEF TypeOK
          <5>3. freed' = (freed \/ pc[t] = "zero") /\ owners' = owners
            OBVIOUS
          <5> HIDE <1>7
          <5> QED
            BY <3>1, <5>1, <5>2, <5>3
        <4> QED
          BY <4>1 DEF DeletedOnce
      <3>2. CASE pc[t] # "zero"
        <4>1. \A u \in Threads : pc'[u] = "zero" <=> pc[u] = "zero"
          BY <3>2 DEF TypeOK
        <4>2. freed' = freed /\ owners' = owners
          BY <3>2 DEF TypeOK
        <4> QED
          BY <1>1, <4>1, <4>2 DEF DeletedOnce
      <3> QED
        BY <3>1, <3>2
    <2>2. CallsOwn'
      BY <2>0 DEF CallsOwn, At, TypeOK
    <2>3. ResultIsSet'
      <3>1. \A u \in Threads : pc'[u] \in {"execute", "notify", "break"} => pc'[u] = pc[u]
        BY DEF TypeOK
      <3>2. UNCHANGED <<kind, ready, deferred, value, exception, promise, exits>> /\ ready
        OBVIOUS
      <3> HIDE <1>7
      <3> QED
        BY <3>1, <3>2 DEF ResultIsSet, NotBeforeExit, HasValue
    <2>4. AttachedOnce'
      BY DEF AttachedOnce, TypeOK
    <2> QED
      BY <2>1, <2>2, <2>3, <2>4
  <1>8. CASE SubWait(t) /\ StartDeferred(t) /\ deferred
    <2> USE <1>8 DEF SubWait, StartDeferred, Waiting, Goto, handles
    <2>0. after[t] = "program" /\ pc[t] # "zero" /\ kind = "deferred"
      BY DEF CallsOwn, ResultIsSet
    <2>a. \A u \in Threads : pc'[u] = IF u = t THEN "execute" ELSE pc[u]
      BY DEF TypeOK
    <2>1. DeletedOnce'
      BY <1>1, <2>0, <2>a DEF DeletedOnce
    <2>2. CallsOwn'
      BY <2>0 DEF CallsOwn, At, TypeOK
    <2>3. ResultIsSet'
      <3>1. ~HasValue /\ ~ready /\ ~deferred' /\ \A u \in Threads : pc[u] # "execute"
        BY DEF ResultIsSet, TypeOK
      <3>2. UNCHANGED <<kind, freed, ready, value, exception, promise, exits>>
        OBVIOUS
      <3> HIDE <1>8
      <3> QED
        BY <2>0, <2>a, <3>1, <3>2 DEF ResultIsSet, NotBeforeExit, HasValue
    <2>4. AttachedOnce'
      BY DEF AttachedOnce, TypeOK
    <2> QED
      BY <2>1, <2>2, <2>3, <2>4
  <1>9. CASE WaitUntil(t) /\ EndTimed(t)
    <2> USE <1>9 DEF WaitUntil, EndTimed, Goto, flags, handles
    <2>0. after[t] = "program"
      BY DEF CallsOwn
    <2>1. DeletedOnce'
      BY <1>1 DEF DeletedOnce, TypeOK
    <2>2. CallsOwn'
      BY <2>0 DEF CallsOwn, At, TypeOK
    <2>3. ResultIsSet'
      BY DEF ResultIsSet, NotBeforeExit, HasValue, TypeOK
    <2>4. AttachedOnce'
      BY DEF AttachedOnce, TypeOK
    <2> QED
      BY <2>1, <2>2, <2>3, <2>4
  <1> QED
    BY <1>3, <1>4, <1>5, <1>6, <1>7, <1>8, <1>9 DEF SubWait, WaitUntil

\* Where nothing owns a promise's state but the promise, nobody has a future or waits.
LEMMA NobodyWaits ==
    ASSUME Inv, promise, owners = 1
    PROVE  /\ \A c \in Consumers : future[c] = "none"
           /\ \A t \in Threads : pc[t] \notin Waiting \cup {"timed"}
  <1> USE DEF Inv
  <1>1. <<"promise", None>> \in Owners /\ IsFiniteSet(Owners) /\ Cardinality(Owners) = 1
    BY OwnersAre, OwnersFinite DEF CountIsExact
  <1>2. PICK x : Owners = {x}
    BY <1>1, FS_Singleton
  <1>3. \A y \in Owners : y[1] = "promise"
    BY <1>1, <1>2
  <1>4. \A c \in Consumers : future[c] = "none"
    BY <1>3, OwnersAre DEF TypeOK
  <1>5. ASSUME NEW t \in held PROVE FALSE
    <2>1. t \in Threads
      BY DEF TypeOK
    <2>2. <<"call", t>> \in Owners
      BY <2>1, OwnersAre
    <2>3. <<"call", t>>[1] = "promise"
      BY <1>3, <2>2
    <2> QED
      BY <2>3
  <1>6. \A t \in Threads : pc[t] # "get" /\ pc[t] # "zero"
    BY <1>5, ConstantsAssumption DEF CallsOwn, At, TypeOK
  <1>7. \A t \in Threads : pc[t] \notin {"copy", "wait", "timed"}
    BY <1>4 DEF CallsOwn, At
  <1> QED
    BY <1>4, <1>6, <1>7 DEF Waiting

\* A step that sets no result and ends no call that will set one keeps the result
\* provided, if it makes nobody wait where none will come.
LEMMA StaysProvided ==
    ASSUME Inv, UNCHANGED <<kind, deferred, ready, value, exception, promise, exits>>,
           \A u \in Threads : pc[u] \in {"execute", "break"} => pc'[u] = pc[u],
           \A u \in Threads : pc'[u] = "launch" => pc[u] = "launch",
           deferred => cv' = {},
           ready /\ cv' # {} => \E u \in Threads : pc'[u] = "notify",
           kind = "promise" /\ ~promise /\ ~HasValue /\ (\A c \in Consumers : future[c] = "none")
               /\ (\A u \in Threads : pc[u] \notin Waiting \cup {"timed"}) =>
                 /\ \A c \in Consumers : future'[c] = "none"
                 /\ \A u \in Threads : pc'[u] \notin Waiting \cup {"timed"}
    PROVE  ResultIsProvided'
  <1>1. HasValue' = HasValue
    BY DEF HasValue
  <1>2. (\E u \in Threads : pc[u] = "execute") => \E u \in Threads : pc'[u] = "execute"
    OBVIOUS
  <1>3. (\E u \in Threads : pc[u] = "break") => \E u \in Threads : pc'[u] = "break"
    OBVIOUS
  <1> QED
    BY <1>1, <1>2, <1>3 DEF Inv, ResultIsProvided

\* The steps of the providers and of the function keep the result provided.
LEMMA ProvidersProvide ==
    ASSUME Inv, NEW t \in Threads,
           \/ t \in Providers /\
                \/ \E how \in {"value", "exception"} : Set(t, how) \/ SetAtExit(t, how)
                \/ Exit(t) \/ DestroyPromise(t) \/ Break(t)
           \/ Execute(t)
    PROVE  ResultIsProvided'
  <1> USE DEF Inv
  <1>0. t # None /\ "broken_promise" # None
    BY ConstantsAssumption DEF Threads
  <1>1. ASSUME NEW how \in {"value", "exception"}, Store(t, how), MakeReady(t, how),
               UNCHANGED <<kind, deferred, promise, exits>>,
               pc[t] = "program" \/ pc[t] = "execute"
        PROVE  ResultIsProvided'
    <2>1. HasValue' /\ ready'
      BY <1>0, <1>1 DEF Store, HasValue, MakeReady
    <2>2. cv' # {} => cv' = cv /\ pc'[t] = "notify"
      BY <1>1 DEF MakeReady, Goto, TypeOK
    <2>3. deferred => cv' = {}
      BY <1>1 DEF MakeReady, ResultIsProvided
    <2>4. \A u \in Threads : pc'[u] = "launch" => pc[u] = "launch"
      BY <1>1 DEF MakeReady, Goto, TypeOK, CallsOwn
    <2> QED
      BY <1>1, <2>1, <2>2, <2>3, <2>4 DEF ResultIsProvided
  <1>2. ASSUME NEW how \in {"value", "exception"}, Set(t, how) PROVE ResultIsProvided'
    BY <1>1, <1>2 DEF Set, handles
  <1>3. ASSUME Execute(t) PROVE ResultIsProvided'
    BY <1>1, <1>3 DEF Execute, handles
  <1>4. ASSUME NEW how \in {"value", "exception"}, SetAtExit(t, how) PROVE ResultIsProvided'
    <2>1. HasValue' /\ exits' # {} /\ ~ready /\ kind = "promise"
      BY <1>0, <1>4 DEF SetAtExit, Store, HasValue, ResultIsSet
    <2> QED
      BY <1>4, <2>1 DEF SetAtExit, ResultIsProvided
  <1>5. ASSUME Exit(t) PROVE ResultIsProvided'
    <2>1. HasValue /\ kind = "promise" /\ ~deferred
      BY <1>0, <1>5 DEF Exit, ResultIsSet, HasValue
    <2>2. HasValue' /\ pc'[t] = "notify" /\ \A u \in Threads \ {t} : pc'[u] = pc[u]
      BY <1>5, <2>1 DEF Exit, Goto, HasValue, TypeOK
    <2> QED
      BY <1>5, <2>1, <2>2 DEF Exit, ResultIsProvided
  <1>6. ASSUME DestroyPromise(t) PROVE ResultIsProvided'
    <2> USE <1>6 DEF DestroyPromise, flags
    <2>1. kind = "promise" /\ HasValue' = HasValue
      BY DEF ResultIsSet, HasValue
    <2>2. /\ pc[t] = "program"
          /\ pc'[t] = IF ~HasValue /\ owners > 1 THEN "break" ELSE "release"
          /\ \A u \in Threads \ {t} : pc'[u] = pc[u]
      BY DEF Goto, TypeOK
    <2>3. ready /\ cv # {} => \E u \in Threads : pc'[u] = "notify"
      BY <2>2 DEF ResultIsProvided
    <2>4. CASE HasValue
      BY <2>1, <2>2, <2>3, <2>4 DEF ResultIsProvided
    <2>5. CASE ~HasValue /\ owners > 1
      BY <2>1, <2>2, <2>3, <2>5 DEF ResultIsProvided
    <2>6. CASE ~HasValue /\ ~(owners > 1)
      <3>1. owners = 1
        BY <2>6, ActorOwns DEF TypeOK
      <3>2. /\ \A c \in Consumers : future'[c] = "none"
            /\ \A u \in Threads : pc'[u] \notin Waiting \cup {"timed"}
        BY <2>2, <2>6, <3>1, NobodyWaits DEF Waiting
      <3> QED
        BY <2>1, <2>2, <2>3, <2>6, <3>2 DEF ResultIsProvided
    <2> QED
      BY <2>4, <2>5, <2>6
  <1>7. ASSUME Break(t) PROVE ResultIsProvided'
    <2>1. kind = "promise" /\ HasValue'
      BY <1>0, <1>7 DEF Break, ResultIsSet, HasValue
    <2>2. pc'[t] = "notify" /\ \A u \in Threads \ {t} : pc'[u] = pc[u]
      BY <1>7 DEF Break, Goto, TypeOK
    <2> QED
      BY <1>7, <2>1, <2>2 DEF Break, handles, ResultIsProvided
  <1> QED
    BY <1>2, <1>3, <1>4, <1>5, <1>6, <1>7

\* The steps of the consumers make nobody wait where no result will come.
LEMMA ConsumersProvide ==
    ASSUME Inv, NEW c \in Consumers,
           \/ GetFuture(c) \/ Attach(c) \/ Share(c) \/ Drop(c) \/ Get(c) \/ StartWait(c)
           \/ \E d \in Consumers : CopyTo(c, d)
    PROVE  ResultIsProvided'
  <1> USE DEF Inv
  <1>0. c \in Threads
    BY DEF Threads
  <1>1. /\ UNCHANGED <<kind, deferred, ready, value, exception, promise, exits, cv>>
        /\ \A u \in Threads : pc[u] \in {"execute", "break", "notify"} => pc'[u] = pc[u]
        /\ \A u \in Threads : pc'[u] = "launch" => pc[u] = "launch"
    BY <1>0 DEF GetFuture, Attach, Share, Drop, Get, StartWait, CopyTo, Holds, Goto, flags,
                handles, TypeOK
  <1>2. ready /\ cv' # {} => \E u \in Threads : pc'[u] = "notify"
    BY <1>1 DEF ResultIsProvided
  <1>3. deferred => cv' = {}
    BY <1>1 DEF ResultIsProvided
  <1>4. ASSUME kind = "promise", ~promise, \A d \in Consumers : future[d] = "none",
               \A u \in Threads : pc[u] \notin Waiting \cup {"timed"}
        PROVE  /\ \A d \in Consumers : future'[d] = "none"
               /\ \A u \in Threads : pc'[u] \notin Waiting \cup {"timed"}
    <2>1. FALSE
      BY <1>0, <1>4 DEF GetFuture, Attach, Share, Drop, Get, StartWait, CopyTo, Holds,
                        ResultIsProvided
    <2> QED
      BY <2>1
  <1> QED
    BY <1>1, <1>2, <1>3, <1>4, StaysProvided

\* So do those of the calls in progress.
LEMMA CallsProvide ==
    ASSUME Inv, NEW t \in Threads,
           Notify(t) \/ Release(t) \/ SubWait(t) \/ WaitUntil(t) \/ Wake(t)
    PROVE  ResultIsProvided'
  <1> USE DEF Inv
  <1>1. CASE Notify(t)
    <2>1. HasValue /\ ready
      BY <1>1 DEF Notify, ResultIsSet
    <2>2. after[t] \in {"program", "get", "copy", "wait", "release"}
      BY DEF CallsOwn
    <2>3. /\ \A u \in Threads : pc[u] \in {"execute", "break"} => pc'[u] = pc[u]
          /\ \A u \in Threads : pc'[u] = "launch" => pc[u] = "launch"
      BY <1>1, <2>2 DEF Notify, Goto, TypeOK
    <2> QED
      BY <1>1, <2>1, <2>3, StaysProvided DEF Notify, flags, handles
  <1>2. CASE Release(t)
    <2>1. /\ UNCHANGED <<kind, deferred, ready, value, exception, promise, exits, future, cv>>
          /\ \A u \in Threads : pc[u] \in {"execute", "break", "notify"} => pc'[u] = pc[u]
          /\ \A u \in Threads : pc'[u] = "launch" => pc[u] = "launch"
          /\ kind = "promise" => \A u \in Threads : pc'[u] = "program" \/ pc'[u] = pc[u]
      BY <1>2 DEF Release, Goto, flags, TypeOK
    <2>2. ready /\ cv' # {} => \E u \in Threads : pc'[u] = "notify"
      BY <2>1 DEF ResultIsProvided
    <2>3. deferred => cv' = {}
      BY <2>1 DEF ResultIsProvided
    <2> QED
      BY <2>1, <2>2, <2>3, StaysProvided DEF Waiting
  <1>3. CASE WaitUntil(t) /\ EndTimed(t)
    <2>1. /\ UNCHANGED <<kind, deferred, ready, value, exception, promise, exits, future, cv>>
          /\ \A u \in Threads : pc[u] \in {"execute", "break", "notify"} => pc'[u] = pc[u]
          /\ \A u \in Threads : pc'[u] = "program" \/ pc'[u] = pc[u]
      BY <1>3 DEF WaitUntil, EndTimed, Goto, flags, handles, TypeOK
    <2>2. ready /\ cv' # {} => \E u \in Threads : pc'[u] = "notify"
      BY <2>1 DEF ResultIsProvided
    <2>3. deferred => cv' = {}
      BY <2>1 DEF ResultIsProvided
    <2> QED
      BY <2>1, <2>2, <2>3, StaysProvided DEF Waiting
  <1>4. CASE Block(t) /\ ~ready /\ ~deferred
    BY <1>4, StaysProvided DEF Block, flags, handles
  <1>5. CASE Wake(t)
    <2>1. ready /\ cv' # {} => \E u \in Threads : pc'[u] = "notify"
      BY <1>5 DEF Wake, flags, ResultIsProvided
    <2>2. deferred => cv' = {}
      BY <1>5 DEF Wake, flags, ResultIsProvided
    <2> QED
      BY <1>5, <2>1, <2>2, StaysProvided DEF Wake, flags, handles
  <1>6. CASE SubWait(t) /\ ready
    <2>1. HasValue /\ EndWait(t) /\ pc[t] \in Waiting
      BY <1>6 DEF SubWait, ResultIsSet
    <2>2. /\ UNCHANGED <<kind, deferred, ready, value, exception, promise, exits, future, cv>>
          /\ \A u \in Threads : pc[u] \in {"execute", "break", "notify"} => pc'[u] = pc[u]
          /\ \A u \in Threads : pc'[u] = "launch" => pc[u] = "launch"
      BY <2>1 DEF EndWait, Goto, flags, handles, Waiting, TypeOK
    <2>3. ready /\ cv' # {} => \E u \in Threads : pc'[u] = "notify"
      BY <2>2 DEF ResultIsProvided
    <2>4. deferred => cv' = {}
      BY <2>2 DEF ResultIsProvided
    <2> QED
      BY <2>1, <2>2, <2>3, <2>4, StaysProvided
  <1>7. CASE SubWait(t) /\ ~ready /\ deferred
    <2>1. StartDeferred(t) /\ kind = "deferred" /\ ~HasValue
      BY <1>7 DEF SubWait, ResultIsSet
    <2>2. pc'[t] = "execute" /\ ~deferred' /\ ~ready' /\ kind' = kind /\ ~HasValue'
      BY <1>7, <2>1 DEF StartDeferred, Goto, HasValue, TypeOK
    <2> QED
      BY <2>1, <2>2 DEF ResultIsProvided
  <1> QED
    BY <1>1, <1>2, <1>3, <1>4, <1>5, <1>6, <1>7 DEF SubWait, WaitUntil

\* Every step keeps the invariant.
LEMMA NextInv == ASSUME Inv, [Next]_vars PROVE Inv'
  <1>1. CASE UNCHANGED vars
    <2>1. Owners' = Owners
      BY <1>1 DEF vars, Owners
    <2> QED
      BY <1>1, <2>1 DEF vars, Inv, TypeOK, CountIsExact, DeletedOnce, CallsOwn, At, ResultIsSet,
                        HasValue, NotBeforeExit, AttachedOnce, ResultIsProvided
  <1>2. CASE Next
    <2>1. \A t \in Threads : t \in held => owners > 0
      BY ActorOwns
    <2>2. \A t \in Threads : pc[t] = "release" => t \in held
      BY DEF Inv, CallsOwn, At
    <2>3. TypeOK'
      BY <1>2, <2>1, <2>2, NextType DEF Inv
    <2>4. CountIsExact'
      BY <1>2, NextCount DEF CountIsExact
    <2>5. DeletedOnce' /\ CallsOwn' /\ ResultIsSet' /\ AttachedOnce'
      BY <1>2, <2>3, ProviderSteps, ConsumerSteps, LibrarySteps DEF Next
    <2>6. ResultIsProvided'
      BY <1>2, ProvidersProvide, ConsumersProvide, CallsProvide DEF Next, Threads
    <2> QED
      BY <2>3, <2>4, <2>5, <2>6 DEF Inv
  <1> QED
    BY <1>1, <1>2

-----------------------------------------------------------------------------
(* Theorems.                                                               *)

\* The count of __shared_count is the number of handles and calls that own the
\* state, and what keeps the state alive is known at each place of each call.
THEOREM SpecInv == Spec => []Inv
  BY InitInv, NextInv, PTL DEF Spec

\* No thread uses the state after it has been deleted, if a promise set it or the
\* function was deferred, or was async and of type void and did not throw.
THEOREM SpecNoUseAfterFree == Spec => []NoUseAfterFree
  <1>1. ASSUME Inv PROVE NoUseAfterFree
    <2> SUFFICES ASSUME freed, kind = "async" => void /\ exception = None, NEW t \in Threads
                 PROVE  pc[t] = "program" /\ after[t] = "program"
      BY DEF NoUseAfterFree
    <2> USE <1>1 DEF Inv
    <2>1. owners = 0 /\ \A u \in Threads : pc[u] # "zero"
      BY DEF DeletedOnce
    <2>2. t \notin held /\ ~(t \in Consumers /\ future[t] # "none") /\ ~promise
      BY <2>1, ActorOwns
    <2>3. pc[t] \in Places /\ after[t] \in Places
      BY DEF TypeOK
    <2>4. At(t) \notin {"get", "launch", "break", "release", "copy", "wait", "timed"}
      BY <2>2 DEF CallsOwn
    <2>5. after[t] = "program"
      BY <2>4 DEF CallsOwn, At
    <2>6. pc[t] # "execute" /\ pc[t] # "notify"
      <3>1. ASSUME pc[t] \in {"execute", "notify"} PROVE FALSE
        <4>1. kind = "async"
          BY <2>2, <2>5, <3>1 DEF CallsOwn, At
        <4>2. ready /\ HasValue
          BY <4>1 DEF ResultIsSet
        <4> QED
          BY <3>1, <4>1, <4>2 DEF CallsOwn, ResultIsSet
      <3> QED
        BY <3>1
    <2> QED
      BY <2>1, <2>3, <2>4, <2>5, <2>6 DEF Places, Waiting, At
  <1> QED
    BY <1>1, SpecInv, PTL

\* No wakeup is lost: a thread that is blocked has a notification coming, or somebody
\* that will still make the state ready and notify.
THEOREM SpecWaitersAreServed == Spec => []WaitersAreServed
  <1>1. ASSUME Inv PROVE WaitersAreServed
    <2> USE <1>1 DEF Inv
    <2> SUFFICES ASSUME cv # {}, ~ready
                 PROVE  promise \/ exits # {} \/ \E t \in Threads : pc[t] \in {"execute", "break"}
      BY DEF WaitersAreServed, ResultIsProvided
    <2>1. PICK u \in Threads : pc[u] \in Waiting \cup {"timed"}
      BY DEF TypeOK
    <2> QED
      BY <2>1 DEF ResultIsProvided
  <1> QED
    BY <1>1, SpecInv, PTL

\* A result that is set at thread exit is not ready before.
THEOREM SpecNotBeforeExit == Spec => []NotBeforeExit
  <1>1. Inv => NotBeforeExit
    BY DEF Inv, ResultIsSet
  <1> QED
    BY <1>1, SpecInv, PTL

\* The state gets one result and tells every thread that one, whoever sets it and
\* whichever thread runs a deferred function.
THEOREM SpecImplementsOneResult == Spec => ImplementsOneResult
  <1> DEFINE result == IF ready THEN Outcome ELSE None
  <1>1. Init => Once!Init
    BY DEF Init, Once!Init
  <1>2. ASSUME Inv, [Next]_vars PROVE [Once!Next]_<<result, got>>
    <2>0. /\ TypeOK /\ ResultIsSet
          /\ ready => HasValue
          /\ exits # {} => ~ready
          /\ got = [u \in Threads |-> got[u]]
      BY <1>2 DEF Inv, ResultIsSet, NotBeforeExit, TypeOK
    <2>1. CASE UNCHANGED <<ready, value, exception, got>>
      BY <2>1 DEF Outcome
    <2>2. CASE ~ready /\ ~ready' /\ UNCHANGED got
      BY <2>2
    <2>3. TypeOK' /\ (ready' => HasValue')
      BY <1>2, NextInv DEF Inv, ResultIsSet
    <2>4. Outcome \in {"value", "exception"} \X (Threads \cup {None, "broken_promise"})
      <3>1. /\ value \in Threads \cup {None}
            /\ exception \in Threads \cup {None, "broken_promise"}
        BY <2>0 DEF TypeOK
      <3> QED
        BY <3>1 DEF Outcome
    <2>5. Outcome # None
      BY <2>4, ConstantsAssumption
    <2>6. Outcome' # None
      <3>1. Outcome' \in {"value", "exception"} \X (Threads \cup {None, "broken_promise"})
        <4>1. /\ value' \in Threads \cup {None}
              /\ exception' \in Threads \cup {None, "broken_promise"}
          BY <2>3 DEF TypeOK
        <4> QED
          BY <4>1 DEF Outcome
      <3> QED
        BY <3>1, ConstantsAssumption
    <2>7. CASE ~ready /\ ready' /\ UNCHANGED got
      BY <2>6, <2>7 DEF Once!Next, Once!Provide
    <2>8. CASE Next
      <3>1. ASSUME NEW t \in Providers, NEW how \in {"value", "exception"},
                   Set(t, how) \/ SetAtExit(t, how)
            PROVE  ~ready /\ UNCHANGED got
        BY <2>0, <3>1 DEF Set, SetAtExit, Store
      <3>2. ASSUME NEW t \in Providers, Exit(t) \/ Break(t) PROVE ~ready /\ UNCHANGED got
        BY <2>0, <3>2 DEF Exit, Break
      <3>3. ASSUME NEW t \in Threads, Execute(t) PROVE ~ready /\ UNCHANGED got
        BY <2>0, <3>3 DEF Execute, Store
      <3>4. ASSUME NEW t \in Providers, DestroyPromise(t)
            PROVE  UNCHANGED <<ready, value, exception, got>>
        BY <3>4 DEF DestroyPromise, flags
      <3>5. ASSUME NEW c \in Consumers,
                   \/ GetFuture(c) \/ Attach(c) \/ Share(c) \/ Drop(c) \/ Get(c) \/ StartWait(c)
                   \/ \E d \in Consumers : CopyTo(c, d)
            PROVE  UNCHANGED <<ready, value, exception, got>>
        BY <3>5 DEF GetFuture, Attach, Share, Drop, Get, StartWait, CopyTo, flags
      <3>6. ASSUME NEW t \in Threads, Notify(t) \/ Release(t) \/ WaitUntil(t) \/ Wake(t)
            PROVE  UNCHANGED <<ready, value, exception, got>>
        BY <3>6 DEF Notify, Release, WaitUntil, EndTimed, Block, Wake, flags
      <3>7. ASSUME NEW t \in Threads, StartDeferred(t) \/ Block(t)
            PROVE  UNCHANGED <<ready, value, exception, got>>
        BY <3>7 DEF StartDeferred, Block, flags
      <3>8. ASSUME NEW t \in Threads, ready, EndWait(t)
            PROVE  Once!Next \/ UNCHANGED <<ready, value, exception, got>>
        <4>1. UNCHANGED <<ready, value, exception>>
          BY <3>8 DEF EndWait, flags
        <4>2. CASE pc[t] \in {"get", "copy"}
          <5>1. got' = [got EXCEPT ![t] = Outcome]
            BY <3>8, <4>2 DEF EndWait
          <5>2. result' = result /\ result = Outcome
            BY <3>8, <4>1 DEF Outcome
          <5>3. Once!Tell(t)
            BY <2>5, <3>8, <5>1, <5>2 DEF Once!Tell
          <5> QED
            BY <5>3 DEF Once!Next
        <4>3. CASE pc[t] \notin {"get", "copy"}
          <5>1. got' = got
            <6>1. got' = [got EXCEPT ![t] = got[t]]
              BY <3>8, <4>3 DEF EndWait
            <6> QED
              BY <2>0, <6>1
          <5> QED
            BY <4>1, <5>1
        <4> QED
          BY <4>2, <4>3
      <3>9. ASSUME NEW t \in Threads, SubWait(t)
            PROVE  Once!Next \/ UNCHANGED <<ready, value, exception, got>>
        BY <3>7, <3>8, <3>9 DEF SubWait
      <3>10. \/ ~ready /\ UNCHANGED got
             \/ UNCHANGED <<ready, value, exception, got>>
             \/ Once!Next
        BY <2>8, <3>1, <3>2, <3>3, <3>4, <3>5, <3>6, <3>9 DEF Next
      <3> QED
        BY <2>1, <2>2, <2>7, <3>10
    <2> QED
      BY <1>2, <2>1, <2>8 DEF vars
  <1> QED
    BY <1>1, <1>2, SpecInv, PTL DEF Spec, ImplementsOneResult, Once!Spec
=============================================================================
