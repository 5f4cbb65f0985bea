----------------------------- MODULE AssocState -----------------------------
(***************************************************************************)
(* __assoc_sub_state of libc++ and the classes derived from it: the state  *)
(* that a promise, std::async and its futures share, one of each.          *)
(*                                                                         *)
(* The state is counted: the promise, each future, each list of states to  *)
(* be made ready at the exit of a thread, and some calls while they run    *)
(* own it.  The thread of std::async does not.  What runs between a lock   *)
(* of __mut_, or the return of a wait, and the next wait or unlock is one  *)
(* step; a notification after the unlock is a step of its own, and so is   *)
(* each update of the count.                                               *)
(***************************************************************************)
EXTENDS Integers, FiniteSets

CONSTANTS Providers,    \* threads that set the result: users of a promise,
                        \* or the thread of std::async
          Consumers,    \* threads that hold futures
          Kinds,        \* of the states: promise, async, deferred
          None

Threads == Providers \cup Consumers

ASSUME ConstantsAssumption ==
    /\ IsFiniteSet(Threads)
    /\ Providers \cap Consumers = {}
    /\ Kinds \subseteq {"promise", "async", "deferred"}
    /\ None \notin Threads /\ "broken_promise" \notin Threads /\ None # "broken_promise"
    /\ None \notin {"value", "exception"} \X (Threads \cup {None, "broken_promise"})

VARIABLES kind,         \* the class of the state
          void,         \* whether the type of the result is void
          owners,       \* use_count(): __shared_owners_ + 1
          freed,        \* the state has been deleted
          attached,     \* __future_attached
          deferred,     \* deferred
          ready,        \* ready
          value,        \* who has constructed the value (__constructed), or None
          exception,    \* who has stored __exception_, or None
          cv,           \* the threads blocked on __cv_
          promise,      \* the promise owns the state
          future,       \* the future of each consumer: none, unique or shared
          exits,        \* the providers that make the state ready when they exit
          held,         \* the threads that run a call that owns the state
          pc,           \* where each thread is
          after,        \* where it goes on after the notification
          got           \* the result each consumer has been told last

flags == <<attached, deferred, ready, value, exception>>
handles == <<promise, future, exits, held>>
vars == <<kind, void, owners, freed, attached, deferred, ready, value, exception, cv,
          promise, future, exits, held, pc, after, got>>

\* __has_value
HasValue == value # None \/ exception # None

\* What copy and move return or throw.
Outcome == IF exception # None THEN <<"exception", exception>> ELSE <<"value", value>>

Waiting == {"get", "copy", "wait", "zero"}      \* in __sub_wait
Places == Waiting \cup {"program", "launch", "timed", "execute", "break", "notify", "release"}

TypeOK ==
    /\ kind \in Kinds
    /\ void \in BOOLEAN /\ freed \in BOOLEAN /\ attached \in BOOLEAN
    /\ deferred \in BOOLEAN /\ ready \in BOOLEAN /\ promise \in BOOLEAN
    /\ owners \in Nat
    /\ value \in Threads \cup {None}
    /\ exception \in Threads \cup {None, "broken_promise"}
    /\ cv \subseteq {t \in Threads : pc[t] \in Waiting \cup {"timed"}}
    /\ future \in [Consumers -> {"none", "unique", "shared"}]
    /\ exits \subseteq Providers
    /\ held \subseteq Threads
    /\ pc \in [Threads -> Places]
    /\ after \in [Threads -> Places]
    /\ got \in [Threads -> {None} \cup
                {"value", "exception"} \X (Threads \cup {None, "broken_promise"})]

\* A promise, or the moment std::async has created the state and, for
\* launch::async, its thread.
Init ==
    /\ kind \in Kinds
    /\ void \in BOOLEAN
    /\ owners = 1
    /\ freed = FALSE /\ attached = FALSE /\ ready = FALSE
    /\ deferred = (kind = "deferred")
    /\ value = None /\ exception = None
    /\ cv = {} /\ exits = {}
    /\ promise = (kind = "promise")
    /\ future = [c \in Consumers |-> "none"]
    /\ \E c \in Consumers, w \in Providers :
          /\ held = IF kind = "promise" THEN {} ELSE {c}
          /\ pc = [t \in Threads |->
                    IF t = c /\ kind # "promise" THEN "launch"
                    ELSE IF t = w /\ kind = "async" THEN "execute" ELSE "program"]
    /\ after = [t \in Threads |-> "program"]
    /\ got = [t \in Threads |-> None]

Goto(t, place) == pc' = [pc EXCEPT ![t] = place]

-----------------------------------------------------------------------------
(* Setting the result.                                                     *)

\* Mutant: set_exception does not look whether there is a result.
StoreAnyway(t, how) ==
    IF how = "value" THEN /\ value' = t
                          /\ UNCHANGED exception
                     ELSE /\ exception' = t
                          /\ UNCHANGED value

\* set_value and set_exception store the result unless there is one.
Store(t, how) ==
    /\ ~HasValue
    /\ IF how = "value" THEN value' = t /\ UNCHANGED exception
                        ELSE exception' = t /\ UNCHANGED value

\* Mutant: set_value of a void state notifies after the unlock.
NotifyLater(t, how) ==
    /\ ready' = TRUE
    /\ Goto(t, "notify")
    /\ UNCHANGED <<cv, after>>

\* The state becomes ready.  set_value notifies before the unlock where the type
\* is void, and after it otherwise, like set_exception.
MakeReady(t, how) ==
    /\ ready' = TRUE
    /\ IF void /\ how = "value"
       THEN cv' = {} /\ Goto(t, after[t]) /\ after' = [after EXCEPT ![t] = "program"]
       ELSE UNCHANGED <<cv, after>> /\ Goto(t, "notify")

\* set_value or set_exception of the promise; where there is a result already they
\* throw promise_already_satisfied and change nothing.
Set(t, how) ==
    /\ promise
    /\ t \in Providers /\ pc[t] = "program"
    /\ Store(t, how)
    /\ MakeReady(t, how)
    /\ UNCHANGED <<kind, void, owners, freed, attached, deferred, got>>
    /\ UNCHANGED handles

\* Mutant: the list of the thread does not own the state.
SetAtExitUncounted(t, how) ==
    /\ promise
    /\ t \in Providers /\ pc[t] = "program"
    /\ Store(t, how)
    /\ exits' = exits \cup {t}
    /\ UNCHANGED <<kind, void, owners, freed, attached, deferred, ready, cv, promise, future, held, pc, after, got>>

\* set_value_at_thread_exit or set_exception_at_thread_exit of the promise: the
\* list of the thread owns the state.
SetAtExit(t, how) ==
    /\ promise
    /\ t \in Providers /\ pc[t] = "program"
    /\ Store(t, how)
    /\ exits' = exits \cup {t}
    /\ owners' = owners + 1
    /\ UNCHANGED <<kind, void, freed, attached, deferred, ready, cv, promise, future, held, pc, after, got>>

\* A thread exits: ~__thread_struct_imp calls __make_ready and __release_shared.
\* Another thread may take its place in the model.
Exit(t) ==
    /\ t \in exits /\ pc[t] = "program"
    /\ ready' = TRUE
    /\ exits' = exits \ {t}
    /\ held' = held \cup {t}
    /\ Goto(t, "notify")
    /\ after' = [after EXCEPT ![t] = "release"]
    /\ UNCHANGED <<kind, void, owners, freed, attached, deferred, value, exception, cv, promise, future, got>>

\* The function of std::async ends, in its thread or, where it is deferred, in
\* the thread that waits for it.
Execute(t) ==
    /\ pc[t] = "execute"
    /\ \E how \in {"value", "exception"} : Store(t, how) /\ MakeReady(t, how)
    /\ UNCHANGED <<kind, void, owners, freed, attached, deferred, got>>
    /\ UNCHANGED handles

\* Mutant: one of the threads that wait is notified.
NotifyOne(t) ==
    /\ pc[t] = "notify"
    /\ IF cv = {} THEN UNCHANGED cv ELSE \E u \in cv : cv' = cv \ {u}
    /\ Goto(t, after[t])
    /\ after' = [after EXCEPT ![t] = "program"]
    /\ UNCHANGED <<kind, void, owners, freed, got>>
    /\ UNCHANGED flags /\ UNCHANGED handles

\* __cv_.notify_all() after the unlock.
Notify(t) ==
    /\ pc[t] = "notify"
    /\ cv' = {}
    /\ Goto(t, after[t])
    /\ after' = [after EXCEPT ![t] = "program"]
    /\ UNCHANGED <<kind, void, owners, freed, got>>
    /\ UNCHANGED flags /\ UNCHANGED handles

-----------------------------------------------------------------------------
(* The handles: promises and futures.                                      *)

\* ~promise, which no other thread uses any more, looks whether there is a result
\* or anyone to wait for one.
DestroyPromise(t) ==
    /\ promise
    /\ t \in Providers
    /\ \A u \in Providers : pc[u] = "program"
    /\ promise' = FALSE
    /\ held' = held \cup {t}
    /\ Goto(t, IF ~HasValue /\ owners > 1 THEN "break" ELSE "release")
    /\ UNCHANGED <<kind, void, owners, freed, cv, future, exits, after, got>>
    /\ UNCHANGED flags

\* ~promise calls set_exception(broken_promise).
Break(t) ==
    /\ pc[t] = "break"
    /\ ~HasValue
    /\ exception' = "broken_promise"
    /\ ready' = TRUE
    /\ Goto(t, "notify")
    /\ after' = [after EXCEPT ![t] = "release"]
    /\ UNCHANGED <<kind, void, owners, freed, attached, deferred, value, cv, got>>
    /\ UNCHANGED handles

\* promise::get_future, and the future goes to a consumer.
GetFuture(c) ==
    /\ promise
    /\ pc[c] = "program"
    /\ ~attached
    /\ attached' = TRUE
    /\ owners' = owners + 1
    /\ future' = [future EXCEPT ![c] = "unique"]
    /\ UNCHANGED <<kind, void, freed, deferred, ready, value, exception, cv, promise, exits, held, pc, after, got>>

\* std::async constructs the future and drops its own reference.
Attach(c) ==
    /\ pc[c] = "launch"
    /\ attached' = TRUE
    /\ owners' = owners + 1
    /\ future' = [future EXCEPT ![c] = "unique"]
    /\ Goto(c, "release")
    /\ UNCHANGED <<kind, void, freed, deferred, ready, value, exception, cv, promise, exits, held, after, got>>

Holds(c) == future[c] # "none" /\ pc[c] = "program"

Share(c) ==
    /\ Holds(c) /\ future[c] = "unique"
    /\ future' = [future EXCEPT ![c] = "shared"]
    /\ UNCHANGED <<kind, void, owners, freed, cv, promise, exits, held, pc, after, got>>
    /\ UNCHANGED flags

\* The copy constructor of shared_future.
CopyTo(c, d) ==
    /\ Holds(c) /\ future[c] = "shared"
    /\ pc[d] = "program" /\ future[d] = "none"
    /\ owners' = owners + 1
    /\ future' = [future EXCEPT ![d] = "shared"]
    /\ UNCHANGED <<kind, void, freed, cv, promise, exits, held, pc, after, got>>
    /\ UNCHANGED flags

\* ~future, or ~shared_future.
Drop(c) ==
    /\ Holds(c)
    /\ future' = [future EXCEPT ![c] = "none"]
    /\ held' = held \cup {c}
    /\ Goto(c, "release")
    /\ UNCHANGED <<kind, void, owners, freed, cv, promise, exits, after, got>>
    /\ UNCHANGED flags

\* future::get gives its reference to the call; shared_future::get keeps it.
Get(c) ==
    /\ Holds(c)
    /\ IF future[c] = "unique"
       THEN /\ future' = [future EXCEPT ![c] = "none"]
            /\ held' = held \cup {c}
            /\ Goto(c, "get")
       ELSE /\ Goto(c, "copy")
            /\ UNCHANGED <<future, held>>
    /\ UNCHANGED <<kind, void, owners, freed, cv, promise, exits, after, got>>
    /\ UNCHANGED flags

StartWait(c) ==
    /\ Holds(c)
    /\ \E place \in {"wait", "timed"} : Goto(c, place)
    /\ UNCHANGED <<kind, void, owners, freed, cv, after, got>>
    /\ UNCHANGED flags /\ UNCHANGED handles

\* __release_shared; __on_zero_shared of an async state waits.
Release(t) ==
    /\ pc[t] = "release"
    /\ owners' = owners - 1
    /\ held' = held \ {t}
    /\ freed' = (freed \/ (owners = 1 /\ kind # "async"))
    /\ Goto(t, IF owners = 1 /\ kind = "async" THEN "zero" ELSE "program")
    /\ UNCHANGED <<kind, void, cv, promise, future, exits, after, got>>
    /\ UNCHANGED flags

-----------------------------------------------------------------------------
(* Waiting.                                                                *)

\* The wait is over: the result is returned or thrown; get then drops its
\* reference, and __on_zero_shared deletes the state.
EndWait(t) ==
    /\ got' = [got EXCEPT ![t] = IF pc[t] \in {"get", "copy"} THEN Outcome ELSE @]
    /\ freed' = (freed \/ pc[t] = "zero")
    /\ Goto(t, IF pc[t] = "get" THEN "release" ELSE "program")
    /\ UNCHANGED <<kind, void, owners, cv, after>>
    /\ UNCHANGED flags /\ UNCHANGED handles

StartDeferred(t) ==
    /\ deferred' = FALSE
    /\ Goto(t, "execute")
    /\ after' = [after EXCEPT ![t] = pc[t]]
    /\ UNCHANGED <<kind, void, owners, freed, attached, ready, value, exception, cv, got>>
    /\ UNCHANGED handles

Block(t) ==
    /\ cv' = cv \cup {t}
    /\ UNCHANGED <<kind, void, owners, freed, pc, after, got>>
    /\ UNCHANGED flags /\ UNCHANGED handles

\* __sub_wait: the thread that finds the function deferred runs it.
SubWait(t) ==
    /\ pc[t] \in Waiting /\ t \notin cv
    /\ IF ready THEN EndWait(t)
       ELSE IF deferred THEN StartDeferred(t)
       ELSE Block(t)

\* wait_until returns: deferred, ready or time-out.
EndTimed(t) ==
    /\ Goto(t, "program")
    /\ UNCHANGED <<kind, void, owners, freed, cv, after, got>>
    /\ UNCHANGED flags /\ UNCHANGED handles

\* wait_until; the time may be over at any moment.
WaitUntil(t) ==
    /\ pc[t] = "timed" /\ t \notin cv
    /\ EndTimed(t) \/ (~ready /\ ~deferred /\ Block(t))

\* A wait on __cv_ ends without a notification.
Wake(t) ==
    /\ t \in cv
    /\ cv' = cv \ {t}
    /\ UNCHANGED <<kind, void, owners, freed, pc, after, got>>
    /\ UNCHANGED flags /\ UNCHANGED handles

-----------------------------------------------------------------------------
Next ==
    \/ \E t \in Providers :
        \/ \E how \in {"value", "exception"} : Set(t, how) \/ SetAtExit(t, how)
        \/ Exit(t) \/ DestroyPromise(t) \/ Break(t)
    \/ \E c \in Consumers :
        \/ GetFuture(c) \/ Attach(c) \/ Share(c) \/ Drop(c) \/ Get(c) \/ StartWait(c)
        \/ \E d \in Consumers : CopyTo(c, d)
    \/ \E t \in Threads :
        \/ Execute(t) \/ Notify(t) \/ Release(t)
        \/ SubWait(t) \/ WaitUntil(t) \/ Wake(t)

Spec == Init /\ [][Next]_vars

(* The steps of the library happen when they can.  A function given to async *)
(* ends, a promise is destroyed some day, a thread exits some day.           *)
FairSpec ==
    /\ Spec
    /\ WF_vars(\E t \in Providers : DestroyPromise(t))
    /\ \A t \in Providers : WF_vars(Exit(t)) /\ WF_vars(Break(t))
    /\ \A c \in Consumers : WF_vars(Attach(c))
    /\ \A t \in Threads :
        WF_vars(Execute(t)) /\ WF_vars(Notify(t)) /\ WF_vars(Release(t)) /\ WF_vars(SubWait(t))

-----------------------------------------------------------------------------
(* Properties.                                                             *)

\* Everything that owns the state.
Owners ==
    (IF promise THEN {<<"promise", None>>} ELSE {})
        \cup ({"future"} \X {c \in Consumers : future[c] # "none"})
        \cup ({"exit"} \X exits) \cup ({"call"} \X held)

\* The count is the number of owners.
CountIsExact == owners = Cardinality(Owners)

\* The state is deleted, once, after the last reference has been dropped.
DeletedOnce ==
    /\ freed => owners = 0 /\ \A t \in Threads : pc[t] # "zero"
    /\ owners = 0 => freed \/ \E t \in Threads : pc[t] = "zero"
    /\ \A t, u \in Threads : pc[t] = "zero" /\ pc[u] = "zero" => t = u

\* The place of a thread in its call of the library, or in the program.
At(t) == IF after[t] = "program" THEN pc[t] ELSE after[t]

\* The state is not used after it has been deleted.  The thread of std::async
\* owns nothing: it is safe only where it notifies before the unlock.
NoUseAfterFree ==
    freed /\ (kind = "async" => void /\ exception = None) =>
        \A t \in Threads : pc[t] = "program" /\ after[t] = "program"

\* A result set at thread exit is not ready before the thread exits.
NotBeforeExit == exits # {} => ~ready

\* Which reference keeps the state alive at each place of a call.
CallsOwn == \A t \in Threads :
    /\ after[t] # "program" => /\ pc[t] \in {"execute", "notify"}
                              /\ after[t] \in {"get", "copy", "wait", "release"}
    /\ At(t) \in {"get", "launch", "break", "release"} <=> t \in held
    /\ At(t) \in {"copy", "wait", "timed"} => t \in Consumers /\ future[t] # "none"
    /\ At(t) \in {"execute", "notify"} => t \in Providers /\ (promise \/ kind = "async")
    /\ At(t) = "launch" => t \in Consumers
    /\ pc[t] = "zero" => kind = "async" /\ owners = 0
    /\ kind = "async" /\ void /\ exception = None => pc[t] # "notify"

\* At most one result is stored; one thread runs the function, or breaks the
\* promise.
ResultIsSet ==
    /\ \A t \in Threads :
        /\ pc[t] = "execute" => kind # "promise" /\ ~HasValue /\ ~deferred
        /\ pc[t] = "notify" => ready
        /\ pc[t] = "break" => ~HasValue /\ kind = "promise" /\ ~promise
    /\ \A t, u \in Threads : pc[t] = pc[u] /\ pc[t] \in {"execute", "break"} => t = u
    /\ value = None \/ exception = None
    /\ ready => HasValue
    /\ deferred => ~HasValue /\ kind = "deferred"
    /\ \A t \in exits : value = t \/ exception = t
    /\ NotBeforeExit
    /\ promise \/ exits # {} => kind = "promise"
    /\ kind = "async" /\ freed => ready

\* The first future is attached once.
AttachedOnce ==
    /\ ~attached => \A c \in Consumers : future[c] = "none"
    /\ \A t \in Threads : pc[t] = "launch" => ~attached /\ ~promise
    /\ \A t, u \in Threads : pc[t] = "launch" /\ pc[u] = "launch" => t = u

\* Somebody has the result still to give, in each of the three kinds of states: no
\* order of results set at exit, promises destroyed and futures dropped leaves a
\* state that never becomes ready to threads that wait.
ResultIsProvided ==
    /\ deferred => cv = {}
    /\ ready /\ cv # {} => \E t \in Threads : pc[t] = "notify"
    /\ HasValue => ready \/ exits # {}
    /\ kind # "promise" => deferred \/ ready \/ \E t \in Threads : pc[t] = "execute"
    /\ kind = "promise" => \A t \in Threads : pc[t] # "launch"
    /\ kind = "promise" /\ ~promise /\ ~HasValue =>
        \/ \E t \in Threads : pc[t] = "break"
        \/ /\ \A c \in Consumers : future[c] = "none"
           /\ \A t \in Threads : pc[t] \notin Waiting \cup {"timed"}

\* The inductive invariant.
Inv ==
    /\ TypeOK /\ CountIsExact /\ DeletedOnce /\ CallsOwn
    /\ ResultIsSet /\ AttachedOnce /\ ResultIsProvided

\* A thread that is blocked can be woken: the notification is on its way, or whoever
\* will make the state ready is, be it a promise, an exit, the function or a broken
\* promise.
WaitersAreServed == cv # {} =>
    IF ready THEN \E t \in Threads : pc[t] = "notify"
    ELSE promise \/ exits # {} \/ \E t \in Threads : pc[t] \in {"execute", "break"}

\* One result, the same for every consumer (a thread that waits for a deferred
\* function runs it, and no other does).
Once == INSTANCE OneResult WITH result <- IF ready THEN Outcome ELSE None

ImplementsOneResult == Once!Spec

\* Every wait ends, whatever other threads do: with the result, with that of the
\* deferred function, or with broken_promise.
EveryWaitEnds == \A t \in Threads : pc[t] \in Waiting ~> pc[t] = "program"
=============================================================================
