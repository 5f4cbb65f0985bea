# Verification of coordination protocols in the LLVM tree

TLA+ specifications of the parts of this repository in which several threads,
processes or analysis paths have to agree on shared state, their model-checking
configurations, and proofs. The repository is the LLVM tree (LLVM, clang, lld,
lldb, libc++, libc++abi, compiler-rt, the OpenMP runtime, polly, libclc, llgo)
with the additions of juxta, which prints what clang's static analyzer knows of
a path.

Most of the tree is compiler: passes that turn one large value into another, one
thread at a time. What a model checker can say about it is little. The
coordination code is small, is hard to test, and everything else relies on it.

## 1. Inventory

### libc++ thread support (`src/libcxx`)

| Part | State | Operations | What is hard | What makes it correct |
|---|---|---|---|---|
| `shared_timed_mutex` | a word with a write-entered bit and a reader count, two condition variables (gates) under one mutex | `lock`, `try_lock`, timed and shared forms, both unlocks | who wakes whom; a timed writer that backs out; the reader limit | a readers-writer lock; writers are not overtaken; nobody sleeps on a free mutex |
| `timed_mutex`, `recursive_timed_mutex` | a flag, or a count and an owner | `lock`, `try_lock`, `try_lock_until`, `unlock`, destructor | a notification that hits a late waiter; destruction while `unlock` still runs | a mutex with an owner; no lost wake-up; no use after destruction |
| `condition_variable_any` | a shared mutex, a condition variable, the lock of the caller | `wait`, `wait_until` with and without a predicate, `notify_one`, `notify_all`, destructor | two locks taken in opposite orders; destruction while threads leave `wait` | no lost notification, no deadlock, no use after destruction |
| `std::lock`, `std::try_lock` | which locks of the list a call has | blocking on one lock, trying the rest, undoing | lists in different orders; locks that throw | nobody holds and waits; all or none |
| `call_once` | a flag of three values for each object, one mutex and condition variable for all | fast test, run, wait, return, throw | the test without a lock; functions that nest and throw | one-time initialization; calls return |
| futures | result or exception, ready, deferred and attached bits, a count of owners, lists of states for thread exit | `set_value`, `set_exception`, the `_at_thread_exit` forms, `get_future`, `get`, `wait`, `wait_until`, `share`, copies, destructors, `std::async` | who deletes the state while another thread notifies; broken promises; several waiters of one deferred function | one result; no use after deletion; every wait ends |
| `shared_lock`, `unique_lock`, `lock_guard`, `thread`, `mutex`, `recursive_mutex`, atomics | flags of one thread, or only a call of pthreads | | nothing that is shared | not modelled |

### libc++abi (`src/libcxxabi/src/cxa_guard.cpp`)

The guards of local statics: for each variable an initialized byte and a lock, and
one mutex and one condition variable for all. `__cxa_guard_acquire`,
`__cxa_guard_release`, `__cxa_guard_abort`. Hard: initializers that nest, throw or
reach themselves. Correct: an initializer runs in one thread at a time, and again
only if it has failed; waiters are woken by each release and abort.

### LLVM support library (`src/llvm/lib/Support`)

`LockFileManager` elects one of several processes, by files: its state is on disk
and survives a crash. Its client is `compileAndLoadModule` in clang's `CompilerInstance.cpp`.
Hard: every system call is a step of its own, may fail, and may be the last one of
the process. `ManagedStatic`, `Signals`, `CrashRecoveryContext`, `ThreadPool`-like
helpers in `lld/Core/Parallel.h`: small, planned or left out (section 8).

### clang static analyzer (`src/clang/lib/StaticAnalyzer/Core`)

`RangeConstraintManager` keeps for a symbol a set of ranges; each branch of the
program under analysis narrows it. `SimpleConstraintManager` turns a condition into
a call of it, `ConstraintManager::assumeDual` asks for both branches,
`SimpleSValBuilder::MakeSymIntVal` and `APSIntType` do the conversions between
integer types. State: one range set for each symbol and path. Hard: arithmetic that
wraps around, mixed widths and signs, and long sequences of conditions. Correct: no
path that a run can take is lost, and no value is kept that cannot be. juxta prints
these ranges (`PathCondExtractor.cpp`, `FssStmtPrinter.cpp`, `FsSemantic.cpp`): what
it compares between file systems is as right as they are.

### OpenMP runtime (`src/openmp/runtime/src`)

Locks (`kmp_lock.cpp`): test-and-set, ticket and adaptive; **futex** locks, a word with
the owner and a bit that asks for a wake-up; **queuing** locks, a queue of the waiting
threads whose links are fields of the threads; **DRDPA** locks, tickets and a polling area
that grows and shrinks while threads spin on it. Operations: init, set, test, unset,
destroy, the nestable forms. No internal mutex: each access of a shared word is a step of
its own. Hard: threads queue before they are linked, one wake-up stands for many
sleepers, memory is replaced under its readers. Correct: one owner, first come first
served (queuing, DRDPA), a free lock is taken, no access outside live memory.

Barriers (`kmp_barrier.cpp`: linear, tree, hyper, hierarchical), waits
(`kmp_wait_release.cpp`), tasks with dependences and stealing (`kmp_tasking.c`,
`kmp_taskdeps.cpp`), loop scheduling (`kmp_dispatch.cpp`): not modelled.

### Sanitizer runtimes (`src/compiler-rt/lib`)

Spin and blocking mutexes, a lock-free stack with a version counter, a quarantine, a
stack depot (`sanitizer_common`), vector clocks and a readers-writer mutex
(`tsan/rtl`). Blocks runtime: reference counts with a latch at the limit.

### lldb (`src/lldb/source/Core`)

`Listener` and `Broadcaster` hold pointers to each other under two mutexes, events are
queued and read with time-outs, `Communication` has a read thread, `Predicate` is a
value with a condition variable.

### How the parts interact

| Caller | Called | By |
|---|---|---|
| code that clang compiles | guards of libc++abi | calls around each initializer |
| `std::async`, `promise`, `future` | shared state, `call_once`-like `ready` bit | shared memory, one mutex for each state |
| `condition_variable_any`, `shared_timed_mutex`, `timed_mutex` | `std::mutex`, `std::condition_variable` | pthreads, with spurious wake-ups |
| `compileAndLoadModule` | `LockFileManager` | the file system, between processes |
| a program with OpenMP locks | one kind of lock for all (`__kmp_user_lock_kind`) | a table of functions filled before the first lock is made |
| queuing locks of a program | each other | `th_spin_here` and `th_next_waiting`, one of each for a thread and all locks |
| checkers and the path engine | constraint managers | `assumeDual`, `getSymVal`, `isNull` |

## 2. Modules and how they correspond to the code

All modules take their sets of threads, limits and so on as CONSTANTS. In the thread
components one step is what the code does between a lock of its internal mutex, or
the return of a wait, and the next unlock or wait; what happens after the unlock (a
notification, a release of a count) is a step of its own. A condition variable is the
set of the threads blocked on it. `notify_one` removes any one, and a thread may
leave the set without a notification (`Wake`, `SpuriousWake`). A deadline that passes
is an event that can come at any time (`DeadlinePasses`).

| Module | Models | Abstract specification |
|---|---|---|
| `SharedTimedMutex` | `libcxx/include/shared_mutex`, `src/shared_mutex.cpp` | `ReadersWriterLock` |
| `LockFileManager` | `LockFileManager.cpp`, `compileAndLoadModule` | - |
| `CxaGuard` | `cxa_guard.cpp` | `OnceInit` |
| `CallOnce` | `call_once`, `__call_once` | `OnceInit` |
| `AssocState` | `future`, `future.cpp`, `__thread_struct_imp` | `OneResult` |
| `TimedMutex` | `timed_mutex`, `recursive_timed_mutex` | `OwnedLock` |
| `ConditionVariableAny` | `condition_variable_any` | - |
| `StdLock` | `lock`, `try_lock`, `__lock_first` | `AtomicLocks` |
| `RangeConstraints` | range constraints of the static analyzer | C arithmetic (`Holds`) |
| `TasLock` | test-and-set locks of `kmp_lock.cpp` | `OwnedLock` |
| `TicketLock` | ticket locks of `kmp_lock.cpp` | `FifoLock` |
| `FutexLock` | futex locks of `kmp_lock.cpp` | `OwnedLock` |
| `QueuingLock` | queuing locks of `kmp_lock.cpp` | `FifoLock` |
| `DrdpaLock` | DRDPA locks of `kmp_lock.cpp` | `FifoLock` |
| `UserLock` | the choice between them, and their composition in one program | the above |

Two small modules have what two components share, so that one proof module can extend
both: `Initializers` (threads that reach objects with initializers) for `CxaGuard` and
`CallOnce`, `MutexThreads` (the threads that lock) for `TimedMutex` and `StdLock`. Where both
components have a definition of the same idea, that of `CallOnce` begins with `Flag` and that of
`StdLock` with `All` (`FlagInit`, `AllNext`).

Each component has an `MC...` module with its instances; the configurations are named after the
runs' modules. `...Proof` modules hold the theorems. `PROJECT.json` maps each
definition to its lines. Definitions named like another with a suffix, with a comment
that begins with "Mutant", are wrong variants that show that a property can fail.

**SharedTimedMutex.** `entered` and `readers` are the two parts of `__state_`; `gate1`
and `gate2` are the waiters of the two condition variables; `pc` says whether a thread
is in `__gate1_.wait`, in `__gate2_.wait`, or owns the mutex. `WriterGate1`,
`WriterGate2`, `ReaderGate1` are the turns of the three loops, in the timed forms with
what follows a time-out (`AbandonEntry`).

**LockFileManager.** `lock` is the target of the lock file, `unique` the file of each
process, `product` the module file. An action per access to the file system: `Read`, `Judge`,
`Discard` (readLockFile), `CreateUnique`, `WriteUnique`, `DropUnwritten`, `CreateLink`,
`CheckLock`, `CleanLock`, `DropUnique` (constructor), `Access`, `CheckFile`, `RecheckFile`,
`CheckOwner` (waitForUnlock), `Unlock`, `Unlink` (destructor), `Build`, `Load`,
`LoadShared` (compileAndLoadModule); besides `Crash`, anywhere, and `Exit`, some time after the
compilation has ended. The calls that may fail are the constant `Faults`; the run has all of them:

| Member of `Faults` | Call | What the code does then |
|---|---|---|
| `absolute` | `make_absolute` (77-80) | gives up with `Error` |
| `create`, `write`, `link` | `createUniqueFile` (93), writing and closing it (99-115), `create_link` (127) | gives up with `Error`; after a failed write it removes the file |
| `remove` | `sys::fs::remove` at 39, 56, 119, 140, 174 and 175 | nothing: the failure is ignored and the file stays. `kept` remembers the files that a process failed to remove at 119, 140, 174 and 175 |
| `remove` | `sys::fs::remove` at 152 | gives up with `Error` |
| `read` | `MemoryBuffer::getFile` (37), also on the complete file of a running owner; `ReadAST` | removes the lock file like one that nobody owns; the module is not loaded |
| `access` | `exists` and `access` on a file that is there (144, 207, 217) | goes on as if the file were missing or, where it waits for the lock file to go (207), as if it were there |

Not modelled: failures of `gethostname` and `getsid`. `error` says that the constructor has set `Error`.
Intervals of `waitForUnlock` are counted in units of the first sleep.

**CxaGuard, CallOnce.** `stack` has the variables or flags whose functions a thread is
running, so that functions nest and recur. `CxaGuard` has both forms of the lock word
(`apple`): the identity of the thread, which finds out recursion, or a bool. `Objects` are the
variables of the one and the flags of the other.

**AssocState.** One state with its promise or function and the futures of two threads.
`owners` is the count plus one; `held` are calls that own a reference; `freed` is set
by the deletion. `Set`, `SetAtExit`, `Exit`, `DestroyPromise`, `Break` are the
provider's, `GetFuture`, `Attach`, `Share`, `CopyTo`, `Get`, `StartWait`, `Drop` the
consumer's; `Execute`, `SubWait`, `WaitUntil`, `Notify` and `Release` are inside the
library.

**TimedMutex.** `count` is `__locked_` or `__count_`. `Unlock` and `Notify` are two steps:
a `timed_mutex` keeps `__m_` in between (`mutex`), a `recursive_timed_mutex` does not.
`Destroy` may come as soon as nobody owns the mutex, before an `unlock` has returned.

**ConditionVariableAny.** Its client is modelled with it: threads that wait for tokens
or for the end of the program, others that post and close. `lock` and `mut` are the two
locks; `copies` the threads with a copy of the shared pointer.

**StdLock.** `list` and `place` are the arguments and the index of `__lock_first`;
`has` is how many locks of the rotated list the call has. `Recall` is the nested call
with the list rotated by two. `Throw` is an exception of a lock.

**RangeConstraints.** One symbol on one path. `ranges` is what the manager keeps;
`values`, which the code does not have, the values with which a run of the program takes
the path, by the conversions of C. A step is a condition `(x + adj) op int` and a branch
that `assumeDual` gives. `Intersect`, `Outside`, `PinLower`, `PinUpper` and `Cut` are
`RangeSet::Intersect` with `pin`; `Bounds`, `NeverTrue` and `AlwaysTrue` are the six
`assumeSym` functions; `AssumeSymRel` and `SymInt` choose the types.

**OpenMP locks.** There is no internal mutex, so a step is one read, write, exchange or
compare-and-store of a shared word; a loop that fails goes back to the step that it
repeats, and a local that is not read again is reset (`Forget`), so that it makes no
states. *TasLock*: `poll` names the owner, `spinning` are the threads in the loop. *TicketLock*: the
number and the owner are written apart, and `ticket` of a thread outlives its call until the thread
has given the lock back. *FutexLock*: `poll` is the word, `asleep` the queue of the kernel, `bit` the bit in
`gtid_code`, which a woken thread keeps until it has the lock. `Wait` is the compare of the
system call, `Interrupt` a signal. *QueuingLock*: `head` and `tail` are compared and stored
together where the code does it with 64 bits, and `head` alone where it does not. `NoQueue`
is the -1 of a lock that is held with no queue. The locks share `spin_here` and
`next_waiting`, which is the point of having two; a thread sets them in increasing
order, since otherwise the program may deadlock. *DrdpaLock*: `areas` are all
polling areas that were ever allocated, an area that is freed is empty, `polls`, `mask` and
`num_polls` are written one by one (`Reconfigure`, `Publish`, `Cleanup`), `Recreate` destroys
the lock and makes it again. An access outside a live area is noted in `stray`, after which
the model stutters (`Undefined`): the program may do anything. `Oversubscription` has the values
that `TCR_4(__kmp_nth) > avail_proc` may have, and each test may find another.

## 3. Runs

`expect: pass` runs explore all states; the counts are distinct states.

| Run | Instance | Shows | States |
|---|---|---|---|
| `shared_mutex` | 3 threads, 2 readers at most, all calls | it is a readers-writer lock with an accurate word; readers do not overtake a writer past `__gate1_`, and a writer sleeps at `__gate2_` only while there are readers; without timed writers a sleeper is notified; a writer at `__gate2_` leaves it | 4 177 |
| `shared_mutex_timed_writer` | 3 threads, 3 readers at most | finding 1 | - |
| `lock_file` | 3 processes on a machine, the calls of section 2 may fail, crashes anywhere | whom a lock file names, nobody alive is taken for dead, no wait for oneself, every compilation ends or finds a lock file that it has discarded again and again | 846 043 |
| `cxa_guard` | 3 threads, 2 variables that use each other, recur and throw | one-time initialization, who sleeps has its wake-up before it, and calls return or end the program, unless they wait for initializers that wait for each other in a circle | 61 172 |
| `call_once` | 3 threads, 2 flags, functions that nest and throw | one-time initialization, who sleeps has its wake-up before it, calls return | 14 117 |
| `assoc_state` | 2 providers, 2 consumers, promise, async and deferred | exact count, one deletion, no use after it, one result, which is there when its provider has gone, waits end | 24 858 |
| `timed_mutex` | 4 threads, count up to 2, both classes | accurate flag, count and owner, no lost wake-up, no use after destruction, a mutex, a free mutex is taken | 24 484 |
| `condition_variable_any` | 3 threads, 2 tokens | locks, no sleeper past `notify_all`, no more tokens beside sleepers than threads on their way, no use after destruction, waits end, tokens are taken | 128 830 |
| `std_lock` | 3 threads, lists of 4, 2 and 1 of 4 locks | nobody holds and waits, a call blocks on the lock it found taken, all or none, a call left alone returns | 430 948 |
| `range_constraints` | symbols of 2 and 3 bits, sums and constants of 2 to 4 bits | the ranges are exactly the feasible values, a branch that some value takes is followed, and one branch is | 714 |
| `user_lock` | 3 threads; 2 queuing locks, or 1 lock of another kind; nesting to 2, 6 tickets | one holder, sleepers are known, the links reach who waits and come when a release waits for them, the polling area in use shows whose turn it is, first come first served, who may pass the end of a polling area and when, a lock with a line of threads does not stay idle | 330 619 |
| `drdpa_test` | 4 threads, 4 tickets | finding 2 | - |

**Bounds and why they are enough.** Three threads give an owner, one that waits and one
that interferes; every hazard listed in `PROJECT.json` needs at most that, and
`TimedMutex` has a fourth for the one that destroys. A reader limit of 2 lets the count
reach its limit and leave it by one. Two objects suffice for the order between two of
them: nested initializers go both to the other and back to themselves, and in `cxa_guard` two
threads can wait for each other's (`CircularUse`). In `lock_file`
a limit of three units lets an interval double once before the wait ends. In `std_lock`
a list of four has places after the second, for which the code calls itself. In
`range_constraints` two bits have a least, a greatest, a negative and a positive value,
three bits have ranges with holes that wrap, and each pair of narrower, equal and wider,
signed and unsigned occurs except those for which the code is wrong (section 5; `Safe`
and `SignExtended` say which). In `user_lock` six tickets let the polling area grow and shrink
again, each time with garbage that has to wait for the threads of the old area and is freed after them; three threads are a holder,
a thread in the queue and one between it and the queue; a polling area of one element grows
for the two that wait. `drdpa_test` needs a fourth, since the one that tests does not wait. For
all other sizes there are the proofs: every property of a passing run that is not a liveness
property is a theorem (section 6).

**Deadlock** is checked where threads go on for ever (`SharedTimedMutex`, `CallOnce`,
`StdLock`, `RangeConstraints`, `UserLock`: when its tickets are used up, a ticket or DRDPA lock can
be made again). It is off where the system may stop: all processes have exited
or crashed, the program has been aborted or its initializers wait for each other, the state or
the mutex or the condition variable has been deleted.

## 4. Fairness

Weak fairness of the steps inside the library: a thread that runs and can take its next step
takes it some day. Strong fairness only where a mutex or a function has to be got
against contenders: `Locking` of `ConditionVariableAny` (a free lock is got by one who tries
again and again) and `Release` and `Return` of an initializer that could throw for ever.
`AssocState` assumes in addition that a promise is destroyed some day, an async function ends and
a thread exits, and `LockFileManager` that a compiler exits once its compilation has ended: if it
could not remove its lock file, others wait for that. Nothing is assumed of the environment otherwise: nobody has to call, to
unlock (but in `StdLock` and for the owners of `SharedTimedMutex`, whose liveness
asks for it), no deadline has to pass, no wait ends without a notification.

Liveness is conditional where the code promises no more: `Gate1Notified` on there being no
timed writer, `EveryCallReturns` of `CxaGuard` on not waiting, directly or through others, for a circle of
initializers: `a` uses `b` and `b` uses `a`, two threads run one each and wait for ever
(`cxa_guard.cpp:199-209`). Only a thread that waits for itself is found out, and where the lock is the
identity of the thread only. Calls outside the circle return nonetheless, although all share one condition
variable. (Of `CallOnce`, `EveryFlagCallReturns` has no condition, since the functions of the run use each
other without a circle; with one they would wait in the same way.) `EveryCompilationEnds` excepts a
process that for ever finds a lock file which it has just discarded (`DiscardedInVain`),
`TokenIsTaken` depends on the program not being closed. `LoneCallReturns` speaks of a call that is left
alone, since two calls of `lock` may undo each other's work for ever. `IsPassedOn` of `UserLock`
needs only that threads inside a call go on, and nothing of the owners: from the moment at which a
lock has been given up while threads stand in line, until one of them owns it, no owner has to act. It
does not say that each thread gets it: in a test-and-set or futex lock others may always be faster. In the other three
it follows with `ImplementsFifo`, if owners give the lock back.

## 5. Findings

1. `shared_timed_mutex::try_lock_until` (`shared_mutex:195`) clears the write-entered bit when
   it times out in `__gate2_` and notifies nobody. A thread that went to sleep in `__gate1_`
   because of the bit sleeps on when the readers have left, though the mutex is free.
   A trace of ten states.
2. `__kmp_test_drdpa_lock` (`kmp_lock.cpp:2611-2617`) reads the pointer of the polling area before
   the mask. If the area grows in between, it indexes the old area with the new mask and
   reads beyond its end. The comment at line 2455, in the spin loop, says why the mask must be
   read first. Four threads, a trace of 14 states.

Known besides, without a run of their own:

- `__kmp_test_ticket_lock` (`kmp_lock.cpp:783-787`) takes the ticket if `next_ticket` is still what it
  was. If 2^32 tickets are drawn between the look and the exchange it is so again, whoever has the
  lock by then. The tickets of the model are bounded and do not wrap around.
- `LockFileManager::readLockFile` (`LockFileManager.cpp:39`) removes whatever lock file is
  there after it has found none, or one of a dead owner. Between the look and the removal another
  process may have created its own: both own the lock. The header says that only one can
  (`LockFileManager.h:24`). In `LockFileManager` two processes in the place of the owner show it.
  It does so too when `getFile` fails on the complete lock file of a running owner, for want of a file
  descriptor for example: therefore `NoLiveOwnerTakenForDead` speaks of lock files that have been read.
- The failures of the removals at `LockFileManager.cpp:39` and `:56` are ignored. If the lock file
  cannot be removed and leads nowhere, `create_link` says that it exists, `readLockFile` cannot read
  it and `sys::fs::exists`, which follows the link, says that it does not: the loop at 124-148 runs for ever,
  without a pause. `EveryCompilationEnds` excepts it; drop `DiscardedInVain` to see it.
- A failure of the removal in the destructor (`LockFileManager.cpp:174`) is ignored as well. The lock file
  then names a process that has its module and goes on; the others wait until it exits or they
  time out. `LockHasOwner` names this case.
- `RangeSet::pin` (`RangeConstraintManager.cpp:216`) tests bounds of an unsigned type against a
  narrower signed one by counting bits, so that the bounds that stand for negative values are
  "above". With `signed char a`, `a < 0`, both branches of `a + 2u < 2u` are infeasible: the assertion
  "System is over constrained." fails, and a build without it takes the false branch, which no run
  does. `Conversions` of `RangeConstraints` with such a pair of types shows it.
- A thread that holds a ticket of a DRDPA lock has read the mask before the pointer, which is right while
  the area grows. When it is contracted to one element (`kmp_lock.cpp:2497`) the old mask and the new
  pointer pass its end, which the order of the reads is meant to rule out (`kmp_lock.cpp:2455-2461`).
  A thread that tests has no ticket: the area whose pointer it has read may be freed before it looks
  (`kmp_lock.cpp:2612`), though the garbage is to be freed by "the last thread that could possibly access
  it" (2476-2477). `StrayIsKnown` says that, with finding 2, these are the only accesses of the kind: an acquire
  strays only while the area in use has replaced a larger one that is still there, and with the mask of that
  one; with the two reads the other way round TLC refutes it. A waiter may leave the loop with a stale mask, too, but never
  the one that makes the new mask of it: a thread whose mask is stale has a ticket before
  `cleanup_ticket`, and such a thread does not reconfigure (`Inv`).

- With four threads, two readers at most and no timed calls, `NoSleeperOnFreeMutex` fails in
  another way: two readers wait for a full count to drop and only the first
  `unlock_shared` notifies (`shared_mutex.cpp:98`). The real limit is 2^31 - 1 readers, since
  `__state_` is an `unsigned` (`shared_mutex:126-129`).
- `waitForUnlock` compares the next interval, not the time waited, with 300 seconds: the sleeps
  1 ms, 2 ms, ... add up to 524 s (`LockFileManager.cpp:259`, "Don't wait more than five minutes").
- The thread of `std::async` notifies after it has unlocked the state, and owns no
  reference: for a type other than void, or an exception, the state may be deleted in
  between (`future:655`). `NoUseAfterFree` has a condition that leaves these out; without the
  condition TLC finds the behaviour.
- `recursive_timed_mutex::unlock` notifies after the unlock of `__m_` (`mutex.cpp:205`). Drop
  `recursive` from `NoUseAfterDestroy` to see it used after its destruction.
- A process that finds the module out of date after a time-out tries again
  (`CompilerInstance.cpp:1043`); with an owner that died on another machine, which cannot be
  seen, it does so for ever. `EveryCompilationEnds` is checked for one machine.
- Two calls of `std::lock` that keep taking each other's second lock never return
  (`libcxx/include/mutex:361`); `sched_yield` makes it unlikely. `__lock_first` calls itself at
  each failure beyond the second place, and no bound is set on the depth of the stack.
- `condition_variable_any::wait` locks the caller's lock in a destructor
  (`condition_variable:183`): a lock that throws there ends the program.
- A comparison that asks for one value outside the type of the symbol leaves all values
  (`RangeConstraintManager.cpp:165`): imprecise, not wrong. `Exact` allows it.

## 6. Proofs

TLAPS proves every property of a passing run but the liveness properties, for every
value of the constants that the named assumptions of the modules admit.

| Module | Theorems | Argument |
|---|---|---|
| `SharedTimedMutexProof` | `SpecInv`, `SpecStateIsAccurate`, `SpecMutualExclusion`, `SpecNoOvertaking`, `SpecImplementsLock`, `SpecWriterSleepsOnReaders`, `SpecNoSleeperOnFreeMutex` | `Inv`: the count is the number of readers, the bit is set for one thread, and an exclusive owner has seen no readers. `MoveReaders` gives the cardinalities after a move; then a lemma for each kind of step |
| `LockFileManagerProof` | `SpecInv`, `SpecLockHasOwner`, `SpecNoLiveOwnerTakenForDead`, `SpecLeavesNoFile` | a lock file leads to a complete file unless its owner has ended, so that only dead owners that have been read look dead; the file of a process is known at each of its places (`FileInPlace`), but for the removals that failed |
| `OnceInitProof` | of `CxaGuard`: `SpecInv`, `SpecImplementsOnce`, `SpecNoSelfWait`, `SpecWaitersAreKnown`; of `CallOnce`: `FlagSpecInv`, `FlagSpecImplementsOnce`, `FlagSpecWaitersAreKnown` | a lock word names the thread that has the guard on its stack, once; a flag is 1 while exactly one activation of its function is on a stack |
| `AssocStateProof` | `SpecInv`, `SpecNoUseAfterFree`, `SpecNotBeforeExit`, `SpecImplementsOneResult`, `SpecWaitersAreServed` | the count is the cardinality of the set of owners (`NextCount`), and each place of each call is covered by one (`CallsOwn`); so the state lives while anyone is inside. A provider that has gone has left a result (`StaysProvided`) |
| `MutexProof` | of `TimedMutex`: `SpecInv`, `SpecNoLostWakeup`, `SpecNoUseAfterDestroy`, `SpecImplementsLock`; of `StdLock`: `AllSpecInv`, `AllSpecImplementsAtomic` | while the mutex is free and someone sleeps, some thread is about to notify or to test the flag; the locks of a call are those at the places it has passed in its rotated list |
| `ConditionVariableAnyProof` | `SpecInv`, `SpecNoUseAfterDestroy`, `SpecTokensAreAnnounced` | who is where when a lock is held; after the close nobody is about to block except one that has `*__mut_`, for which the notification waits; tokens and threads on their way are counted together |
| `RangeConstraintsProof` | `SpecInv`, `CutValues`, `SpecSound`, `SpecExact`, `SpecNotOverConstrained` | see below |
| `UserLockProof` | `SpecInv`, `SpecStrayIsKnown`, `SpecImplementsOwned`, `SpecImplementsFifo`, `SpecLinkIsComing`, `SpecTurnIsShown` | see below |

`OnceInitProof` and `MutexProof` each extend two components that belong together.

**No lost wake-up.** Liveness under fairness cannot be proved here. What makes it true is
mostly a safety property, though: in no state does a thread wait for something that has
happened already, or that nobody is going to do. These are proved, for any number of threads:

| Theorem | Nobody waits in vain, because |
|---|---|
| `SpecWaitersAreKnown`, `FlagSpecWaitersAreKnown` | a thread sleeps in `__cxa_guard_acquire` or `__call_once` only while another one runs the initializer, whose end broadcasts, or while a broadcast is still to come |
| `SpecWriterSleepsOnReaders` | a writer sleeps at `__gate2_` only while there are readers, of whom the last notifies it |
| `SpecNoSleeperOnFreeMutex` | nobody sleeps on a free `shared_timed_mutex` - if no writer is timed and there are no more threads than the reader limit. Without the first the run `shared_mutex_timed_writer` refutes it (finding 1), without the second the behaviour at the reader limit in section 5 |
| `SpecNoLostWakeup` | of a free `timed_mutex` with sleepers, some thread is about to notify, or to look at the flag |
| `SpecWaitersAreServed` | who waits for a shared state that is not ready has a provider that will make it so: a promise or an async function, or a deferred function that a thread executes, or a thread at whose exit it becomes ready |
| `SpecTokensAreAnnounced` | beside threads that sleep in `condition_variable_any::wait` there are no more tokens than threads on their way to take or announce one, so that no notification has been lost (until the end is announced: then `CloseReachesAll`, in `Inv`, says the same of `notify_all`) |
| `SpecLinkIsComing` | a release of a queuing lock spins until the second in the queue is linked to the first; if it is not, a thread is at that very step |
| `SpecTurnIsShown` | a thread that takes the next ticket of a DRDPA lock that nobody has finds it in the polling area that is in use, whatever replacements there have been |

They are conjuncts of the `Inv` that the runs check, but for `NoLostWakeup`, which is a property of its
own, `SpecWaitersAreServed`, which is made of the conjunct `ResultIsProvided`, and
`NoSleeperOnFreeMutex`, which the run for finding 1 refutes where its hypotheses fail.

`SpecLeavesNoFile` (who ends without an error, and could remove its own file, leaves none on disk), `SpecNotBeforeExit` (nothing is ready
before the thread has exited) and `SpecNoSelfWait` state properties that no run lists: they
follow from the `Inv` that the runs check, which has them as conjuncts or implies them.
`SpecMutualExclusion` and `NeverWaitsForItself`, a conjunct of `Inv` of `LockFileManager`, have no
run of their own either: `ReadersWriterLock` and `Inv` contain them.

**The inductive invariants.** In the libc++, libc++abi and LockFileManager modules `Inv` is inductive
itself, but in `StdLock`, where it follows from one that says which locks a call has at each of its
places (`CallsInv`). The other properties are not: mutual exclusion, for example, says nothing
of the count that a writer tests. For the two components that follow `Inv` is not enough.

**UserLock.** `IInv` puts together an invariant for each kind of lock. Those of test-and-set and futex locks are
the `Inv` of their modules. *Ticket locks*: `TicketLine` says instead of how many threads are in line that no two
have the same ticket, from which the number follows (`TicketCount`) and which a step keeps. *Queuing
locks*: `Inv` counts the sequences that can be the queue of a lock; `QueuingLine` has one (`IsQueue`), from
the head to the tail, in which each thread is linked to by the one before it or is about to be, and
says besides what each thread may have in its locals where it is: who is being woken is known to one
thread only, and who is about to link itself is not linked to yet. *DRDPA locks*: `DrdpaLine` says,
for the ticket `b` whose turn it is, that no counter of a live area is beyond `b`; of each thread
which area and which mask it has read and that, where these are not the present ones, its ticket is before
`cleanup_ticket` (`Spared`); and that the areas that are not freed are the one in use and the garbage.
`DrdpaFits` adds how far the mask of a waiting thread reaches: not beyond the area that it polls, unless that is the
area in use and has replaced a larger one (`Contracted`). It holds since an area is replaced only
when there is no garbage, so that all masks are then of the area in use; `SpecStrayIsKnown` follows from it.
Two more parts say what cannot be lost: `QueuingTail`, that a release which found two threads in the queue
still has two, so that a link is there or comes (`LinkComes`); and `TurnIsShown`, which every replacement
of the area and every release has to keep.
From there a step of one kind is a step of the abstract lock, or none. A polling area grows by
a power of two, and that one is large enough (`GrowthExists`) rests on `PowerOfTwo`, which counts the
subsets of an interval: the library knows the operator `^` only as their number.
Assumed: finitely many threads; a value that is none of them (`None`), and -1 is none either; locks with numbers, as
addresses are; positive bounds; and of `Oversubscription` only that it has truth values.

**ConditionVariableAny** assumes finitely many threads as well, since `TokensAreAnnounced` counts those
that are on their way.

**RangeConstraints.** `SpecInv` and `CutValues` hold for all conversions. The other three theorems have a
hypothesis, that the conversions are `Safe`: the sum has the type of the symbol or a larger one, and no
value of a signed type becomes one of a larger unsigned type. It is what the code needs (without it,
section 5 has a path where the analyzer is wrong), and TLC evaluates it for the run (`SafeAssumption`).
Types may have any width from one bit on. The invariant `Kept` says that the ranges have all the values
with which a run takes the path and, as long as there are any, no others. The argument:

1. Numbers are the same in a type if they differ by a multiple of the number of its values (`Same`); a conversion
   gives the only value of the type that is the same (`ConvertSame`).
2. A value is in a range that may wrap around if its distance from the lower bound, going up and around, is
   not larger than that of the upper bound (`WrappedDistance`). Moving both by the adjustment
   changes no distance (`WrappedShift`), so the bounds of a condition are right although they
   overflow (`BoundsMeaning`).
3. `testInRange` finds out exactly the values of a smaller type (`TestSmaller`), and with it
   `pin` cuts a range down to the type of the symbol without a loss (`PinSmaller`, `PinSameBits`); then
   `Intersect` leaves what it should (`IntersectMeaning`), except for one value outside the type, which leaves
   everything: therefore `Exact` speaks of paths that a run can take.
4. `assumeSymRel` chooses types in which the condition means what it means in C (`ConditionTypes`). So the
   ranges lose no value (`Sound`, first part), and a branch that the code takes for infeasible has no
   value (`Infeasible`), hence one that some run can take is followed (`FeasibleBranchesTaken`, the second part).
5. One of the two branches has each value that is left, and some value is always left (`SomeValue`), hence
   `NotOverConstrained`.

**Only model-checked:** all liveness, which is out of the prover's reach: `Gate1Notified`,
`Gate2Drains`, `EveryCompilationEnds`, `EveryCallReturns`, `EveryFlagCallReturns`, `EveryWaitEnds`, `FreeIsTaken`, `TokenIsTaken`,
`LoneCallReturns`, `IsPassedOn`. And the two findings, which are counterexamples.

## 7. What is not modelled

Weak memory: a step is atomic, so that neither the plain read of `call_once`'s fast path nor
what other data becomes visible is judged; only stale values of the flag itself are.
Failures of pthreads calls. Reuse of process IDs, clocks that are set back. In the
analyzer: several symbols, differences of symbols, conditions on locations, `removeDeadBindings`,
casts (which the analyzer ignores between integer types). `packaged_task`, moves of handles.
In the OpenMP locks: adaptive locks (they need the speculation of the processor), nestable DRDPA
locks (the same wrapper as that of the ticket locks), the table of user locks, the checks of
consistency, wrap-around of tickets and identifiers. The memory there
is sequentially consistent, as x86 makes it for the exchanges, with the fences of the code. The parts with
status `not_modelled` in `PROJECT.json`: compilers, linkers and debuggers proper are sequential
transformations whose correctness is that of a translation; juxta's additions format
text.

## 8. Plan

Done: libc++, libc++abi, the lock file, the range constraints, the locks of the OpenMP runtime. In
order of worth, what could follow:

1. OpenMP linear barrier and wait/release: `LinearBarrier`, to implement an abstract barrier in
   which nobody leaves an episode before all have come.
2. lldb `Listener` and `Broadcaster`: deadlock freedom of the two mutexes, no event to a listener
   that has been destroyed.
3. Sanitizer lock-free stack (the counter against ABA) and `BlockingMutex`.
4. `shared_ptr` and `weak_ptr` counts under the futures (today the count of `AssocState`),
   and `notify_all_at_thread_exit`.
5. Proofs of safety: an abstract specification for `ConditionVariableAny` (a waiter that is notified
   leaves with its lock) and one for `LockFileManager`, to be proved like the others.

New parts join existing runs where they have a client in common, as the locks do in
`UserLock`, so that the whole set stays small enough to run in some minutes.
