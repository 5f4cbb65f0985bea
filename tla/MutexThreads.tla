---------------------------- MODULE MutexThreads ----------------------------
(***************************************************************************)
(* What TimedMutex and StdLock have in common: the threads that lock.      *)
(***************************************************************************)
CONSTANTS Threads,      \* the threads that use the mutexes
          None          \* no thread, no lock

VARIABLE pc             \* where each thread is
=============================================================================
