---------------------------- MODULE Initializers ----------------------------
(***************************************************************************)
(* What CxaGuard and CallOnce have in common: threads that reach objects   *)
(* which are initialized once, by initializers that may use other objects, *)
(* or the same, and may throw.                                             *)
(***************************************************************************)
EXTENDS Naturals, Sequences

CONSTANTS Threads,      \* the threads of the program
          Objects,      \* the local static variables, or the objects of type once_flag
          Uses,         \* <<a, b>>: the initializer of a uses b
          Throws        \* the objects whose initializer may throw

ASSUME ConstantsAssumption ==
    /\ Threads \cap {"free", "nobody", "done"} = {}
    /\ Uses \subseteq Objects \X Objects
    /\ Throws \subseteq Objects

VARIABLES pc,           \* where each thread is
          want,         \* the object that a call is about
          stack,        \* the objects each thread initializes, the newest first
          ready         \* the objects that each thread has found initialized
=============================================================================
