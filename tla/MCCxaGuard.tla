----------------------------- MODULE MCCxaGuard -----------------------------
(* Instances of CxaGuard for TLC.                                          *)
EXTENDS CxaGuard

CONSTANTS a, b

\* The initializers of a and b use each other, so that two threads can wait for each
\* other, and that of a may come back to a itself.
CircularUse == {<<a, b>>, <<b, a>>, <<a, a>>}
=============================================================================
