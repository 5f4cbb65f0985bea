----------------------------- MODULE MCCallOnce -----------------------------
(* Instances of CallOnce for TLC.                                          *)
EXTENDS CallOnce

CONSTANTS a, b

\* The function of a uses the flag b.
TwoLayered == {<<a, b>>}
=============================================================================
