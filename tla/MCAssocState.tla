---------------------------- MODULE MCAssocState ----------------------------
(* Instances of AssocState for TLC.                                        *)
EXTENDS AssocState

AllKinds == {"promise", "async", "deferred"}
=============================================================================
