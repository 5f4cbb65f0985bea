----------------------- MODULE MCConditionVariableAny -----------------------
(* An instance of ConditionVariableAny for TLC. *)
EXTENDS ConditionVariableAny
=============================================================================
