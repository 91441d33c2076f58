---------------------------- MODULE MCAgentDispatch ----------------------------
(***************************************************************************)
(* AgentDispatch for TLC: overlapping create requests are interchangeable. *)
(***************************************************************************)
EXTENDS AgentDispatch, TLC

CallerSymmetry == Permutations(Caller)

==============================================================================
