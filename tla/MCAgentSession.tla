-------------------------- MODULE MCAgentSession --------------------------
(* AgentSession for TLC: the calls are interchangeable. *)
EXTENDS AgentSession, TLC

Symmetry == Permutations(Calls)
=============================================================================
