-------------------------- MODULE MCAgentApproval --------------------------
(* A small instance of AgentApproval for TLC. *)
EXTENDS AgentApproval, TLC

\* Requests are interchangeable.
RequestSymmetry == Permutations(Requests)
=============================================================================
