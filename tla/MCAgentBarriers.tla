-------------------------- MODULE MCAgentBarriers --------------------------
(* Instances of AgentBarriers for TLC.                                      *)
EXTENDS AgentBarriers

=============================================================================
