------------------------ MODULE MCCoordinationAgent ------------------------
(* Instances of CoordinationAgent for TLC.                                  *)
EXTENDS CoordinationAgent

=============================================================================
