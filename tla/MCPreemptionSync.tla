-------------------------- MODULE MCPreemptionSync --------------------------
(* Instances of PreemptionSync for TLC.                                     *)
EXTENDS PreemptionSync

=============================================================================
