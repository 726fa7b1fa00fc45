----------------------- MODULE MCCoordinationService -----------------------
(* TLC instances of CoordinationService.                                      *)
EXTENDS CoordinationService, TLC

MCSymmetry == Permutations(Tasks \ (RecoverableTasks \cup RecoverableJobTasks))
=============================================================================
