------------------------ MODULE MCRollbackExecution -------------------------
(* Instances of RollbackExecution; executions are interchangeable.           *)
EXTENDS RollbackExecution, TLC

Symmetry == Permutations(Executions)
=============================================================================
