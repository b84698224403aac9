--------------------------- MODULE MCRegressionRun ---------------------------
(* Instance of RegressionRun, and of ConsumerImpact which it extends: the      *)
(* dependency graphs on a few capabilities, with tests spread over them.       *)
EXTENDS RegressionRun
=============================================================================
