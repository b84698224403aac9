------------------------ MODULE MCFailureInspection ------------------------
(* FailureInspection with the code's own limits, the smallest max_total_bytes  *)
(* and a job that logged something else than ASCII and has many test results. *)
EXTENDS FailureInspection

LongLogs == {[size |-> [logs |-> 40000, code |-> 3000, inputs |-> 200],
              found |-> [tests |-> 20, dependencies |-> 2, artifacts |-> 2],
              envelope |-> 3000, summary |-> {<<"code_defect", 1>>}, logged |-> {},
              inline |-> TRUE, success |-> FALSE]}
=============================================================================
