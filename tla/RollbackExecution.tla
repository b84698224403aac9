------------------------- MODULE RollbackExecution --------------------------
(* execute_approved_rollback (candidate_ops/rollback_recommendation.py): the *)
(* gates in front of rollback_capability, the verification after it and the  *)
(* record of the outcome.  The rollback itself is that of module Promotion,  *)
(* run by the same job; promotions and other deployments are versions from   *)
(* outside.                                                                  *)
EXTENDS Naturals, Sequences

CONSTANTS Executions,      \* executions of one recommendation each
          InitiatingIds,   \* values callers pass as initiating_job_id
          Original, Edited, Scripts, Outside, None,
          MaxVersions      \* bound: no outside deployment at this length

VARIABLES
  log, author, rollbackRecord, pc, request, current, reread,   \* see Promotion
  stage,            \* how far each execution is
  gate,             \* what each execution was given to decide on
  outcome,          \* status each execution reports
  verified,         \* active version the verification tests ran against
  executionRecord   \* the variables rollback_recommendation/<path>_<initiating_job_id>

rollbackVars == <<log, author, rollbackRecord, pc, request, current, reread>>
vars == <<rollbackVars, stage, gate, outcome, verified, executionRecord>>

R == INSTANCE Promotion WITH
       PromotionJobs <- {}, RollbackJobs <- Executions, Candidates <- {},
       base <- <<>>, promotionRecord <- <<>>, prepared <- <<>>, approval <- <<>>

\* Arguments of execute_approved_rollback.  risky: the capability has side effects,
\* or workflows or schedules are affected.
Gates == [recommended : BOOLEAN, granted : BOOLEAN, named : BOOLEAN,
          risky : BOOLEAN, acknowledged : BOOLEAN]
Closed == [recommended |-> FALSE, granted |-> FALSE, named |-> FALSE,
           risky |-> FALSE, acknowledged |-> FALSE]
Verdicts == {"rollback_succeeded", "verification_failed"}
Statuses == Verdicts \union {"approval_rejected"}

ASSUME OutsideAssumption == Outside \notin Executions
ASSUME ScriptsAssumption == \A s \in Scripts : s \notin Nat
ASSUME BoundAssumption == MaxVersions \in Nat
ASSUME NoneAssumption == None \notin Statuses /\ None \notin R!Record

TypeOK ==
  /\ stage \in [Executions -> {"called", "open", "decided", "recorded", "unrecorded", "error"}]
  /\ gate \in [Executions -> Gates]
  /\ outcome \in [Executions -> Statuses \union {None}]
  /\ verified \in [Executions -> Nat]
  /\ executionRecord \in [InitiatingIds -> Statuses \union {None}]

Init ==
  /\ R!Init
  /\ stage = [j \in Executions |-> "called"]
  /\ gate = [j \in Executions |-> Closed]
  /\ outcome = [j \in Executions |-> None]
  /\ verified = [j \in Executions |-> 0]
  /\ executionRecord = [i \in InitiatingIds |-> None]

GoTo(j, s) == stage' = [stage EXCEPT ![j] = s]

Deploy ==
  /\ R!DeployOutside
  /\ UNCHANGED <<stage, gate, outcome, verified, executionRecord>>

RiskUnchecked(g) == g.recommended /\ g.granted /\ g.named             \* mutant
MayProceed(g) == /\ g.recommended /\ g.granted /\ g.named
                 /\ g.risky => g.acknowledged

\* The checks, in the code's order: no recommendation is an error, no approval is an
\* outcome, and so on.
Decide(j) ==
  /\ stage[j] = "called"
  /\ \E g \in Gates :
       /\ gate' = [gate EXCEPT ![j] = g]
       /\ \/ /\ g.recommended /\ ~g.granted
             /\ outcome' = [outcome EXCEPT ![j] = "approval_rejected"]
             /\ GoTo(j, "decided")
          \/ /\ ~(g.recommended /\ ~g.granted)
             /\ GoTo(j, IF MayProceed(g) THEN "open" ELSE "error")
             /\ UNCHANGED outcome
  /\ UNCHANGED <<rollbackVars, verified, executionRecord>>

\* A step of rollback_capability, including its failure.
RollBack(j) ==
  /\ stage[j] = "open"
  /\ R!RollbackStep(j) \/ R!Fail(j)
  /\ UNCHANGED <<stage, gate, outcome, verified, executionRecord>>

ErrorIgnored(j) == pc[j] \in R!Stopped                                \* mutant
RolledBack(j) == pc[j] = "done"

\* The impacted tests run against whatever version is active by now; without tests
\* the verification counts as passed.
Verify(j) ==
  /\ stage[j] = "open"
  /\ RolledBack(j)
  /\ \E verdict \in Verdicts : outcome' = [outcome EXCEPT ![j] = verdict]
  /\ verified' = [verified EXCEPT ![j] = Len(log)]
  /\ GoTo(j, "decided")
  /\ UNCHANGED <<rollbackVars, gate, executionRecord>>

RecordedStatus(j) == outcome[j]

\* _persist_execution_record: POST variables/create, refused if the record exists.
Persist(j) ==
  LET i == request[j].id IN
  /\ stage[j] = "decided"
  /\ IF executionRecord[i] = None
     THEN /\ executionRecord' = [executionRecord EXCEPT ![i] = RecordedStatus(j)]
          /\ GoTo(j, "recorded")
     ELSE /\ GoTo(j, "unrecorded")
          /\ UNCHANGED executionRecord
  /\ UNCHANGED <<rollbackVars, gate, outcome, verified>>

\* An error in verification or a dead job; nothing is recorded.
Die(j) ==
  /\ stage[j] \in {"open", "decided"}
  /\ GoTo(j, "error")
  /\ UNCHANGED <<rollbackVars, gate, outcome, verified, executionRecord>>

Next == Deploy \/ \E j \in Executions : Decide(j) \/ RollBack(j) \/ Verify(j) \/ Persist(j) \/ Die(j)
Spec == Init /\ [][Next]_vars

-----------------------------------------------------------------------------
(* Properties.                                                             *)

Wrote(j) == {v \in 1..Len(log) : author[v] = j}

\* No version is ever rolled back without a recommendation, a named approver and, where
\* there is something to disrupt, an acknowledgement.
NeverSilent ==
  \A j \in Executions : Wrote(j) # {} =>
    /\ gate[j].recommended /\ gate[j].granted /\ gate[j].named
    /\ gate[j].risky => gate[j].acknowledged

\* A recorded outcome is the outcome of an execution with that initiating_job_id: a
\* rejected one wrote nothing, any other one wrote exactly one version and tested
\* that version or a later one.
RecordedOutcomeIsTrue ==
  \A i \in InitiatingIds : executionRecord[i] # None =>
    \E j \in Executions :
      /\ request[j].id = i /\ outcome[j] = executionRecord[i]
      /\ IF outcome[j] = "approval_rejected"
         THEN Wrote(j) = {}
         ELSE \E v \in 1..verified[j] : Wrote(j) = {v}
=============================================================================
