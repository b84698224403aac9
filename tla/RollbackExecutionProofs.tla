----------------------- MODULE RollbackExecutionProofs ------------------------
(* Proofs about RollbackExecution for every set of executions and ids.  The  *)
(* rollback inside an execution is one of Promotion's, so what is proved of  *)
(* Promotion holds of it: the theorems of PromotionProofs are instantiated.  *)
EXTENDS RollbackExecution, TLAPS

RP == INSTANCE PromotionProofs WITH
       PromotionJobs <- {}, RollbackJobs <- Executions, Candidates <- {},
       base <- <<>>, promotionRecord <- <<>>, prepared <- <<>>, approval <- <<>>

\* The assumptions of Promotion, for executions as its only jobs.
LEMMA PromotionAssumptions ==
  RP!JobsAssumption /\ RP!ScriptsAssumption /\ RP!BoundAssumption /\ RP!NoneAssumption
  BY OutsideAssumption, ScriptsAssumption, BoundAssumption, NoneAssumption DEF RP!Jobs, R!Record

-----------------------------------------------------------------------------
(* An execution is a rollback job of Promotion.                            *)

LEMMA InitIsPromotion == Init => RP!Init
  BY DEF Init, R!Init, RP!Init, R!Jobs, RP!Jobs

\* R and RP name the same module, with and without its proofs.
LEMMA RollbackSteps ==
  ASSUME NEW j \in Executions
  PROVE  (R!Fail(j) => RP!Fail(j)) /\ (R!RollbackStep(j) => RP!RollbackStep(j))
  <1> USE DEF R!GoTo, RP!GoTo, R!versionVars, RP!versionVars, R!recordVars, RP!recordVars,
              R!argumentVars, RP!argumentVars
  <1>1. R!Fail(j) => RP!Fail(j)
    BY DEF R!Fail, RP!Fail, R!Stopped, RP!Stopped
  <1>2. R!RollbackStep(j) => RP!RollbackStep(j)
    BY DEF R!RollbackStep, RP!RollbackStep, R!CheckRollback, RP!CheckRollback, R!Write, RP!Write,
         R!Version, RP!Version, R!Reread, RP!Reread, R!RecordRollback, RP!RecordRollback,
         R!Active, RP!Active,
         R!ExpectedMatches, RP!ExpectedMatches, R!Payload, RP!Payload, R!ParentHash, RP!ParentHash,
         R!LostAnswer, RP!LostAnswer, R!Provenance, RP!Provenance
  <1>3. QED
    BY <1>1, <1>2

\* Steps of rollback_capability, its failure and other deployments are Promotion's;
\* everything an execution does around them leaves the versions and records alone.
LEMMA StepIsPromotion == [Next]_vars => [RP!Next]_(RP!vars)
  <1> SUFFICES ASSUME [Next]_vars PROVE [RP!Next]_(RP!vars)
    OBVIOUS
  <1>1. CASE UNCHANGED rollbackVars
    BY <1>1 DEF rollbackVars, RP!vars
  <1>2. CASE R!DeployOutside
    <2>1. RP!DeployOutside
      BY <1>2 DEF R!DeployOutside, RP!DeployOutside, R!Active, RP!Active, R!recordVars, RP!recordVars,
                  R!argumentVars, RP!argumentVars
    <2>2. QED
      BY <2>1 DEF RP!Next
  <1>3. ASSUME NEW j \in Executions, RollBack(j) PROVE RP!Next
    BY <1>3, RollbackSteps DEF RollBack, RP!Next, RP!Jobs
  <1>4. QED
    BY <1>1, <1>2, <1>3 DEF Next, vars, Deploy, Decide, Verify, Persist, Die

\* Whatever happens around it, the rollback of an execution is that of module
\* Promotion: none of its steps is skipped, repeated or reordered by the gates, the
\* verification and the record (execute_approved_rollback calls rollback_capability).
THEOREM ExecutionIsARollback == Spec => RP!Spec
  BY InitIsPromotion, StepIsPromotion, PTL DEF Spec, RP!Spec

\* What PromotionProofs shows for every job therefore holds of the executions.
LEMMA PromotionInvariance == Spec => []RP!Inv
  BY ExecutionIsARollback, PromotionAssumptions, RP!Invariance, PTL

-----------------------------------------------------------------------------
(* The inductive invariant of the execution around the rollback.           *)

\* A rollback under way or finished has at most one write behind it: the version
\* after the hash it had read.
OneWrite ==
  \A j \in Executions :
    /\ pc[j] \in {"start", "checked", "conflict"} => Wrote(j) = {}
    /\ pc[j] \in {"written", "reread", "done"} =>
         current[j] + 1 \in 1..Len(log) /\ Wrote(j) = {current[j] + 1}

\* The rollback runs only behind the gates, and an outcome says how it ended.
GatesHeld ==
  \A j \in Executions :
    /\ pc[j] # "start" => stage[j] # "called" /\ MayProceed(gate[j])
    /\ stage[j] = "open" => MayProceed(gate[j])
    /\ outcome[j] = "approval_rejected" => stage[j] \notin {"called", "open"} /\ pc[j] = "start"
    /\ outcome[j] \in Verdicts =>
         /\ stage[j] \notin {"called", "open"}
         /\ pc[j] = "done"
         /\ verified[j] >= current[j] + 1

\* A record is that of an execution that has recorded.
RecordsHaveAuthors ==
  \A i \in InitiatingIds : executionRecord[i] # None =>
    \E j \in Executions :
      request[j].id = i /\ stage[j] = "recorded" /\ outcome[j] = executionRecord[i]

Inv == TypeOK /\ OneWrite /\ GatesHeld /\ RecordsHaveAuthors

LEMMA InitInv == Init => Inv
  <1> SUFFICES ASSUME Init PROVE Inv
    OBVIOUS
  <1>1. R!Init /\ Len(log) = 1 /\ author[1] = Outside /\ \A j \in Executions : pc[j] = "start"
    BY DEF Init, R!Init, R!Jobs
  <1>2. TypeOK
    BY DEF Init, TypeOK, Closed, Gates
  <1>3. OneWrite
    <2>1. \A v \in 1..Len(log) : author[v] = Outside
      BY <1>1
    <2>2. \A j \in Executions : Wrote(j) = {}
      BY <2>1, OutsideAssumption DEF Wrote
    <2>3. QED
      BY <1>1, <2>2 DEF OneWrite
  <1>4. GatesHeld
    BY <1>1, NoneAssumption DEF Init, GatesHeld, Statuses
  <1>5. RecordsHaveAuthors
    BY DEF Init, RecordsHaveAuthors
  <1>6. QED
    BY <1>2, <1>3, <1>4, <1>5 DEF Inv

\* Types that the proofs need of Promotion's variables.
LEMMA RollbackTypes ==
  ASSUME RP!Inv
  PROVE  /\ Len(log) \in Nat \ {0}
         /\ pc \in [Executions -> RP!Steps]
         /\ current \in [Executions -> 0..Len(log)]
         /\ request \in [Executions -> [restore : Nat \union Scripts, expected : Nat,
                                     id : InitiatingIds]]
  <1>1. /\ RP!TypeOK /\ RP!Bounded
    BY DEF RP!Inv
  <1>2. Len(log) \in Nat \ {0}
    BY <1>1 DEF RP!TypeOK
  <1>3. QED
    BY <1>1, <1>2 DEF RP!TypeOK, RP!Bounded, RP!Jobs

\* Steps of an execution outside the rollback leave OneWrite alone.
LEMMA OneWriteKept == OneWrite /\ UNCHANGED rollbackVars => OneWrite'
  BY DEF OneWrite, Wrote, rollbackVars

\* What the gates decide.
LEMMA DecideInv ==
  ASSUME Inv, NEW j \in Executions, Decide(j)
  PROVE  Inv'
  <1> USE DEF Inv, Decide, GoTo, rollbackVars
  <1>1. TypeOK'
    BY DEF TypeOK, Statuses
  <1>2. OneWrite'
    BY OneWriteKept
  <1>3. GatesHeld'
    BY NoneAssumption DEF TypeOK, GatesHeld, Statuses, Verdicts
  <1>4. RecordsHaveAuthors'
    BY DEF TypeOK, RecordsHaveAuthors
  <1>5. QED
    BY <1>1, <1>2, <1>3, <1>4

\* The verification finds the one version the rollback wrote, or a later one.
LEMMA VerifyInv ==
  ASSUME Inv, RP!Inv, NEW j \in Executions, Verify(j)
  PROVE  Inv'
  <1> USE DEF Inv, Verify, RolledBack, GoTo, rollbackVars
  <1>1. TypeOK'
    BY RollbackTypes DEF TypeOK, Statuses
  <1>2. OneWrite'
    BY OneWriteKept
  <1>3. GatesHeld'
    <2>1. current[j] + 1 <= Len(log) /\ pc[j] = "done"
      BY DEF OneWrite
    <2>2. outcome'[j] # "approval_rejected" /\ verified'[j] = Len(log) /\ stage'[j] = "decided"
      BY DEF TypeOK, Verdicts
    <2>3. \A k \in Executions : k # j => /\ outcome'[k] = outcome[k] /\ verified'[k] = verified[k]
                                         /\ stage'[k] = stage[k]
      BY DEF TypeOK
    <2>4. QED
      BY <2>1, <2>2, <2>3 DEF GatesHeld
  <1>4. RecordsHaveAuthors'
    BY DEF TypeOK, RecordsHaveAuthors
  <1>5. QED
    BY <1>1, <1>2, <1>3, <1>4

\* The record is created once, with the outcome of the execution that creates it.
LEMMA PersistInv ==
  ASSUME Inv, RP!Inv, NEW j \in Executions, Persist(j)
  PROVE  Inv'
  <1> USE DEF Inv, Persist, RecordedStatus, GoTo, rollbackVars
  <1>1. TypeOK'
    BY RollbackTypes DEF TypeOK
  <1>2. OneWrite'
    BY OneWriteKept
  <1>3. GatesHeld'
    BY DEF TypeOK, GatesHeld
  <1>4. RecordsHaveAuthors'
    <2>1. \A k \in Executions : stage[k] = "recorded" => stage'[k] = "recorded"
      BY DEF TypeOK
    <2>2. CASE executionRecord[request[j].id] = None
      <3>1. stage'[j] = "recorded"
        BY <2>2 DEF TypeOK
      <3>2. \A i \in InitiatingIds : \/ executionRecord'[i] = executionRecord[i]
                                     \/ i = request[j].id /\ executionRecord'[i] = outcome[j]
        BY <2>2 DEF TypeOK
      <3>3. QED
        BY <2>1, <3>1, <3>2 DEF RecordsHaveAuthors
    <2>3. CASE executionRecord[request[j].id] # None
      BY <2>1, <2>3 DEF RecordsHaveAuthors
    <2>4. QED
      BY <2>2, <2>3
  <1>5. QED
    BY <1>1, <1>2, <1>3, <1>4

LEMMA DieInv ==
  ASSUME Inv, NEW j \in Executions, Die(j)
  PROVE  Inv'
  <1> USE DEF Inv, Die, GoTo, rollbackVars
  <1>1. TypeOK'
    BY DEF TypeOK
  <1>2. OneWrite'
    BY OneWriteKept
  <1>3. GatesHeld'
    BY DEF TypeOK, GatesHeld
  <1>4. RecordsHaveAuthors'
    BY DEF TypeOK, RecordsHaveAuthors
  <1>5. QED
    BY <1>1, <1>2, <1>3, <1>4

\* The versions an execution wrote, after a version by author a is added.
LEMMA WroteGrown ==
  ASSUME RP!Inv, NEW a \in RP!Jobs \union {Outside}, NEW e \in RP!Contents,
         log' = Append(log, e), author' = Append(author, a)
  PROVE  /\ Len(log') = Len(log) + 1
         /\ \A k : Wrote(k)' = Wrote(k) \union (IF a = k THEN {Len(log) + 1} ELSE {})
  <1>1. RP!Grown(e, a)
    BY PromotionAssumptions, RP!GrownByAppend DEF RP!Inv
  <1>2. Len(log') = Len(log) + 1 /\ Len(log) \in Nat
    BY <1>1, RollbackTypes DEF RP!Grown
  <1>3. ASSUME NEW k, NEW v
        PROVE  v \in Wrote(k)' <=> v \in Wrote(k) \union (IF a = k THEN {Len(log) + 1} ELSE {})
    <2>1. CASE v = Len(log) + 1
      BY <1>1, <1>2, <2>1 DEF RP!Grown, Wrote
    <2>2. CASE v # Len(log) + 1
      BY <1>1, <1>2, <2>2 DEF RP!Grown, Wrote
    <2>3. QED
      BY <2>1, <2>2
  <1>4. QED
    BY <1>2, <1>3

\* The steps of the rollback job leave the execution's own variables alone, keep the
\* id it was called with, and move its pc only.
LEMMA AroundRollback ==
  ASSUME Inv, RP!Inv, NEW j \in Executions, RP!Fail(j) \/ RP!RollbackStep(j)
  PROVE  /\ \A k \in Executions : request'[k].id = request[k].id
         /\ \A k \in Executions : k # j => pc'[k] = pc[k] /\ current'[k] = current[k]
         /\ pc[j] # "done"
  <1> USE DEF RP!GoTo, RP!argumentVars
  <1>1. CASE RP!CheckRollback(j)
    <2>1. /\ pc[j] = "start"
          /\ \A k \in Executions : k # j => pc'[k] = pc[k] /\ current'[k] = current[k]
      BY <1>1, RollbackTypes DEF RP!CheckRollback
    <2>2. PICK restore, expected :
            request' = [request EXCEPT ![j] =
              [restore |-> restore, expected |-> expected, id |-> request[j].id]]
      BY <1>1 DEF RP!CheckRollback
    <2>3. QED
      BY <2>1, <2>2, RollbackTypes
  <1>2. CASE RP!Fail(j)
    BY <1>2, RollbackTypes DEF RP!Fail, RP!Stopped
  <1>3. CASE RP!Write(j)
    BY <1>3, RollbackTypes DEF RP!Write, RP!LostAnswer
  <1>4. CASE RP!Reread(j) \/ RP!RecordRollback(j)
    BY <1>4, RollbackTypes DEF RP!Reread, RP!RecordRollback
  <1>5. QED
    BY <1>1, <1>2, <1>3, <1>4 DEF RP!RollbackStep

\* What the steps of rollback_capability do to the versions an execution wrote.
LEMMA OneWriteByRollback ==
  ASSUME Inv, RP!Inv, RP!Inv', NEW j \in Executions, RP!Fail(j) \/ RP!RollbackStep(j)
  PROVE  OneWrite'
  <1> USE DEF Inv, RP!GoTo, RP!versionVars, RP!recordVars, RP!argumentVars, RP!Active
  <1>1. SUFFICES /\ pc'[j] \in {"start", "checked", "conflict"} => Wrote(j)' = {}
                 /\ pc'[j] \in {"written", "reread", "done"} =>
                      current'[j] + 1 \in 1..Len(log') /\ Wrote(j)' = {current'[j] + 1}
                 /\ \A k \in Executions : k # j => Wrote(k)' = Wrote(k)
                 /\ Len(log') >= Len(log)
    <2>1. \A k \in Executions : k # j => pc'[k] = pc[k] /\ current'[k] = current[k]
      BY AroundRollback
    <2>2. Len(log) \in Nat /\ Len(log') \in Nat /\ \A k \in Executions : current[k] \in Nat
      BY RollbackTypes
    <2>3. QED
      BY <2>1, <2>2 DEF OneWrite
  <1>2. CASE RP!Fail(j)
    BY <1>2, RollbackTypes DEF RP!Fail, Wrote
  <1>3. CASE RP!CheckRollback(j)
    BY <1>3, RollbackTypes DEF RP!CheckRollback, OneWrite, Wrote
  <1>4. CASE RP!Write(j) /\ current[j] # Len(log)
    BY <1>4, RollbackTypes DEF RP!Write, RP!ParentHash, OneWrite, Wrote
  <1>5. CASE RP!Write(j) /\ current[j] = Len(log)
    <2>1. log' = Append(log, RP!Payload(j)) /\ author' = Append(author, j)
      BY <1>5 DEF RP!Write, RP!ParentHash
    <2>2. pc[j] = "checked" /\ pc'[j] \in {"written", "failed"} /\ current' = current
      BY <1>5, RollbackTypes DEF RP!Write, RP!ParentHash, RP!LostAnswer
    <2>3. RP!Payload(j) \in RP!Contents
      BY <2>2, PromotionAssumptions, RP!PayloadType DEF RP!Inv, RP!Jobs
    <2>4. /\ Len(log') = Len(log) + 1
          /\ \A k : Wrote(k)' = Wrote(k) \union (IF j = k THEN {Len(log) + 1} ELSE {})
      BY <2>1, <2>3, WroteGrown DEF RP!Jobs
    <2>5. Wrote(j) = {}
      BY <2>2 DEF OneWrite
    <2>6. Wrote(j)' = {current'[j] + 1} /\ current'[j] + 1 \in 1..Len(log')
      BY <1>5, <2>2, <2>4, <2>5, RollbackTypes
    <2>7. \A k \in Executions : k # j => Wrote(k)' = Wrote(k)
      BY <2>4
    <2>8. QED
      BY <2>2, <2>4, <2>6, <2>7, RollbackTypes
  <1>6. CASE RP!Reread(j)
    BY <1>6, RollbackTypes DEF RP!Reread, OneWrite, Wrote
  <1>7. CASE RP!RecordRollback(j)
    BY <1>7, RollbackTypes DEF RP!RecordRollback, OneWrite, Wrote
  <1>8. QED
    BY <1>2, <1>3, <1>4, <1>5, <1>6, <1>7 DEF RP!RollbackStep

LEMMA RollBackInv ==
  ASSUME Inv, RP!Inv, RP!Inv', NEW j \in Executions, RollBack(j)
  PROVE  Inv'
  <1>1. RP!Fail(j) \/ RP!RollbackStep(j)
    BY RollbackSteps DEF RollBack
  <1>2. TypeOK'
    BY DEF RollBack, Inv, TypeOK
  <1>3. OneWrite'
    BY <1>1, OneWriteByRollback
  <1>4. GatesHeld'
    BY <1>1, AroundRollback DEF RollBack, Inv, GatesHeld
  <1>5. RecordsHaveAuthors'
    BY <1>1, AroundRollback DEF RollBack, Inv, RecordsHaveAuthors
  <1>6. QED
    BY <1>2, <1>3, <1>4, <1>5 DEF Inv

LEMMA DeployInv ==
  ASSUME Inv, RP!Inv, Deploy
  PROVE  Inv'
  <1> USE DEF Deploy, R!DeployOutside, Inv
  <1>1. /\ Len(log') = Len(log) + 1
        /\ \A k \in Executions : Wrote(k)' = Wrote(k)
    BY WroteGrown, OutsideAssumption DEF RP!Contents
  <1>2. pc' = pc /\ request' = request /\ current' = current
    BY DEF R!argumentVars
  <1>3. TypeOK'
    BY DEF TypeOK
  <1>4. OneWrite'
    BY <1>1, <1>2, RollbackTypes DEF OneWrite
  <1>5. GatesHeld'
    BY <1>2 DEF GatesHeld
  <1>6. RecordsHaveAuthors'
    BY <1>2 DEF RecordsHaveAuthors
  <1>7. QED
    BY <1>3, <1>4, <1>5, <1>6

LEMMA StepInv == Inv /\ RP!Inv /\ RP!Inv' /\ [Next]_vars => Inv'
  <1> SUFFICES ASSUME Inv, RP!Inv, RP!Inv', [Next]_vars PROVE Inv'
    OBVIOUS
  <1>1. CASE UNCHANGED vars
    BY <1>1 DEF Inv, TypeOK, OneWrite, Wrote, GatesHeld, RecordsHaveAuthors, vars, rollbackVars
  <1>2. QED
    BY <1>1, DeployInv, DecideInv, RollBackInv, VerifyInv, PersistInv, DieInv DEF Next

LEMMA Invariance == Spec => []Inv
  BY InitInv, StepInv, PromotionInvariance, PTL DEF Spec

-----------------------------------------------------------------------------
\* The variables an execution adds to the rollback keep their types.
THEOREM TypeCorrect == Spec => []TypeOK
  BY Invariance, PTL DEF Inv

\* However many executions and deployments interleave and wherever they fail, no
\* version is rolled back behind the back of the gates.
THEOREM RollbacksAreGated == Spec => []NeverSilent
  <1>1. Inv => NeverSilent
    BY DEF Inv, OneWrite, GatesHeld, NeverSilent, MayProceed
  <1>2. QED
    BY <1>1, Invariance, PTL

\* A recorded outcome is true of the execution that recorded it, also when others ran
\* under the same initiating_job_id.
THEOREM OutcomesAreTrue == Spec => []RecordedOutcomeIsTrue
  <1>1. Inv => RecordedOutcomeIsTrue
    <2> SUFFICES ASSUME Inv, NEW i \in InitiatingIds, executionRecord[i] # None
                 PROVE  \E j \in Executions :
                          /\ request[j].id = i /\ outcome[j] = executionRecord[i]
                          /\ IF outcome[j] = "approval_rejected"
                             THEN Wrote(j) = {}
                             ELSE \E v \in 1..verified[j] : Wrote(j) = {v}
      BY DEF RecordedOutcomeIsTrue
    <2>1. PICK j \in Executions : request[j].id = i /\ outcome[j] = executionRecord[i]
      BY DEF Inv, RecordsHaveAuthors
    <2>2. CASE outcome[j] = "approval_rejected"
      BY <2>1, <2>2 DEF Inv, GatesHeld, OneWrite
    <2>3. CASE outcome[j] \in Verdicts
      <3>1. /\ current[j] + 1 \in 1..Len(log)
            /\ Wrote(j) = {current[j] + 1}
            /\ verified[j] >= current[j] + 1
            /\ verified[j] \in Nat
        BY <2>3 DEF Inv, GatesHeld, OneWrite, TypeOK
      <3>2. QED
        BY <2>1, <2>3, <3>1 DEF Verdicts
    <2>4. outcome[j] \in Statuses
      BY <2>1 DEF Inv, TypeOK
    <2>5. QED
      BY <2>2, <2>3, <2>4 DEF Statuses
  <1>2. QED
    BY <1>1, Invariance, PTL
=============================================================================
