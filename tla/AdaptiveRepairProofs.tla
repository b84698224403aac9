------------------------- MODULE AdaptiveRepairProofs --------------------------
(* Proofs about AdaptiveRepair for every set of runs and finalizers.  What a  *)
(* finalizer does to the active path is a promotion of module Promotion, so   *)
(* Promotion's invariant and the lemmas about its steps are instantiated.     *)
EXTENDS AdaptiveRepair, TLAPS

PP == INSTANCE PromotionProofs WITH
       Candidates <- Flows, PromotionJobs <- Finalizers, RollbackJobs <- {},
       InitiatingIds <- {}, Scripts <- {}, rollbackRecord <- <<>>, request <- <<>>

\* A candidate exists once it is generated, on top of the version its run inspected,
\* and only one that passed its tests is ready.
CandidatesPinned ==
  \A f \in Flows :
    /\ stage[f] \in {"reserving", "reserved"} => base[f] = 0
    /\ stage[f] \in {"generated", "tested", "ready"} => base[f] # 0
    /\ base[f] # 0 => base[f] = inspected[f]
    /\ stage[f] = "ready" => tests[f] = "passed"

\* A run that has got past its reservation owns the slot it holds.
SlotsOwned ==
  \A f \in Flows : stage[f] \in Working =>
    /\ attempt[f] \in Slots
    /\ slot[attempt[f]] # None
    /\ slot[attempt[f]].flow = f

\* A finalizer works on a run that is ready, and one that is done has written.
FinalizersApproved ==
  \A j \in Finalizers :
    /\ pc[j] # "start" => phase[j] # "idle"
    /\ phase[j] # "idle" => stage[Flow(j)] = "ready"
    /\ pc[j] = "done" => \E v \in 1..Len(log) : author[v] = j
    /\ phase[j] = "persisting" => result[j] \in RetryStatuses

\* A retry was started by the finalizer that promoted the candidate.
RetriesPromoted ==
  \A f \in Flows :
    /\ retries[f] <= 1
    /\ retries[f] = 1 =>
         \E j \in Finalizers : /\ Flow(j) = f
                               /\ pc[j] = "done"
                               /\ phase[j] \notin {"idle", "promoting"}

Inv == /\ TypeOK
       /\ PP!Inv
       /\ CandidatesPinned
       /\ SlotsOwned
       /\ FinalizersApproved
       /\ RetriesPromoted
-----------------------------------------------------------------------------
(* Promotion's part of the invariant.                                      *)

\* The assumptions of Promotion, for finalizers as its only jobs.
LEMMA PromotionAssumptions ==
  PP!JobsAssumption /\ PP!ScriptsAssumption /\ PP!BoundAssumption /\ PP!NoneAssumption
  BY OutsideAssumption, BoundAssumption, NoneAssumption
  DEF PP!Jobs, PP!ScriptsAssumption, P!Record

LEMMA PromotionInitially == Init => PP!Inv
  <1> SUFFICES ASSUME Init PROVE PP!Init
    BY PromotionAssumptions, PP!InitInv
  <1>1. QED
    BY DEF Init, PP!Init, PP!Jobs

\* P and PP name the same module, with and without its proofs.
LEMMA PromotionSteps ==
  /\ P!DeployOutside => PP!DeployOutside
  /\ \A f : P!CreateCandidate(f) => PP!CreateCandidate(f)
  /\ \A j : P!PromotionStep(j) => PP!PromotionStep(j)
  /\ \A j : P!Fail(j) => PP!Fail(j)
  <1> USE DEF P!GoTo, PP!GoTo, P!versionVars, PP!versionVars, P!recordVars, PP!recordVars,
              P!argumentVars, PP!argumentVars, P!Active, PP!Active
  <1>1. P!DeployOutside => PP!DeployOutside
    BY DEF P!DeployOutside, PP!DeployOutside
  <1>2. ASSUME NEW f PROVE P!CreateCandidate(f) => PP!CreateCandidate(f)
    BY DEF P!CreateCandidate, PP!CreateCandidate
  <1>3. ASSUME NEW j PROVE P!PromotionStep(j) => PP!PromotionStep(j)
    BY DEF P!PromotionStep, PP!PromotionStep, P!CheckBase, PP!CheckBase, P!StillOnBase, PP!StillOnBase,
         P!Write, PP!Write, P!Reread, PP!Reread, P!RecordPromotion, PP!RecordPromotion,
         P!Payload, PP!Payload, P!Version, PP!Version, P!ParentHash, PP!ParentHash, P!LostAnswer, PP!LostAnswer,
         P!Provenance, PP!Provenance
  <1>4. ASSUME NEW j PROVE P!Fail(j) => PP!Fail(j)
    BY DEF P!Fail, PP!Fail, P!Stopped, PP!Stopped
  <1>5. QED
    BY <1>1, <1>2, <1>3, <1>4

\* Every step but an approval is one of Promotion's, or leaves the active path alone.
LEMMA StepIsPromotion ==
  ASSUME [Next]_vars, \A j \in Finalizers : ~Approve(j)
  PROVE  [PP!Next]_(PP!vars)
  <1>1. CASE UNCHANGED promotionVars
    BY <1>1 DEF promotionVars, PP!vars
  <1>2. CASE P!DeployOutside
    BY <1>2, PromotionSteps DEF PP!Next
  <1>3. ASSUME NEW f \in Flows, Prepare(f), ~UNCHANGED promotionVars
        PROVE  PP!Next
    <2>1. Generate(f)
      BY <1>3 DEF Prepare, Reserve, Exhaust, Inspect, Test, Stop, Finish, Ready, Abort
    <2>2. QED
      BY <2>1, PromotionSteps DEF Generate, PP!Next
  <1>4. ASSUME NEW j \in Finalizers, Finalize(j), ~UNCHANGED promotionVars
        PROVE  PP!Next
    <2>1. Promote(j)
      BY <1>4 DEF Finalize, Reject, GiveUp, CannotRetry, Retry, Wait, Persist, Die, Decided
    <2>2. QED
      BY <2>1, PromotionSteps DEF Promote, PP!Next, PP!Jobs
  <1>5. QED
    BY <1>1, <1>2, <1>3, <1>4 DEF Next, vars, Deploy

\* Types and bounds that the proofs need of Promotion's variables.
LEMMA PromotionTypes ==
  ASSUME PP!Inv
  PROVE  /\ Len(log) \in Nat \ {0}
         /\ log \in Seq(PP!Contents)
         /\ base \in [Flows -> Nat]
         /\ pc \in [Finalizers -> PP!Steps]
         /\ prepared \in [Finalizers -> [candidate : Flows, base : Nat]]
         /\ approval \in [Finalizers -> {"none", "granted", "unattributed"}]
         /\ \A j \in Finalizers : Flow(j) \in Flows
  BY DEF PP!Inv, PP!TypeOK, PP!Jobs, Flow

\* A finalizer that has not started has written nothing.
LEMMA IdleWroteNothing ==
  ASSUME Inv, NEW j \in Finalizers, pc[j] \in {"start", "suspended", "approved", "checked"}
  PROVE  \A v \in 1..Len(log) : author[v] # j
  BY DEF Inv, PP!Inv, PP!AuthorsWrote, PP!Jobs

\* An approval prepares a promotion in one step: base version, approver and job.
LEMMA ApproveKeepsPromotion ==
  ASSUME Inv, NEW j \in Finalizers, Approve(j)
  PROVE  PP!Inv'
  <1> USE PromotionTypes DEF Inv, PP!Inv, Approve, PP!Jobs, PP!Active
  <1>1. /\ pc[j] = "start"
        /\ base[Flow(j)] >= 1
        /\ \A v \in 1..Len(log) : author[v] # j
    BY IdleWroteNothing DEF FinalizersApproved, CandidatesPinned
  <1>2. /\ pc' = [pc EXCEPT ![j] = "approved"]
        /\ \A k \in Finalizers : k # j => /\ prepared'[k] = prepared[k]
                                          /\ approval'[k] = approval[k]
                                          /\ pc'[k] = pc[k]
        /\ pc'[j] = "approved"
        /\ approval'[j] = "granted"
        /\ prepared'[j] = [candidate |-> Flow(j), base |-> base[Flow(j)]]
    BY DEF Flow
  <1>3. PP!TypeOK'
    BY <1>2 DEF PP!TypeOK, PP!Steps, PP!Running, PP!Stopped
  <1>4. PP!AuthorsWrote'
    BY <1>1, <1>2 DEF PP!AuthorsWrote
  <1>5. PP!Bounded'
    BY DEF PP!Bounded
  <1>6. PP!PreparedPinned'
    <2>1. base' = base
      OBVIOUS
    <2>2. prepared'[j].base = base[Flow(j)] /\ prepared'[j].candidate = Flow(j)
      BY <1>2
    <2>3. ASSUME NEW k \in Finalizers, k # j, pc'[k] \notin {"start", "failed"}
          PROVE  prepared'[k].base >= 1 /\ prepared'[k].base = base[prepared'[k].candidate]
      BY <1>2, <2>3 DEF PP!PreparedPinned
    <2>4. QED
      BY <1>1, <2>1, <2>2, <2>3 DEF PP!PreparedPinned
  <1>7. PP!CheckedInv'
    BY <1>2 DEF PP!CheckedInv
  <1>8. PP!WrittenInv'
    BY <1>2 DEF PP!WrittenInv
  <1>9. PP!PromotionSound'
    BY <1>1, <1>2 DEF PP!PromotionSound
  <1>10. PP!ConflictIsReal'
    BY <1>2 DEF PP!ConflictIsReal
  <1>11. PP!RollbackSound'
    BY DEF PP!RollbackSound
  <1>12. PP!RecordsHappened'
    BY DEF PP!RecordsHappened
  <1>13. QED
    BY <1>3, <1>4, <1>5, <1>6, <1>7, <1>8, <1>9, <1>10, <1>11, <1>12

LEMMA PromotionKept == Inv /\ [Next]_vars => PP!Inv'
  <1>1. ASSUME Inv, [Next]_vars, \A j \in Finalizers : ~Approve(j) PROVE PP!Inv'
    BY <1>1, StepIsPromotion, PromotionAssumptions, PP!StepInv DEF Inv
  <1>2. QED
    BY <1>1, ApproveKeepsPromotion
-----------------------------------------------------------------------------
(* The rest of the invariant.                                              *)

LEMMA InitInv == Init => Inv
  <1> SUFFICES ASSUME Init PROVE Inv
    OBVIOUS
  <1>1. TypeOK
    BY AttemptsAssumption DEF Init, TypeOK, Slots
  <1>2. CandidatesPinned /\ SlotsOwned
    BY DEF Init, CandidatesPinned, SlotsOwned, Working
  <1>3. FinalizersApproved /\ RetriesPromoted
    BY DEF Init, FinalizersApproved, RetriesPromoted
  <1>4. QED
    BY <1>1, <1>2, <1>3, PromotionInitially DEF Inv

\* The status of a preparation overwrites the slot its run holds.
LEMMA FinishInv ==
  ASSUME Inv, NEW f \in Flows, NEW status \in Statuses, Finish(f, status),
         stage[f] \in {"reserved", "generated", "tested"},
         status = "ready_for_approval" => stage[f] = "tested" /\ TestsPassed(f)
  PROVE  TypeOK' /\ CandidatesPinned' /\ SlotsOwned'
  <1>1. attempt[f] \in Slots /\ slot[attempt[f]] # None /\ slot[attempt[f]].flow = f
    BY DEF Inv, SlotsOwned, Working
  <1>2. /\ slot' = [slot EXCEPT ![attempt[f]] = [flow |-> f, status |-> status]]
        /\ UNCHANGED <<base, attempt, inspected, tests, phase, result, retries>>
        /\ stage' = [stage EXCEPT ![f] = stage'[f]]
        /\ stage'[f] \in {"ready", "stopped", "error"}
        /\ stage'[f] = "ready" => stage[f] = "tested" /\ tests[f] = "passed"
    BY DEF Finish, FlowGoesTo, promotionVars, finalizerVars, TestsPassed, Inv, TypeOK
  <1>3. TypeOK'
    BY <1>1, <1>2 DEF Inv, TypeOK, Reservation
  <1>4. CandidatesPinned'
    BY <1>2 DEF Inv, TypeOK, CandidatesPinned
  <1>5. SlotsOwned'
    <2>1. [flow |-> f, status |-> status] # None
      BY NoneAssumption DEF Reservation
    <2>2. ASSUME NEW k \in Slots
          PROVE  slot'[k] = IF k = attempt[f] THEN [flow |-> f, status |-> status] ELSE slot[k]
      BY <1>2 DEF Inv, TypeOK
    <2>3. ASSUME NEW g \in Flows, stage'[g] \in Working
          PROVE  stage[g] \in Working
      BY <1>2, <2>3 DEF Inv, TypeOK, Working
    <2>4. QED
      BY <1>1, <1>2, <2>1, <2>2, <2>3 DEF Inv, SlotsOwned
  <1>6. QED
    BY <1>3, <1>4, <1>5

\* A create of a free slot takes it; whatever else happens, no slot changes its owner.
LEMMA ReserveInv ==
  ASSUME Inv, NEW f \in Flows, Reserve(f)
  PROVE  TypeOK' /\ CandidatesPinned' /\ SlotsOwned'
  <1> DEFINE k == attempt[f]
  <1> USE DEF Inv
  <1>1. /\ stage[f] = "reserving" /\ k \in Slots /\ k + 1 \in 1..(MaxAttempts + 1)
        /\ UNCHANGED <<base, inspected, tests, phase, result, retries>>
        /\ \A g \in Flows : g # f => stage'[g] = stage[g] /\ attempt'[g] = attempt[g]
        /\ attempt' \in [Flows -> 1..(MaxAttempts + 1)]
    <2>1. stage[f] = "reserving" /\ k \in Slots /\ k + 1 \in 1..(MaxAttempts + 1)
      BY AttemptsAssumption DEF Reserve, TypeOK, Slots
    <2>2. UNCHANGED <<base, inspected, tests, phase, result, retries>>
      BY DEF Reserve, promotionVars, finalizerVars
    <2>3. /\ attempt' = attempt \/ attempt' = [attempt EXCEPT ![f] = k + 1]
          /\ stage' = stage \/ stage' = [stage EXCEPT ![f] = "reserved"]
      BY DEF Reserve, FlowGoesTo
    <2>4. QED
      BY <2>1, <2>2, <2>3 DEF TypeOK
  <1>2. [flow |-> f, status |-> "reserved"] \in Reservation
    BY DEF Reservation, Statuses
  <1>3. CASE slot[k] = None
    <2>1. /\ slot' = [slot EXCEPT ![k] = [flow |-> f, status |-> "reserved"]]
          /\ stage' \in {stage, [stage EXCEPT ![f] = "reserved"]}
          /\ stage'[f] = "reserved" => attempt'[f] = k
      BY <1>1, <1>3 DEF Reserve, FreeSlot, FlowGoesTo, TypeOK
    <2>2. TypeOK'
      BY <1>1, <1>2, <2>1 DEF TypeOK
    <2>3. CandidatesPinned'
      BY <1>1, <2>1 DEF TypeOK, CandidatesPinned
    <2>4. slot'[k] = [flow |-> f, status |-> "reserved"] /\ \A n \in Slots : n # k => slot'[n] = slot[n]
      BY <1>1, <2>1 DEF TypeOK
    <2>5. ASSUME NEW g \in Flows, g # f, stage'[g] \in Working
          PROVE  attempt[g] \in Slots /\ slot'[attempt[g]] = slot[attempt[g]]
      BY <1>1, <1>3, <2>4, <2>5 DEF SlotsOwned
    <2>6. stage'[f] \in Working => attempt'[f] = k
      BY <1>1, <2>1 DEF TypeOK, Working
    <2>7. SlotsOwned'
      BY <1>1, <1>2, <2>4, <2>5, <2>6, NoneAssumption DEF SlotsOwned
    <2>8. QED
      BY <2>2, <2>3, <2>7
  <1>4. CASE slot[k] # None
    <2>1. slot' = slot /\ stage' = stage
      BY <1>4 DEF Reserve, FreeSlot
    <2>2. QED
      BY <1>1, <2>1 DEF TypeOK, CandidatesPinned, SlotsOwned, Working
  <1>5. QED
    BY <1>3, <1>4

\* A run's preparation moves only itself, and never once it is ready.
LEMMA PrepareLeavesFinalizers ==
  ASSUME Inv, NEW f \in Flows, Prepare(f)
  PROVE  FinalizersApproved' /\ RetriesPromoted'
  <1>1. /\ stage[f] # "ready"
        /\ \A g \in Flows : g # f => stage'[g] = stage[g]
        /\ UNCHANGED <<log, author, pc, prepared, phase, result, retries>>
    <2> USE DEF Inv, TypeOK, FlowGoesTo, promotionVars, finalizerVars
    <2>1. CASE Reserve(f) \/ Exhaust(f) \/ Inspect(f) \/ Test(f) \/ Abort(f)
      BY <2>1 DEF Reserve, Exhaust, Inspect, Test, Abort
    <2>2. CASE Generate(f)
      BY <2>2 DEF Generate, P!CreateCandidate, P!versionVars, P!argumentVars
    <2>3. CASE Stop(f) \/ Ready(f)
      BY <2>3 DEF Stop, Ready, Finish
    <2>4. QED
      BY <2>1, <2>2, <2>3 DEF Prepare
  <1>2. \A j \in Finalizers : Flow(j)' = Flow(j) /\ Flow(j) \in Flows
    BY <1>1, PromotionTypes DEF Inv, Flow
  <1>3. FinalizersApproved'
    BY <1>1, <1>2 DEF Inv, FinalizersApproved
  <1>4. RetriesPromoted'
    BY <1>1, <1>2 DEF Inv, RetriesPromoted
  <1>5. QED
    BY <1>3, <1>4

LEMMA PrepareInv ==
  ASSUME Inv, PP!Inv', NEW f \in Flows, Prepare(f)
  PROVE  Inv'
  <1> USE PromotionTypes
  <1>1. SUFFICES TypeOK' /\ CandidatesPinned' /\ SlotsOwned'
    BY PrepareLeavesFinalizers DEF Inv
  <1>2. CASE Exhaust(f) \/ Abort(f)
    <2>1. /\ stage' \in {[stage EXCEPT ![f] = "exhausted"], [stage EXCEPT ![f] = "error"]}
          /\ UNCHANGED <<base, slot, attempt, inspected, tests, phase, result, retries>>
      BY <1>2 DEF Exhaust, Abort, FlowGoesTo, promotionVars, finalizerVars
    <2>2. TypeOK'
      BY <2>1 DEF Inv, TypeOK
    <2>3. CandidatesPinned'
      BY <2>1 DEF Inv, TypeOK, CandidatesPinned
    <2>4. SlotsOwned'
      BY <2>1 DEF Inv, TypeOK, SlotsOwned, Working
    <2>5. QED
      BY <2>2, <2>3, <2>4
  <1>3. CASE Inspect(f)
    BY <1>3 DEF Inspect, P!Active, promotionVars, finalizerVars,
                Inv, TypeOK, CandidatesPinned, SlotsOwned, Working
  <1>4. CASE Generate(f)
    <2>1. /\ stage[f] = "reserved" /\ stage' = [stage EXCEPT ![f] = "generated"]
          /\ base'[f] = inspected[f] /\ inspected[f] # 0
          /\ \A g \in Flows : g # f => base'[g] = base[g]
          /\ UNCHANGED <<slot, attempt, inspected, tests, phase, result, retries>>
      BY <1>4 DEF Generate, P!CreateCandidate, FlowGoesTo, finalizerVars, Inv
    <2>2. QED
      BY <2>1 DEF Inv, TypeOK, CandidatesPinned, SlotsOwned, Working
  <1>5. CASE Test(f)
    <2>1. /\ stage[f] = "generated" /\ stage' = [stage EXCEPT ![f] = "tested"]
          /\ \E t \in {"passed", "failed", "empty"} : tests' = [tests EXCEPT ![f] = t]
          /\ UNCHANGED <<base, slot, attempt, inspected, phase, result, retries>>
      BY <1>5 DEF Test, FlowGoesTo, promotionVars, finalizerVars, Inv, TypeOK
    <2>2. TypeOK'
      BY <2>1 DEF Inv, TypeOK
    <2>3. CandidatesPinned'
      BY <2>1 DEF Inv, TypeOK, CandidatesPinned
    <2>4. SlotsOwned'
      BY <2>1 DEF Inv, TypeOK, SlotsOwned, Working
    <2>5. QED
      BY <2>2, <2>3, <2>4
  <1>6. CASE Stop(f) \/ Ready(f)
    BY <1>6, FinishInv DEF Stop, Ready, Statuses, PreparationStops
  <1>7. QED
    BY <1>2, <1>3, <1>4, <1>5, <1>6, ReserveInv DEF Prepare

\* The flow a finalizer was given never changes, and neither does a run's preparation.
LEMMA FinalizeLeavesPreparation ==
  ASSUME Inv, PP!Inv', NEW j \in Finalizers, Finalize(j)
  PROVE  /\ UNCHANGED preparationVars
         /\ base' = base
         /\ \A k \in Finalizers : Flow(k)' = Flow(k) /\ Flow(k) \in Flows
         /\ \A k \in Finalizers : k # j => phase'[k] = phase[k] /\ pc'[k] = pc[k]
         /\ CandidatesPinned'
  <1> USE PromotionTypes DEF Inv, TypeOK, FinalizerGoesTo, promotionVars, finalizerVars
  <1>1. CASE Promote(j)
    <2>1. PP!PromotionStep(j) \/ PP!Fail(j)
      BY <1>1, PromotionSteps DEF Promote
    <2>2. /\ UNCHANGED <<base, prepared>>
          /\ \A k \in Finalizers : k # j => pc'[k] = pc[k]
      BY <2>1 DEF PP!PromotionStep, PP!CheckBase, PP!Write, PP!Reread, PP!RecordPromotion, PP!Fail,
                  PP!GoTo, PP!argumentVars, PP!LostAnswer
    <2>3. UNCHANGED <<preparationVars, phase>>
      BY <1>1 DEF Promote
    <2>4. QED
      BY <2>2, <2>3 DEF Flow, preparationVars, CandidatesPinned
  <1>2. CASE Approve(j)
    <2>1. UNCHANGED <<base, preparationVars>> /\ \A k \in Finalizers : prepared'[k].candidate = prepared[k].candidate
      BY <1>2 DEF Approve
    <2>2. \A k \in Finalizers : k # j => phase'[k] = phase[k] /\ pc'[k] = pc[k]
      BY <1>2 DEF Approve
    <2>3. QED
      BY <2>1, <2>2 DEF Flow, preparationVars, CandidatesPinned
  <1>3. CASE ~Promote(j) /\ ~Approve(j)
    <2>1. UNCHANGED <<base, prepared, pc, preparationVars>> /\ \A k \in Finalizers : k # j => phase'[k] = phase[k]
      BY <1>3 DEF Finalize, Reject, GiveUp, CannotRetry, Retry, Wait, Persist, Die, Decided
    <2>2. QED
      BY <2>1 DEF Flow, preparationVars, CandidatesPinned
  <1>4. QED
    BY <1>1, <1>2, <1>3

\* _persist overwrites the slot of the finalizer's own run.
LEMMA FinalizeKeepsSlots ==
  ASSUME Inv, PP!Inv', NEW j \in Finalizers, Finalize(j)
  PROVE  SlotsOwned' /\ slot' \in [Slots -> Reservation \union {None}]
  <1>1. UNCHANGED <<stage, attempt>>
    BY FinalizeLeavesPreparation DEF preparationVars
  <1>2. CASE Persist(j)
    <2>1. /\ Flow(j) \in Flows
          /\ stage[Flow(j)] = "ready"
          /\ SlotOf(j) \in Slots /\ slot[SlotOf(j)].flow = Flow(j)
          /\ slot' = [slot EXCEPT ![SlotOf(j)] = [flow |-> Flow(j), status |-> result[j]]]
      BY <1>2, PromotionTypes DEF Persist, Inv, FinalizersApproved, SlotsOwned, SlotOf, Working
    <2>2. result[j] \in Statuses
      BY <1>2 DEF Persist, Inv, FinalizersApproved, Statuses
    <2>3. [flow |-> Flow(j), status |-> result[j]] \in Reservation
      BY <2>1, <2>2 DEF Reservation
    <2>4. slot' \in [Slots -> Reservation \union {None}]
      BY <2>1, <2>3 DEF Inv, TypeOK
    <2>5. ASSUME NEW k \in Slots
          PROVE  slot'[k] = IF k = SlotOf(j) THEN [flow |-> Flow(j), status |-> result[j]] ELSE slot[k]
      BY <2>1 DEF Inv, TypeOK
    <2>6. [flow |-> Flow(j), status |-> result[j]] # None
      BY <2>3, NoneAssumption
    <2>7. SlotsOwned'
      BY <1>1, <2>1, <2>5, <2>6 DEF Inv, SlotsOwned
    <2>8. QED
      BY <2>4, <2>7
  <1>3. CASE ~Persist(j)
    <2>1. slot' = slot
      BY <1>3 DEF Finalize, Approve, Reject, Promote, GiveUp, CannotRetry, Retry, Wait, Die, Decided
    <2>2. QED
      BY <1>1, <2>1 DEF Inv, TypeOK, SlotsOwned
  <1>4. QED
    BY <1>2, <1>3

\* A promotion that completes leaves its version behind, and no version ever goes away.
LEMMA PromotionsLeaveVersions ==
  ASSUME Inv, PP!Inv', NEW j \in Finalizers, PP!PromotionStep(j) \/ PP!Fail(j)
  PROVE  /\ \A k \in Finalizers : (\E v \in 1..Len(log) : author[v] = k)
                                    => \E v \in 1..Len(log') : author'[v] = k
         /\ pc'[j] = "done" => \E v \in 1..Len(log') : author'[v] = j
         /\ pc[j] # "done"
         /\ pc'[j] # "start"
  <1> USE PromotionTypes DEF Inv, PP!GoTo, PP!versionVars
  <1>1. CASE PP!RecordPromotion(j)
    <2>1. pc[j] = "reread" /\ UNCHANGED <<log, author>> /\ pc'[j] # "start"
      BY <1>1 DEF PP!RecordPromotion
    <2>2. author[current[j] + 1] = j /\ current[j] + 1 \in 1..Len(log)
      BY <2>1 DEF PP!Inv, PP!WrittenInv, PP!TypeOK, PP!Jobs
    <2>3. QED
      BY <2>1, <2>2
  <1>2. CASE PP!Write(j)
    <2>1. pc[j] = "checked" /\ pc'[j] \in {"written", "failed", "conflict"}
      BY <1>2 DEF PP!Write, PP!LostAnswer
    <2>2. CASE UNCHANGED <<log, author>>
      BY <2>1, <2>2
    <2>3. CASE log' = Append(log, PP!Payload(j)) /\ author' = Append(author, j)
      <3>1. PP!Payload(j) \in PP!Contents
        BY <2>1, PromotionAssumptions, PP!PayloadType DEF PP!Inv, PP!Jobs
      <3>2. PP!Grown(PP!Payload(j), j)
        BY <2>3, <3>1, PromotionAssumptions, PP!GrownByAppend DEF PP!Inv, PP!Jobs
      <3>3. \A v \in 1..Len(log) : v \in 1..Len(log') /\ author'[v] = author[v]
        BY <3>2 DEF PP!Grown
      <3>4. QED
        BY <2>1, <3>3
    <2>4. QED
      BY <1>2, <2>2, <2>3 DEF PP!Write
  <1>3. CASE PP!CheckBase(j)
    BY <1>3 DEF PP!CheckBase
  <1>4. CASE PP!Reread(j)
    BY <1>4 DEF PP!Reread
  <1>5. CASE PP!Fail(j)
    BY <1>5 DEF PP!Fail, PP!Stopped
  <1>6. QED
    BY <1>1, <1>2, <1>3, <1>4, <1>5 DEF PP!PromotionStep

\* The base version of a candidate has one successor, so one finalizer at most has
\* promoted it.
LEMMA OneFinalizerPromotes ==
  ASSUME Inv, NEW j \in Finalizers, NEW k \in Finalizers, pc[j] = "done", pc[k] = "done",
         Flow(j) = Flow(k)
  PROVE  j = k
  <1>1. PICK v \in 1..Len(log) : author[v] = j
    BY DEF Inv, FinalizersApproved
  <1>2. PICK w \in 1..Len(log) : author[w] = k
    BY DEF Inv, FinalizersApproved
  <1>3. base[Flow(j)] = v - 1 /\ base[Flow(k)] = w - 1
    BY <1>1, <1>2 DEF Inv, PP!Inv, PP!PromotionSound, Flow
  <1>4. v = w
    BY <1>3
  <1>5. QED
    BY <1>1, <1>2, <1>4

LEMMA FinalizersApprovedStep ==
  ASSUME Inv, PP!Inv', NEW j \in Finalizers, Finalize(j)
  PROVE  /\ FinalizersApproved'
         /\ phase' \in [Finalizers -> {"idle", "promoting", "retrying", "persisting", "ended"}]
         /\ result' \in [Finalizers -> RetryStatuses \union {None}]
  <1> DEFINE Authored(k) == \E v \in 1..Len(log) : author[v] = k
  <1>1. /\ stage' = stage
        /\ \A k \in Finalizers : Flow(k)' = Flow(k)
        /\ \A k \in Finalizers : k # j => phase'[k] = phase[k] /\ pc'[k] = pc[k]
    BY FinalizeLeavesPreparation DEF preparationVars
  <1>2. ASSUME /\ \A k \in Finalizers : Authored(k) => Authored(k)'
               /\ \A k \in Finalizers : k # j => result'[k] = result[k]
               /\ pc'[j] # "start" => phase'[j] # "idle"
               /\ stage[Flow(j)] = "ready"
               /\ pc'[j] = "done" => Authored(j)'
               /\ phase'[j] = "persisting" => result'[j] \in RetryStatuses
        PROVE  FinalizersApproved'
    <2>1. \A k \in Finalizers : k # j =>
            /\ pc'[k] # "start" => phase'[k] # "idle"
            /\ phase'[k] # "idle" => stage'[Flow(k)'] = "ready"
            /\ pc'[k] = "done" => Authored(k)'
            /\ phase'[k] = "persisting" => result'[k] \in RetryStatuses
      BY <1>1, <1>2 DEF Inv, FinalizersApproved
    <2>2. /\ pc'[j] # "start" => phase'[j] # "idle"
          /\ phase'[j] # "idle" => stage'[Flow(j)'] = "ready"
          /\ pc'[j] = "done" => Authored(j)'
          /\ phase'[j] = "persisting" => result'[j] \in RetryStatuses
      BY <1>1, <1>2
    <2>3. QED
      BY <2>1, <2>2 DEF FinalizersApproved
  <1> USE DEF Inv, TypeOK, FinalizerGoesTo
  <1>3. CASE Promote(j)
    <2>1. PP!PromotionStep(j) \/ PP!Fail(j)
      BY <1>3, PromotionSteps DEF Promote
    <2>2. /\ UNCHANGED <<phase, result>>
          /\ phase[j] = "promoting"
          /\ stage[Flow(j)] = "ready"
      BY <1>3 DEF Promote, finalizerVars, FinalizersApproved
    <2>3. /\ \A k \in Finalizers : Authored(k) => Authored(k)'
          /\ pc'[j] = "done" => Authored(j)'
      BY <2>1, PromotionsLeaveVersions
    <2>4. QED
      BY <1>2, <2>2, <2>3
  <1>4. CASE Approve(j)
    <2>1. /\ stage[Flow(j)] = "ready" /\ phase' = [phase EXCEPT ![j] = "promoting"]
          /\ pc' = [pc EXCEPT ![j] = "approved"]
          /\ UNCHANGED <<log, author, result>>
      BY <1>4 DEF Approve
    <2>2. phase'[j] = "promoting" /\ pc'[j] = "approved"
      BY <2>1, PromotionTypes
    <2>3. QED
      BY <1>2, <2>1, <2>2
  <1>5. CASE ~Promote(j) /\ ~Approve(j)
    <2>1. UNCHANGED <<log, author, pc>>
      BY <1>5 DEF Finalize, Reject, GiveUp, CannotRetry, Retry, Wait, Persist, Die, Decided, promotionVars
    <2>2. \/ /\ phase' = [phase EXCEPT ![j] = "persisting"]
             /\ \E status \in RetryStatuses : result' = [result EXCEPT ![j] = status]
          \/ /\ phase' \in {[phase EXCEPT ![j] = "retrying"], [phase EXCEPT ![j] = "ended"]}
             /\ result' = result
      BY <1>5 DEF Finalize, Reject, GiveUp, CannotRetry, Retry, Wait, Persist, Die, Decided, RetryStatuses
    <2>3. stage[Flow(j)] = "ready" /\ (pc[j] = "done" => Authored(j))
      <3>1. phase[j] # "idle" \/ stage[Flow(j)] = "ready"
        BY <1>5 DEF Finalize, Reject, GiveUp, CannotRetry, Retry, Wait, Persist, Die
      <3>2. QED
        BY <3>1 DEF FinalizersApproved
    <2>4. /\ phase' \in [Finalizers -> {"idle", "promoting", "retrying", "persisting", "ended"}]
          /\ result' \in [Finalizers -> RetryStatuses \union {None}]
          /\ \A k \in Finalizers : k # j => result'[k] = result[k]
          /\ phase'[j] # "idle"
          /\ phase'[j] = "persisting" => result'[j] \in RetryStatuses
      BY <2>2
    <2>5. QED
      BY <1>2, <2>1, <2>3, <2>4
  <1>6. QED
    BY <1>3, <1>4, <1>5

LEMMA RetriesPromotedStep ==
  ASSUME Inv, PP!Inv', NEW j \in Finalizers, Finalize(j)
  PROVE  RetriesPromoted' /\ retries' \in [Flows -> Nat]
  <1> DEFINE Retried(k) == pc[k] = "done" /\ phase[k] \notin {"idle", "promoting"}
  <1>1. /\ \A k \in Finalizers : Flow(k)' = Flow(k) /\ Flow(k) \in Flows
        /\ \A k \in Finalizers : k # j => (Retried(k)' <=> Retried(k))
    BY FinalizeLeavesPreparation
  <1> USE DEF Inv, TypeOK, FinalizerGoesTo
  <1>2. CASE Retry(j)
    <2>1. /\ phase[j] = "promoting" /\ pc[j] = "done"
          /\ retries' = [retries EXCEPT ![Flow(j)] = @ + 1]
          /\ phase' = [phase EXCEPT ![j] = "retrying"]
          /\ pc' = pc
      BY <1>2 DEF Retry, PromotionDone, promotionVars
    <2>2. retries[Flow(j)] = 0
      <3>1. retries[Flow(j)] \in {0, 1}
        BY <1>1 DEF RetriesPromoted
      <3>2. ASSUME NEW k \in Finalizers, Flow(k) = Flow(j), Retried(k)
            PROVE  FALSE
        <4>1. k = j
          BY <2>1, <3>2, OneFinalizerPromotes
        <4>2. QED
          BY <2>1, <3>2, <4>1
      <3>3. QED
        BY <1>1, <3>1, <3>2 DEF RetriesPromoted
    <2>3. retries'[Flow(j)] = 1 /\ Retried(j)'
      BY <1>1, <2>1, <2>2
    <2>4. ASSUME NEW f \in Flows, f # Flow(j)
          PROVE  /\ retries'[f] <= 1
                 /\ retries'[f] = 1 => \E k \in Finalizers : Flow(k)' = f /\ Retried(k)'
      <3>1. retries'[f] = retries[f]
        BY <2>1, <2>4
      <3>2. \A k \in Finalizers : Flow(k) = f => k # j
        BY <2>4
      <3>3. QED
        BY <1>1, <3>1, <3>2 DEF RetriesPromoted
    <2>5. RetriesPromoted'
      BY <1>1, <2>3, <2>4 DEF RetriesPromoted
    <2>6. QED
      BY <1>1, <2>1, <2>5
  <1>3. CASE ~Retry(j)
    <2>1. retries' = retries
      BY <1>3 DEF Finalize, Approve, Reject, Promote, GiveUp, CannotRetry, Wait, Persist, Die, Decided,
                  finalizerVars
    <2>2. Retried(j) => Retried(j)'
      BY <1>3 DEF Finalize, Approve, Reject, Promote, GiveUp, CannotRetry, Wait, Persist, Die,
                  Decided, promotionVars
    <2>3. QED
      BY <1>1, <2>1, <2>2 DEF RetriesPromoted
  <1>4. QED
    BY <1>2, <1>3

LEMMA FinalizeInv ==
  ASSUME Inv, PP!Inv', NEW j \in Finalizers, Finalize(j)
  PROVE  Inv'
  <1>1. TypeOK'
    BY FinalizeLeavesPreparation, FinalizeKeepsSlots, FinalizersApprovedStep, RetriesPromotedStep
    DEF Inv, TypeOK, preparationVars
  <1>2. QED
    BY <1>1, FinalizeLeavesPreparation, FinalizeKeepsSlots, FinalizersApprovedStep, RetriesPromotedStep
    DEF Inv

LEMMA DeployInv ==
  ASSUME Inv, PP!Inv', Deploy
  PROVE  Inv'
  <1>1. UNCHANGED <<base, pc, prepared, slot, stage, attempt, inspected, tests, phase, result, retries>>
    BY DEF Deploy, P!DeployOutside, P!argumentVars, preparationVars, finalizerVars
  <1>2. \A v \in 1..Len(log) : v \in 1..Len(log') /\ author'[v] = author[v]
    <2>1. PP!Grown(Edited, Outside)
      BY PromotionAssumptions, PP!GrownByAppend DEF Deploy, P!DeployOutside, Inv, PP!Inv, PP!Contents
    <2>2. QED
      BY <2>1, PromotionTypes DEF PP!Grown, Inv
  <1>3. TypeOK' /\ CandidatesPinned' /\ SlotsOwned'
    BY <1>1 DEF Inv, TypeOK, CandidatesPinned, SlotsOwned
  <1>4. FinalizersApproved'
    BY <1>1, <1>2 DEF Inv, FinalizersApproved, Flow
  <1>5. RetriesPromoted'
    BY <1>1 DEF Inv, RetriesPromoted, Flow
  <1>6. QED
    BY <1>3, <1>4, <1>5 DEF Inv

LEMMA StepInv == Inv /\ [Next]_vars => Inv'
  <1> SUFFICES ASSUME Inv, [Next]_vars PROVE Inv'
    OBVIOUS
  <1>1. PP!Inv'
    BY PromotionKept
  <1>2. CASE UNCHANGED vars
    BY <1>1, <1>2 DEF vars, promotionVars, preparationVars, finalizerVars, Inv, TypeOK, CandidatesPinned,
                SlotsOwned, FinalizersApproved, RetriesPromoted, Flow
  <1>3. QED
    BY <1>1, <1>2, PrepareInv, FinalizeInv, DeployInv DEF Next

LEMMA Invariance == Spec => []Inv
  BY InitInv, StepInv, PTL DEF Spec
-----------------------------------------------------------------------------
\* The variables a repair adds to the promotion keep their types.
THEOREM TypeCorrect == Spec => []TypeOK
  <1>1. Inv => TypeOK
    BY DEF Inv
  <1>2. QED
    BY <1>1, Invariance, PTL

\* However many runs are started for one failed job, and wherever a create's answer is
\* lost, no two of them share an attempt slot.
THEOREM SlotsAreNeverShared == Spec => []SlotsAreExclusive
  <1>1. Inv => SlotsAreExclusive
    BY DEF Inv, SlotsOwned, SlotsAreExclusive
  <1>2. QED
    BY <1>1, Invariance, PTL

\* However often the finalizer of a run is executed again, also at the same time, the
\* failed job is retried once, on top of that run's promoted candidate.
THEOREM RetriesHappenOnce == Spec => []RetriedOnce
  <1>1. Inv => RetriedOnce
    <2> SUFFICES ASSUME Inv, NEW f \in Flows
                 PROVE  retries[f] <= 1 /\ (retries[f] = 1 => Written(f) # {})
      BY DEF RetriedOnce
    <2>1. retries[f] <= 1
      BY DEF Inv, RetriesPromoted
    <2>2. ASSUME retries[f] = 1 PROVE Written(f) # {}
      <3>1. PICK j \in Finalizers : Flow(j) = f /\ pc[j] = "done"
        BY <2>2 DEF Inv, RetriesPromoted
      <3>2. PICK v \in 1..Len(log) : author[v] = j
        BY <3>1 DEF Inv, FinalizersApproved
      <3>3. log[v] = f
        BY <3>1, <3>2 DEF Inv, PP!Inv, PP!PromotionSound, Flow
      <3>4. QED
        BY <3>3 DEF Written
    <2>3. QED
      BY <2>1, <2>2
  <1>2. QED
    BY <1>1, Invariance, PTL

\* Every version a finalizer wrote was approved, passed its tests and repairs the
\* version its run had inspected, whatever was deployed or promoted in between.
THEOREM RepairsAreTested == Spec => []OnlyTestedRepairs
  <1>1. Inv => OnlyTestedRepairs
    <2> SUFFICES ASSUME Inv, NEW v \in 1..Len(log), author[v] \in Finalizers
                 PROVE  /\ approval[author[v]] = "granted"
                        /\ log[v] = Flow(author[v])
                        /\ tests[Flow(author[v])] = "passed"
                        /\ inspected[Flow(author[v])] = v - 1
      BY DEF OnlyTestedRepairs
    <2> DEFINE j == author[v]
    <2>1. approval[j] = "granted" /\ log[v] = Flow(j) /\ base[Flow(j)] = v - 1
      BY DEF Inv, PP!Inv, PP!PromotionSound, Flow
    <2>2. v >= 2 /\ pc[j] # "start"
      BY DEF Inv, PP!Inv, PP!AuthorsWrote, PP!Jobs
    <2>3. stage[Flow(j)] = "ready" /\ Flow(j) \in Flows
      BY <2>2, PromotionTypes DEF Inv, FinalizersApproved
    <2>4. tests[Flow(j)] = "passed" /\ base[Flow(j)] = inspected[Flow(j)]
      BY <2>1, <2>2, <2>3 DEF Inv, CandidatesPinned
    <2>5. QED
      BY <2>1, <2>4
  <1>2. QED
    BY <1>1, Invariance, PTL
=============================================================================
