----------------------- MODULE RepairPreparationProofs ------------------------
(* Proofs about the seven steps of the preparation of a repair: its generation *)
(* and the components that runs (PolicyEvaluator, StructuredInvocation,        *)
(* CandidateCreate, FailureInspection), and then the regression tests of the   *)
(* candidate with the consumer impact they follow from (RegressionRun).        *)
EXTENDS RepairGeneration, RegressionRun, FiniteSetTheorems, SequenceTheorems, TLAPS
LOCAL INSTANCE FiniteSetsExt

-----------------------------------------------------------------------------
(* PolicyEvaluator, for every set of dimensions and amounts.               *)

\* What a capability declares has a type, and its gated actions need approval.
DeclaredOK ==
  /\ capability \in Metadata \union {Unspecified}
  /\ capability # Unspecified /\ action \in Gated => capability.level = "approval_required"
  /\ action \in Actions

RequestOK ==
  /\ requested \in [Dimensions -> 0..MaxAmount \union {Unspecified}]
  /\ destructive \in BOOLEAN

PolicyInv == DeclaredOK /\ RequestOK

\* A declared level is one of the two levels, and a limit is a number or not declared.
LEMMA DeclaredTypes ==
  ASSUME DeclaredOK, capability # Unspecified
  PROVE  /\ capability.level \in Levels
         /\ \A d \in Dimensions : capability.limits[d] \in 1..MaxAmount \union {Unspecified}
  BY DEF DeclaredOK, Metadata

\* Requests start empty.
LEMMA PolicyInitInv == PolicyInit => PolicyInv
  BY PolicyAssumption DEF PolicyInit, PolicyInv, DeclaredOK, RequestOK

\* Only the request changes.
LEMMA PolicyStepInv == PolicyInv /\ [PolicyNext]_policyVars => PolicyInv'
<1> SUFFICES ASSUME PolicyInv, [PolicyNext]_policyVars PROVE PolicyInv'
  OBVIOUS
<1> USE DEF PolicyInv, DeclaredOK, RequestOK
<1>1. CASE UNCHANGED policyVars
  BY <1>1 DEF policyVars
<1>2. ASSUME NEW d \in Dimensions, RequestMore(d) PROVE PolicyInv'
  BY <1>2 DEF RequestMore
<1>3. CASE FlagDestructive
  BY <1>3 DEF FlagDestructive
<1> QED BY <1>1, <1>2, <1>3 DEF PolicyNext

\* The invariant holds in every reachable state.
LEMMA PolicyInvariance == PolicySpec => []PolicyInv
  BY PolicyInitInv, PolicyStepInv, PTL DEF PolicySpec

\* Every decision is one of the three outcomes.
LEMMA OutcomeType == PolicyInv => Outcome \in Outcomes
  BY DeclaredTypes DEF PolicyInv, Outcome, Outcomes, DeclaredLevel, Levels

\* Every variable keeps its type, and every decision is one of the three outcomes.
THEOREM PolicyTypeCorrect == PolicySpec => []PolicyTypeOK
<1>1. PolicyInv => PolicyTypeOK
  BY OutcomeType DEF PolicyInv, DeclaredOK, RequestOK, PolicyTypeOK
<1> QED
  BY <1>1, PolicyInvariance, PTL

-----------------------------------------------------------------------------
\* The outcomes are ordered.
LEMMA StrictnessFacts == /\ Strictness("automatic") = 0
                         /\ Strictness("approval_required") = 1
                         /\ Strictness("denied") = 2
  BY DEF Strictness

\* Whatever is asked for and however it is flagged, a decision is at least as strict as
\* what the capability declares (evaluate_policy).
THEOREM DeclaredIsAFloor == PolicySpec => []NeverMorePermissive
<1>1. PolicyInv => NeverMorePermissive
  <2> SUFFICES ASSUME PolicyInv, action # "discover" PROVE NeverMorePermissive
    BY DEF NeverMorePermissive
  <2>1. CASE capability = Unspecified
    BY <2>1 DEF NeverMorePermissive, Outcome
  <2>2. CASE capability # Unspecified
    <3>1. capability.level \in {"automatic", "approval_required"}
      BY <2>2, DeclaredTypes DEF PolicyInv, Levels
    <3>2. action \in Gated => capability.level = "approval_required"
      BY <2>2 DEF PolicyInv, DeclaredOK
    <3> QED
      BY <2>2, <3>1, <3>2, StrictnessFacts DEF NeverMorePermissive, Outcome, DeclaredLevel
  <2> QED BY <2>1, <2>2
<1> QED
  BY <1>1, PolicyInvariance, PTL

\* A limit that is exceeded stays exceeded when more is asked for.
LEMMA ExceedsIsMonotone ==
  ASSUME PolicyInv, NEW d \in Dimensions, RequestMore(d), capability # Unspecified,
         NEW e \in Dimensions, Exceeds(e)
  PROVE  Exceeds(e)'
<1>1. UNCHANGED capability
  BY DEF RequestMore
<1>2. PICK n \in 0..MaxAmount : /\ requested[d] # Unspecified => requested[d] < n
                                /\ requested' = [requested EXCEPT ![d] = n]
  BY DEF RequestMore
<1>3. requested[e] \in 0..MaxAmount /\ capability.limits[e] \in 1..MaxAmount
  BY DeclaredTypes DEF PolicyInv, RequestOK, Exceeds, Bounded
<1>4. requested'[e] \in 0..MaxAmount /\ requested[e] <= requested'[e]
  BY <1>2, <1>3, PolicyAssumption DEF PolicyInv, RequestOK, Exceeds, Bounded
<1> QED
  BY <1>1, <1>3, <1>4, PolicyAssumption DEF Exceeds, Bounded

\* Asking for more in one dimension, whatever was asked for in the others, never turns
\* a stricter answer into a more lenient one, and flagging a request as destructive does
\* only where a limit is exceeded: its denial becomes an approval_required
\* (evaluate_policy).
THEOREM MoreNeverHelps == PolicySpec => MoreIsNeverEasier
<1> DEFINE NoEasier == Strictness(Outcome) <= Strictness(Outcome')
           Exception == /\ ~destructive /\ destructive' /\ \E d \in Dimensions : Exceeds(d)
                        /\ Outcome' = "approval_required"
<1>1. PolicyInv /\ [PolicyNext]_policyVars => NoEasier \/ Exception
  <2> SUFFICES ASSUME PolicyInv, [PolicyNext]_policyVars PROVE NoEasier \/ Exception
    OBVIOUS
  <2>1. Outcome \in Outcomes
    BY OutcomeType
  <2>2. CASE UNCHANGED policyVars
    <3>1. Outcome' = Outcome
      BY <2>2 DEF policyVars, Outcome, DeclaredLevel, Exceeds, Bounded
    <3> QED BY <2>1, <3>1, StrictnessFacts DEF Outcomes, Levels
  <2>3. ASSUME NEW d \in Dimensions, RequestMore(d)
        PROVE  Strictness(Outcome) <= Strictness(Outcome')
    <3>1. UNCHANGED <<capability, action, destructive>>
      BY <2>3 DEF RequestMore
    <3>2. capability # Unspecified /\ (\E e \in Dimensions : Exceeds(e))
            => \E e \in Dimensions : Exceeds(e)'
      BY <2>3, ExceedsIsMonotone
    <3>3. capability # Unspecified => capability.level \in {"automatic", "approval_required"}
      BY DeclaredTypes DEF PolicyInv, Levels
    <3>4. CASE action = "discover" \/ capability = Unspecified \/ action \in Gated
               \/ (destructive /\ capability.level = "automatic")
      <4>1. Outcome' = Outcome
        BY <3>1, <3>4 DEF Outcome, DeclaredLevel
      <4> QED BY <2>1, <4>1, StrictnessFacts DEF Outcomes, Levels
    <3>5. CASE ~(action = "discover" \/ capability = Unspecified \/ action \in Gated
                 \/ (destructive /\ capability.level = "automatic"))
      <4>1. Outcome = IF \E e \in Dimensions : Exceeds(e) THEN "denied" ELSE capability.level
        BY <3>5 DEF Outcome, DeclaredLevel
      <4>2. Outcome' = IF \E e \in Dimensions : Exceeds(e)' THEN "denied" ELSE capability.level
        BY <3>1, <3>5 DEF Outcome, DeclaredLevel
      <4> QED BY <3>2, <3>3, <3>5, <4>1, <4>2, StrictnessFacts
    <3> QED BY <3>4, <3>5
  <2>4. CASE FlagDestructive
    <3>1. /\ UNCHANGED <<capability, action, requested>> /\ ~destructive /\ destructive'
          /\ \A d \in Dimensions : Exceeds(d)' <=> Exceeds(d)
      BY <2>4 DEF FlagDestructive, Exceeds, Bounded
    <3>2. CASE action = "discover" \/ capability = Unspecified \/ action \in Gated
      <4>1. Outcome' = Outcome
        BY <3>1, <3>2 DEF Outcome
      <4> QED BY <2>1, <4>1, StrictnessFacts DEF Outcomes, Levels
    <3>3. CASE ~(action = "discover" \/ capability = Unspecified \/ action \in Gated)
      <4>1. capability.level \in {"automatic", "approval_required"}
        BY <3>3, DeclaredTypes DEF PolicyInv, Levels
      <4>2. Outcome = IF \E d \in Dimensions : Exceeds(d) THEN "denied" ELSE capability.level
        BY <3>1, <3>3 DEF Outcome, DeclaredLevel
      <4>3. Outcome' = IF capability.level = "automatic" THEN "approval_required"
                       ELSE IF \E d \in Dimensions : Exceeds(d) THEN "denied" ELSE capability.level
        BY <3>1, <3>3 DEF Outcome, DeclaredLevel
      <4> QED BY <3>1, <4>1, <4>2, <4>3, StrictnessFacts
    <3> QED BY <3>2, <3>3
  <2> QED BY <2>2, <2>3, <2>4 DEF PolicyNext
<1> QED
  BY <1>1, PolicyInvariance, PTL DEF PolicySpec, MoreIsNeverEasier

-----------------------------------------------------------------------------
(* StructuredInvocation, for every number of retries.                      *)

Artifact(kind, n) == [kind |-> kind, attempt |-> n]
Passed(n) == [attempt |-> n, status |-> "passed"]
Recorded == {records[i].attempt : i \in 1..Len(records)}

\* Every round before the current one is on record; the current one is once its reply
\* is accepted or the loop has ended.
RoundsRecorded ==
  Recorded = IF stage \in {"accepted", "ended"} THEN 1..attempt ELSE 1..(attempt - 1)

\* Every verdict on a reply, given or still to be given, has that reply's artifact.
VerdictsRetained ==
  /\ \A i \in 1..Len(records) : records[i].status # "request_failed" =>
       Artifact("raw_response", records[i].attempt) \in retained
  /\ stage \in {"retained", "accepted"} => Artifact("raw_response", attempt) \in retained

\* What an accepted reply has left behind, before and after it is stored.
AcceptedInv ==
  stage = "accepted" \/ success =>
    /\ parsed = attempt
    /\ Artifact("raw_response", attempt) \in retained
    /\ Len(records) >= 1
    /\ records[Len(records)] = Passed(attempt)

\* The loop ends with a stored reply or with its budget.
EndInv ==
  /\ success => stage = "ended" /\ Artifact("parsed_output", attempt) \in retained
  /\ stage = "ended" /\ ~success => attempt = MaxRetries + 1

CallInv == CallTypeOK /\ RoundsRecorded /\ VerdictsRetained /\ AcceptedInv /\ EndInv

-----------------------------------------------------------------------------
\* What recording a status does to the list of attempts.
LEMMA RecordFacts ==
  ASSUME CallTypeOK, NEW outcome \in Statuses, Record(outcome)
  PROVE  /\ records' \in Seq([attempt : Attempts, status : Statuses])
         /\ Len(records') = Len(records) + 1
         /\ \A i \in 1..Len(records) : records'[i] = records[i]
         /\ records'[Len(records')] = [attempt |-> attempt, status |-> outcome]
         /\ Recorded' = Recorded \union {attempt}
<1> DEFINE e == [attempt |-> attempt, status |-> outcome]
<1>1. records \in Seq([attempt : Attempts, status : Statuses]) /\ e \in [attempt : Attempts, status : Statuses]
  BY DEF CallTypeOK
<1>2. records' = Append(records, e)
  BY DEF Record
<1> HIDE DEF e
<1>3. /\ records' \in Seq([attempt : Attempts, status : Statuses])
      /\ Len(records') = Len(records) + 1
      /\ \A i \in 1..Len(records) : records'[i] = records[i]
      /\ records'[Len(records')] = e
  BY <1>1, <1>2
<1>4. Len(records) \in Nat /\ e.attempt = attempt
  BY <1>1 DEF e
<1>5. Recorded' = Recorded \union {attempt}
  <2>1. 1..Len(records') = (1..Len(records)) \union {Len(records')}
    BY <1>3, <1>4
  <2> QED BY <2>1, <1>3, <1>4 DEF Recorded
<1> QED BY <1>3, <1>5 DEF e

\* The next round, or the end without success, keeps the counters in their ranges.
LEMMA NextRoundFacts ==
  ASSUME CallTypeOK, NextRound
  PROVE  /\ attempt' \in Attempts
         /\ reply' = "none"
         /\ \/ stage' = "request" /\ attempt' = attempt + 1
            \/ stage' = "ended" /\ attempt' = attempt /\ attempt = MaxRetries + 1
  BY RetriesAssumption DEF CallTypeOK, NextRound, BudgetLeft, Attempts

\* The first round has nothing on record.
LEMMA CallInitInv == CallInit => CallInv
<1> SUFFICES ASSUME CallInit PROVE CallInv
  OBVIOUS
<1>1. CallTypeOK
  <2>1. records \in Seq([attempt : Attempts, status : Statuses])
    BY DEF CallInit
  <2>2. 1 \in Attempts
    BY RetriesAssumption DEF Attempts
  <2> QED BY <2>1, <2>2 DEF CallInit, CallTypeOK
<1>2. VerdictsRetained /\ AcceptedInv /\ EndInv
  BY DEF CallInit, VerdictsRetained, AcceptedInv, EndInv
<1>3. RoundsRecorded
  BY DEF CallInit, RoundsRecorded, Recorded
<1> QED BY <1>1, <1>2, <1>3 DEF CallInv

\* A round that ends without an accepted reply is recorded, whatever it fails with.
LEMMA RoundFails ==
  ASSUME CallInv, stage # "ended", NEW outcome \in {"request_failed", "validation_failed"},
         outcome = "validation_failed" => stage = "retained",
         Record(outcome), NextRound, UNCHANGED <<retained, parsed, success>>
  PROVE  CallInv'
<1> USE DEF CallInv
<1>1. CallTypeOK'
  BY RecordFacts, NextRoundFacts DEF CallTypeOK, Statuses
<1>2. RoundsRecorded'
  <2>1. Recorded \union {attempt} = 1..attempt
    BY DEF RoundsRecorded, CallTypeOK, Attempts
  <2>2. Recorded' = 1..attempt
    BY <2>1, RecordFacts DEF Statuses
  <2>3. (attempt + 1) - 1 = attempt
    BY DEF CallTypeOK, Attempts
  <2> QED BY <2>2, <2>3, NextRoundFacts DEF RoundsRecorded
<1>3. VerdictsRetained'
  <2>1. \A i \in 1..Len(records') :
          i \in 1..Len(records) \/ records'[i] = [attempt |-> attempt, status |-> outcome]
    BY RecordFacts DEF Statuses, CallTypeOK
  <2>2. \A i \in 1..Len(records) : records'[i] = records[i]
    BY RecordFacts DEF Statuses
  <2> QED BY <2>1, <2>2, NextRoundFacts DEF VerdictsRetained
<1>4. ~success
  BY DEF EndInv
<1>5. AcceptedInv' /\ EndInv'
  BY <1>4, NextRoundFacts DEF AcceptedInv, EndInv
<1> QED BY <1>1, <1>2, <1>3, <1>5

\* Every step keeps the invariant.
LEMMA CallStepInv == CallInv /\ [CallNext]_callVars => CallInv'
<1> SUFFICES ASSUME CallInv, [CallNext]_callVars PROVE CallInv'
  OBVIOUS
<1> USE DEF CallInv
<1>1. CASE UNCHANGED callVars
  BY <1>1
  DEF callVars, CallTypeOK, RoundsRecorded, Recorded, VerdictsRetained, AcceptedInv, EndInv
<1>2. CASE Request
  <2>1. CallTypeOK' /\ VerdictsRetained' /\ AcceptedInv' /\ EndInv'
    BY <1>2 DEF Request, CallTypeOK, VerdictsRetained, AcceptedInv, EndInv
  <2>2. RoundsRecorded'
    BY <1>2 DEF Request, RoundsRecorded, Recorded
  <2> QED BY <2>1, <2>2
<1>3. CASE RetainRaw
  <2>1. CallTypeOK' /\ VerdictsRetained' /\ AcceptedInv' /\ EndInv'
    BY <1>3
    DEF RetainRaw, Retain, Artifact, Artifacts, CallTypeOK, VerdictsRetained, AcceptedInv, EndInv
  <2>2. RoundsRecorded'
    BY <1>3 DEF RetainRaw, RoundsRecorded, Recorded
  <2> QED BY <2>1, <2>2
<1>4. CASE Refuse
  BY <1>4, RoundFails DEF Refuse, RecordInvalid
<1>5. CASE Accept
  <2>1. /\ stage = "retained" /\ stage' = "accepted" /\ parsed' = attempt
        /\ UNCHANGED <<attempt, reply, retained, success>>
        /\ Record("passed") /\ "passed" \in Statuses
    BY <1>5 DEF Accept, Accepted, Statuses
  <2>2. CallTypeOK'
    BY <2>1, RecordFacts DEF CallTypeOK
  <2>3. RoundsRecorded'
    <3>1. Recorded \union {attempt} = 1..attempt
      BY <2>1 DEF RoundsRecorded, CallTypeOK, Attempts
    <3> QED BY <2>1, <3>1, RecordFacts DEF RoundsRecorded
  <2>4. VerdictsRetained'
    <3>1. \A i \in 1..Len(records') : i \in 1..Len(records) \/ records'[i] = Passed(attempt)
      BY <2>1, RecordFacts DEF CallTypeOK, Passed
    <3>2. \A i \in 1..Len(records) : records'[i] = records[i]
      BY <2>1, RecordFacts
    <3> QED BY <2>1, <3>1, <3>2 DEF VerdictsRetained, Passed
  <2>5. AcceptedInv' /\ EndInv'
    <3>1. Len(records') >= 1 /\ records'[Len(records')] = Passed(attempt)
      BY <2>1, RecordFacts DEF CallTypeOK, Passed
    <3> QED BY <2>1, <3>1 DEF AcceptedInv, EndInv, VerdictsRetained, Passed
  <2> QED BY <2>2, <2>3, <2>4, <2>5
<1>6. CASE RetainParsed
  <2>1. CallTypeOK' /\ VerdictsRetained' /\ AcceptedInv' /\ EndInv'
    BY <1>6
    DEF RetainParsed, Retain, Artifact, Artifacts, Passed, CallTypeOK, VerdictsRetained, AcceptedInv, EndInv
  <2>2. RoundsRecorded'
    BY <1>6 DEF RetainParsed, RoundsRecorded, Recorded
  <2> QED BY <2>1, <2>2
<1>7. CASE Raise
  BY <1>7, RoundFails DEF Raise
<1> QED BY <1>1, <1>2, <1>3, <1>4, <1>5, <1>6, <1>7 DEF CallNext

\* The invariant holds in every reachable state.
LEMMA CallInvariance == CallSpec => []CallInv
  BY CallInitInv, CallStepInv, PTL DEF CallSpec

\* Every variable keeps its type.
THEOREM CallTypeCorrect == CallSpec => []CallTypeOK
  BY CallInvariance, PTL DEF CallInv

\* A successful invocation returns the reply of its last attempt, which is retained raw
\* and parsed and recorded as passed, whatever was raised before
\* (invoke_hermes_structured).
THEOREM SuccessesAreRetained == CallSpec => []SuccessIsRetained
<1>1. CallInv => SuccessIsRetained
  BY DEF CallInv, AcceptedInv, EndInv, SuccessIsRetained, Ended, Artifact, Passed
<1> QED
  BY <1>1, CallInvariance, PTL

\* When the call returns, every attempt is on record, every verdict has the reply it is
\* about, and a failure used up the budget (invoke_hermes_structured).
THEOREM EvidenceIsKept == CallSpec => []EvidenceIsComplete
<1>1. CallInv => EvidenceIsComplete
  BY DEF CallInv, RoundsRecorded, Recorded, VerdictsRetained, EndInv, EvidenceIsComplete, Ended, Artifact
<1> QED
  BY <1>1, CallInvariance, PTL

-----------------------------------------------------------------------------
(* CandidateCreate, for every set of jobs and request keys.                *)

\* Where a job is says what it has written: the script of its candidate is its own
\* between its two writes, and not yet its own before them.
Progress ==
  \A j \in Creators :
    /\ pc[j] = "written" => script[key[j]] = j
    /\ pc[j] = "written" => metadata[key[j]] = None
    /\ pc[j] \in {"start", "found", "absent"} => script[key[j]] # j

\* Only a job that has stopped has an answer.
AnswersAreFinal == \A j \in Creators : pc[j] \notin Stopped => answer[j] = None

CreateInv == CreateTypeOK /\ Progress /\ AnswersAreFinal /\ RecordDescribesScript /\ AnswersAgree

-----------------------------------------------------------------------------
\* Nothing is written and nobody has been answered at the start.
LEMMA CreateInitInv == CreateInit => CreateInv
  BY NoneIsNoCreator
  DEF CreateInit, CreateInv, CreateTypeOK, Progress, AnswersAreFinal, RecordDescribesScript, AnswersAgree,
      Steps, Stopped

\* Every step keeps the invariant.
LEMMA CreateStepInv == CreateInv /\ [CreateNext]_createVars => CreateInv'
<1> SUFFICES ASSUME CreateInv, [CreateNext]_createVars PROVE CreateInv'
  OBVIOUS
<1> USE NoneIsNoCreator DEF CreateInv, CreateTypeOK, Steps, Stopped, GoTo
<1>1. CASE UNCHANGED createVars
  BY <1>1 DEF createVars, Progress, AnswersAreFinal, RecordDescribesScript, AnswersAgree
<1>2. ASSUME NEW j \in Creators, LookUp(j) PROVE CreateInv'
  BY <1>2 DEF LookUp, Progress, AnswersAreFinal, RecordDescribesScript, AnswersAgree
<1>3. ASSUME NEW j \in Creators, ReturnExisting(j) PROVE CreateInv'
  <2>1. CreateTypeOK'
    BY <1>3 DEF ReturnExisting, Answer, ExistingRecord
  <2>2. Progress' /\ RecordDescribesScript'
    BY <1>3 DEF ReturnExisting, Progress, RecordDescribesScript
  <2>3. AnswersAreFinal' /\ AnswersAgree'
    BY <1>3 DEF ReturnExisting, Answer, ExistingRecord, AnswersAreFinal, AnswersAgree
  <2> QED BY <2>1, <2>2, <2>3
<1>4. ASSUME NEW j \in Creators, CreateScript(j) PROVE CreateInv'
  <2>1. CASE script[key[j]] = None
    <3>1. /\ script' = [script EXCEPT ![key[j]] = j]
          /\ UNCHANGED <<key, metadata, answer>>
          /\ pc' \in {[pc EXCEPT ![j] = "written"], [pc EXCEPT ![j] = "error"]}
      BY <1>4, <2>1 DEF CreateScript
    \* A candidate without a script has no metadata.
    <3>2. metadata[key[j]] = None
      BY <2>1 DEF RecordDescribesScript
    <3>3. CreateTypeOK' /\ RecordDescribesScript'
      BY <3>1, <3>2 DEF RecordDescribesScript
    <3>4. Progress' /\ AnswersAreFinal'
      BY <1>4, <2>1, <3>1, <3>2 DEF CreateScript, Progress, AnswersAreFinal
    <3>5. AnswersAgree'
      BY <2>1, <3>1 DEF AnswersAgree
    <3> QED BY <3>3, <3>4, <3>5
  <2>2. CASE script[key[j]] # None
    BY <1>4, <2>2
    DEF CreateScript, Refused, Progress, AnswersAreFinal, RecordDescribesScript, AnswersAgree
  <2> QED BY <2>1, <2>2
<1>5. ASSUME NEW j \in Creators, CreateMetadata(j) PROVE CreateInv'
  \* The record goes where this job's own script is, and the cell is still empty.
  <2>1. script[key[j]] = j /\ metadata[key[j]] = None /\ answer[j] = None
    BY <1>5 DEF CreateMetadata, Progress, AnswersAreFinal
  <2>2. /\ metadata' = [metadata EXCEPT ![key[j]] = j]
        /\ UNCHANGED <<key, script>>
        /\ \/ /\ answer' = [answer EXCEPT ![j] = j]
              /\ pc' = [pc EXCEPT ![j] = "created"]
           \/ /\ answer' = answer
              /\ pc' = [pc EXCEPT ![j] = "error"]
    BY <1>5, <2>1 DEF CreateMetadata, Answer
  <2>3. CreateTypeOK' /\ RecordDescribesScript'
    BY <2>1, <2>2 DEF RecordDescribesScript
  <2>4. Progress' /\ AnswersAreFinal'
    BY <2>1, <2>2 DEF Progress, AnswersAreFinal
  <2>5. AnswersAgree'
    BY <2>1, <2>2 DEF AnswersAgree
  <2> QED BY <2>3, <2>4, <2>5
<1>6. ASSUME NEW j \in Creators, Fail(j) PROVE CreateInv'
  BY <1>6 DEF Fail, Progress, AnswersAreFinal, RecordDescribesScript, AnswersAgree
<1> QED BY <1>1, <1>2, <1>3, <1>4, <1>5, <1>6 DEF CreateNext, Create

\* The invariant holds in every reachable state.
LEMMA CreateInvariance == CreateSpec => []CreateInv
  BY CreateInitInv, CreateStepInv, PTL DEF CreateSpec

\* Every variable keeps its type.
THEOREM CreateTypeCorrect == CreateSpec => []CreateTypeOK
  BY CreateInvariance, PTL DEF CreateInv

\* However the two writes of racing and dying jobs interleave, a candidate's metadata
\* is the metadata its script was created with (create_candidate).
THEOREM RecordsDescribeScripts == CreateSpec => []RecordDescribesScript
  BY CreateInvariance, PTL DEF CreateInv

\* All answers to one request key are the same stored record, and a job told that it
\* created the candidate did (create_candidate).
THEOREM AnswersDoAgree == CreateSpec => []AnswersAgree
  BY CreateInvariance, PTL DEF CreateInv

-----------------------------------------------------------------------------
\* Every step fills an empty cell, reads a full one, or changes nothing the caller of
\* a write-once cell can see.
LEMMA CreateStepRefines == CreateInv /\ CreateInv' /\ [CreateNext]_createVars => [Cell!Next]_(Cell!vars)
<1> SUFFICES ASSUME CreateInv, [CreateNext]_createVars PROVE [Cell!Next]_(Cell!vars)
  OBVIOUS
<1> USE DEF CreateInv, CreateTypeOK, Stopped
<1>1. CASE UNCHANGED createVars
  BY <1>1 DEF createVars, Cell!vars
<1>2. ASSUME NEW j \in Creators, LookUp(j) \/ CreateScript(j) \/ Fail(j)
      PROVE UNCHANGED Cell!vars
  BY <1>2 DEF LookUp, CreateScript, Fail, Cell!vars
<1>3. ASSUME NEW j \in Creators, ReturnExisting(j) PROVE Cell!Get(j) \/ UNCHANGED Cell!vars
  BY <1>3 DEF ReturnExisting, Answer, ExistingRecord, AnswersAreFinal, Cell!Get, Cell!vars
<1>4. ASSUME NEW j \in Creators, CreateMetadata(j) PROVE Cell!Put(j) \/ UNCHANGED Cell!vars
  BY <1>4 DEF CreateMetadata, Answer, AnswersAreFinal, Cell!Put, Cell!vars
<1> QED BY <1>1, <1>2, <1>3, <1>4 DEF CreateNext, Create, Cell!Next

\* Creating a candidate with two separate calls that others and failures come between
\* implements filling a write-once cell (create_candidate).
THEOREM CreateRefinement == CreateSpec => ImplementsWriteOnce
<1>1. CreateInit => Cell!Init
  BY DEF CreateInit, Cell!Init
<1> QED
  BY <1>1, CreateStepRefines, CreateInvariance, PTL DEF CreateSpec, ImplementsWriteOnce, Cell!Spec
-----------------------------------------------------------------------------
(* FailureInspection, for all evidence and all budgets.                     *)

Document == [original : Nat, retained : Nat, truncated : BOOLEAN]

InspectionTypeOK ==
  /\ failed \in Evidence
  /\ inspection \in {"job", "logs", "asset", "fitting", "returned", "error"}
  /\ document \in [Sections -> Document]
  /\ kept \in [Lists -> Nat] /\ omitted \in [Lists -> Nat]

\* The patterns found are patterns of the evidence, and those of the failure summary are
\* found in any case.
ReasonsFound ==
  /\ matched \subseteq failed.summary \union failed.logged
  /\ inspection \in {"asset", "fitting", "returned"} => failed.summary \subseteq matched

\* A document that is not flagged is the whole text.
WholeOrFlagged == \A s \in Sections : ~document[s].truncated => Retained(s) = document[s].original

\* While the context is reduced, everything it has lost is stated.
Stated ==
  inspection \in {"fitting", "returned"} =>
    /\ \A s \in Sections : document[s].truncated <=> s \in truncated
    /\ \A l \in Lists : kept[l] + omitted[l] = failed.found[l]
    /\ hash # 0 => document["code"].original = failed.size["code"]

Fits == inspection = "returned" => Size + DigitBytes <= MaxTotalBytes

\* What could not be had is warned of, and logs that are not warned of were read and
\* classified as a whole.
Warned ==
  /\ inspection \in {"job", "logs", "asset"} => "code" \notin warnings
  /\ inspection \in {"fitting", "returned"} => ("code" \in warnings <=> hash = 0)
  /\ inspection \in {"asset", "fitting", "returned"} /\ "logs" \notin warnings =>
       /\ matched = failed.summary \union failed.logged
       /\ document["logs"].original = failed.size["logs"]

\* Versions are numbered from 1.
Numbered == live \in Nat \ {0}

InspectionInv == /\ InspectionTypeOK /\ Numbered /\ ReasonsFound /\ WholeOrFlagged
                 /\ Stated /\ Fits /\ Warned

\* The steps of an inspection, without the fairness that ends it.
InspectionSteps == InspectionInit /\ [][Inspect \/ Deploy]_inspectionVars

LEMMA MinFacts ==
  ASSUME NEW m \in Nat, NEW n \in Nat
  PROVE  Min({m, n}) \in Nat /\ Min({m, n}) <= m
  BY DEF Min

LEMMA MaxFacts ==
  ASSUME NEW m \in Nat, NEW n \in Nat
  PROVE  Max({m, n}) \in Nat
  BY DEF Max

LEMMA Budgets ==
  /\ MaxTotalBytes \in Nat /\ SectionBytes \in Nat /\ MaxItems \in Nat /\ Floor \in Nat
  /\ CharBytes \in {1, 3, 4}
  BY InspectionAssumption

\* A cut never makes the size of a text negative, whatever character it falls on.
LEMMA CutSizes ==
  ASSUME NEW size \in Nat, NEW max \in Nat
  PROVE  /\ BoundedSizes(size, max) \subseteq Nat
         /\ size <= max => BoundedSizes(size, max) = {size}
  BY Budgets DEF BoundedSizes, Kept, Replacement

LEMMA DocumentFacts ==
  ASSUME NEW size \in Nat, NEW d \in Documents(size)
  PROVE  /\ d \in Document
         /\ d.original = size
         /\ ~d.truncated => d.retained = size
  <1>1. PICK n \in BoundedSizes(size, SectionBytes) :
          d = [original |-> size, retained |-> n, truncated |-> size > SectionBytes]
    BY DEF Documents
  <1>2. n \in Nat /\ (size <= SectionBytes => n = size)
    BY CutSizes, Budgets
  <1>3. (size > SectionBytes) \in BOOLEAN
    OBVIOUS
  <1>4. d \in Document
    BY <1>1, <1>2, <1>3 DEF Document
  <1>5. d.original = size /\ d.retained = n /\ (~d.truncated => ~(size > SectionBytes))
    BY <1>1
  <1>6. QED
    BY <1>2, <1>4, <1>5, Budgets

LEMMA InspectionInitInv == InspectionInit => InspectionInv
  <1> SUFFICES ASSUME InspectionInit PROVE InspectionInv
    OBVIOUS
  <1>1. NoDocument \in Document /\ NoDocument.retained = NoDocument.original
    BY DEF NoDocument, Document
  <1>2. QED
    BY <1>1 DEF InspectionInit, InspectionInv, InspectionTypeOK, ReasonsFound, WholeOrFlagged, Retained,
                Numbered, Stated, Fits, Warned

LEMMA SameSize ==
  ASSUME UNCHANGED <<failed, document, kept>>
  PROVE  Size' = Size
  BY DEF Size

\* Every step of an inspection, and every deployment between them, keeps it.

LEMMA InspectionStepInv == InspectionInv /\ [Inspect \/ Deploy]_inspectionVars => InspectionInv'
  <1> SUFFICES ASSUME InspectionInv, [Inspect \/ Deploy]_inspectionVars PROVE InspectionInv'
    OBVIOUS
  <1> USE DEF InspectionInv, InspectionGoesTo, contextVars
  <1>0. Numbered'
    <2>1. live' = live \/ live' = live + 1
      BY DEF inspectionVars, Inspect, LoadJob, LoadLogs, LoadAsset, Reduce, DropItem, CannotFit,
             Fit, Deploy
    <2>2. QED
      BY <2>1 DEF Numbered
  <1>1. ASSUME UNCHANGED <<failed, contextVars>>,
               inspection' \in {inspection, "error"} \/ (inspection = "job" /\ inspection' = "logs")
        PROVE  InspectionInv'
    BY <1>0, <1>1, SameSize
    DEF InspectionTypeOK, ReasonsFound, WholeOrFlagged, Retained, Stated, Fits, Warned
  <1>2. CASE UNCHANGED inspectionVars
    BY <1>1, <1>2 DEF inspectionVars
  <1>3. CASE Deploy
    BY <1>1, <1>3 DEF Deploy
  <1>4. CASE LoadJob
    BY <1>1, <1>4 DEF LoadJob
  <1>5. CASE LoadLogs
    <2>1. PICK available \in {TRUE, failed.inline} :
            /\ \E logs \in Documents(IF available THEN failed.size["logs"] ELSE 0) :
                 document' = [document EXCEPT !["logs"] = logs]
            /\ matched' = failed.summary \union (IF available THEN failed.logged ELSE {})
            /\ warnings' = Warning("logs", available)
      BY <1>5 DEF LoadLogs
    <2>2. (IF available THEN failed.size["logs"] ELSE 0) \in Nat
      BY EvidenceAssumption DEF InspectionTypeOK, Sections
    <2>3. \E logs \in Document : /\ document' = [document EXCEPT !["logs"] = logs]
                                 /\ ~logs.truncated => logs.retained = logs.original
                                 /\ available => logs.original = failed.size["logs"]
      <3>1. PICK logs \in Documents(IF available THEN failed.size["logs"] ELSE 0) :
              document' = [document EXCEPT !["logs"] = logs]
        BY <2>1
      <3>2. /\ logs \in Document /\ (~logs.truncated => logs.retained = logs.original)
            /\ available => logs.original = failed.size["logs"]
        BY <2>2, DocumentFacts
      <3>3. QED
        BY <3>1, <3>2
    <2>4. /\ inspection = "logs" /\ inspection' = "asset"
          /\ UNCHANGED <<failed, kept, omitted>>
      BY <1>5 DEF LoadLogs
    <2>5. InspectionTypeOK' /\ WholeOrFlagged'
      BY <2>3, <2>4 DEF InspectionTypeOK, WholeOrFlagged, Retained
    <2>6. ReasonsFound' /\ Stated' /\ Fits'
      BY <2>1, <2>4 DEF ReasonsFound, Stated, Fits
    <2>7. Warned'
      <3>1. "code" \notin warnings' /\ ("logs" \notin warnings' => available)
        BY <2>1, <2>4 DEF Warning, Warned
      <3>2. available => document'["logs"].original = failed.size["logs"]
        BY <2>3 DEF InspectionTypeOK, Sections
      <3>3. QED
        BY <2>1, <2>4, <3>1, <3>2 DEF Warned
    <2>8. QED
      BY <1>0, <2>5, <2>6, <2>7
  <1>6. CASE LoadAsset
    <2>1. PICK available \in BOOLEAN :
            /\ \E code \in Documents(IF available THEN failed.size["code"] ELSE NoteBytes),
                  inputs \in Documents(failed.size["inputs"]) :
                 document' = [document EXCEPT !["code"] = code, !["inputs"] = inputs]
            /\ warnings' = Warning("code", available)
            /\ hash' = IF available THEN live ELSE 0
      BY <1>6 DEF LoadAsset
    <2>2. failed.size["code"] \in Nat /\ failed.size["inputs"] \in Nat /\ NoteBytes \in Nat
      BY EvidenceAssumption DEF InspectionTypeOK, Sections, NoteBytes
    <2>3. \E code \in Document, inputs \in Document :
            /\ document' = [document EXCEPT !["code"] = code, !["inputs"] = inputs]
            /\ ~code.truncated => code.retained = code.original
            /\ ~inputs.truncated => inputs.retained = inputs.original
            /\ available => code.original = failed.size["code"]
      BY <2>1, <2>2, DocumentFacts
    <2>4. /\ inspection = "asset" /\ inspection' \in {"error", "fitting"}
          /\ truncated' = {s \in Sections : document'[s].truncated}
          /\ UNCHANGED <<failed, matched>>
      BY <1>6 DEF LoadAsset
    <2>5. /\ kept' = [l \in Lists |-> Min({failed.found[l], MaxItems})]
          /\ omitted' = [l \in Lists |-> failed.found[l] - kept'[l]]
      BY <1>6 DEF LoadAsset
    <2>6. \A l \in Lists : failed.found[l] \in Nat
      BY EvidenceAssumption DEF InspectionTypeOK
    <2>7. \A l \in Lists : kept'[l] \in Nat /\ kept'[l] <= failed.found[l]
      BY <2>5, <2>6, MinFacts, Budgets
    <2>8. /\ kept' \in [Lists -> Nat] /\ omitted' \in [Lists -> Nat]
          /\ \A l \in Lists : kept'[l] + omitted'[l] = failed.found[l]
      BY <2>5, <2>6, <2>7
    <2>9. /\ document' \in [Sections -> Document]
          /\ \A s \in Sections : ~document'[s].truncated => document'[s].retained = document'[s].original
          /\ available => document'["code"].original = failed.size["code"]
          /\ document'["logs"] = document["logs"]
      BY <2>3 DEF InspectionTypeOK, WholeOrFlagged, Retained, Sections
    <2>10. InspectionTypeOK' /\ WholeOrFlagged'
      BY <2>4, <2>8, <2>9 DEF InspectionTypeOK, WholeOrFlagged, Retained
    <2>11. ReasonsFound' /\ Fits'
      BY <2>4 DEF ReasonsFound, Fits
    <2>12. Stated'
      BY <2>1, <2>4, <2>8, <2>9 DEF Stated
    <2>13. Warned'
      <3>1. /\ "code" \in warnings' <=> ~available
            /\ "logs" \in warnings' <=> "logs" \in warnings
        BY <2>1, <2>4 DEF Warning, Warned
      <3>2. hash' = 0 <=> ~available
        BY <2>1 DEF Numbered
      <3>3. QED
        BY <2>4, <2>9, <3>1, <3>2 DEF Warned
    <2>14. QED
      BY <1>0, <2>10, <2>11, <2>12, <2>13
  <1>7. CASE Reduce
    <2>1. PICK s \in Reducible : /\ \E half \in Half(document[s]) : document' = [document EXCEPT ![s] = half]
                                 /\ truncated' = truncated \union {s}
      BY <1>7 DEF Reduce
    <2>2. s \in Sections /\ document[s] \in Document
      BY DEF Reducible, InspectionTypeOK
    <2>3. ASSUME NEW d \in Document, NEW half \in Half(d)
          PROVE  half \in Document /\ half.original = d.original /\ half.truncated
      <3>1. d.retained \in Nat /\ d.retained \div 2 \in Nat
        BY DEF Document
      <3>2. BoundedSizes(d.retained, Max({Floor, d.retained \div 2})) \subseteq Nat
        BY <3>1, MaxFacts, CutSizes, Budgets
      <3>3. PICK n \in Nat : half = [[d EXCEPT !.retained = n] EXCEPT !.truncated = TRUE]
        BY <3>2 DEF Half, Halved
      <3>4. QED
        BY <3>3 DEF Document
    <2>4. \E half \in Document : /\ document' = [document EXCEPT ![s] = half]
                                 /\ half.original = document[s].original /\ half.truncated
      BY <2>1, <2>2, <2>3
    <2>5. /\ UNCHANGED <<failed, inspection, matched, kept, omitted, warnings, hash>>
          /\ inspection = "fitting"
      BY <1>7 DEF Reduce, TooLarge
    <2>6. /\ document' \in [Sections -> Document]
          /\ document'[s].truncated /\ document'[s].original = document[s].original
          /\ \A t \in Sections : t # s => document'[t] = document[t]
      BY <2>2, <2>4 DEF InspectionTypeOK
    <2>7. InspectionTypeOK' /\ WholeOrFlagged'
      BY <2>5, <2>6 DEF InspectionTypeOK, WholeOrFlagged, Retained
    <2>8. ReasonsFound' /\ Fits'
      BY <2>5 DEF ReasonsFound, Fits
    <2>9. Stated'
      BY <2>1, <2>2, <2>5, <2>6 DEF Stated, Sections
    <2>10. Warned'
      <3>1. document'["logs"].original = document["logs"].original
        BY <2>6 DEF Sections
      <3>2. QED
        BY <2>5, <3>1 DEF Warned
    <2>11. QED
      BY <1>0, <2>7, <2>8, <2>9, <2>10
  <1>8. CASE DropItem
    <2>1. Shortened \in Lists /\ kept[Shortened] > 0
      BY <1>8 DEF DropItem, Shortened, Lists, InspectionTypeOK
    <2>2. /\ kept' = [kept EXCEPT ![Shortened] = kept[Shortened] - 1]
          /\ omitted' = [omitted EXCEPT ![Shortened] = omitted[Shortened] + 1]
          /\ UNCHANGED <<failed, inspection, matched, document, truncated, warnings, hash>>
          /\ inspection = "fitting"
      BY <1>8 DEF DropItem, TooLarge
    <2> HIDE DEF Shortened
    <2>3. /\ kept' \in [Lists -> Nat] /\ omitted' \in [Lists -> Nat]
          /\ \A l \in Lists : kept'[l] + omitted'[l] = kept[l] + omitted[l]
      BY <2>1, <2>2 DEF InspectionTypeOK
    <2>4. QED
      BY <1>0, <2>2, <2>3
      DEF InspectionTypeOK, ReasonsFound, WholeOrFlagged, Retained, Stated, Fits, Warned
  <1>9. CASE CannotFit
    BY <1>1, <1>9 DEF CannotFit
  <1>10. CASE Fit
    <2>1. CASE StillFits
      <3>1. /\ UNCHANGED <<failed, contextVars>>
            /\ inspection = "fitting" /\ inspection' = "returned"
            /\ Size + DigitBytes <= MaxTotalBytes
        BY <1>10, <2>1 DEF Fit, StillFits
      <3>2. Fits'
        BY <3>1, SameSize DEF Fits
      <3>3. QED
        BY <1>0, <3>1, <3>2 DEF InspectionTypeOK, ReasonsFound, WholeOrFlagged, Retained, Stated, Warned
    <2>2. CASE ~StillFits
      BY <1>1, <1>10, <2>2 DEF Fit
    <2>3. QED
      BY <2>1, <2>2
  <1>11. QED
    BY <1>2, <1>3, <1>4, <1>5, <1>6, <1>7, <1>8, <1>9, <1>10 DEF Inspect

LEMMA InspectionInvariance == InspectionSteps => []InspectionInv
  BY InspectionInitInv, InspectionStepInv, PTL DEF InspectionSteps

-----------------------------------------------------------------------------
(* classify_failure: the category is the first of those with most reasons.  *)

\* c is the first of 1..k where f is largest.
Leads(f, k, c) == /\ c \in 1..k
                  /\ \A d \in 1..k : f[c] >= f[d] /\ (f[c] > f[d] \/ c <= d)

LEMMA SomeoneLeads ==
  ASSUME NEW f \in [1..6 -> Nat]
  PROVE  \E c : Leads(f, 6, c)
  <1>1. ASSUME NEW k \in 1..5, NEW c, Leads(f, k, c)
        PROVE  \E e : Leads(f, k + 1, e)
    <2>1. CASE f[k + 1] > f[c]
      <3>1. Leads(f, k + 1, k + 1)
        BY <1>1, <2>1 DEF Leads
      <3>2. QED
        BY <3>1
    <2>2. CASE ~(f[k + 1] > f[c])
      <3>1. Leads(f, k + 1, c)
        BY <1>1, <2>2 DEF Leads
      <3>2. QED
        BY <3>1
    <2>3. QED
      BY <2>1, <2>2
  <1>2. Leads(f, 1, 1)
    BY DEF Leads
  <1>3. 1 \in 1..5 /\ 2 \in 1..5 /\ 3 \in 1..5 /\ 4 \in 1..5 /\ 5 \in 1..5
        /\ 1 + 1 = 2 /\ 2 + 1 = 3 /\ 3 + 1 = 4 /\ 4 + 1 = 5 /\ 5 + 1 = 6
    OBVIOUS
  <1>4. \E c : Leads(f, 2, c)
    BY <1>1, <1>2, <1>3
  <1>5. \E c : Leads(f, 3, c)
    BY <1>1, <1>3, <1>4
  <1>6. \E c : Leads(f, 4, c)
    BY <1>1, <1>3, <1>5
  <1>7. \E c : Leads(f, 5, c)
    BY <1>1, <1>3, <1>6
  <1>8. QED
    BY <1>1, <1>3, <1>7

\* A pattern of something that a patch can repair was found.
SpeaksOfRepair == \E p \in matched : p[1] \in Repairable

LEMMA CountType ==
  ASSUME InspectionInv, NEW c
  PROVE  Count(c) \in Nat /\ (Count(c) = 0 <=> \A p \in matched : p[1] # c)
  <1>1. IsFiniteSet(Reasons)
    <2> DEFINE Categories == {Classifiers[i] : i \in 1..Len(Classifiers)}
    <2>1. Categories = {"policy", "input", "source_drift", "dependency", "infrastructure", "code_defect"}
      BY DEF Classifiers
    <2>2. IsFiniteSet({"policy", "input", "source_drift", "dependency", "infrastructure", "code_defect"})
      <3>1. IsFiniteSet({"policy"}) /\ IsFiniteSet({"input"}) /\ IsFiniteSet({"source_drift"})
            /\ IsFiniteSet({"dependency"}) /\ IsFiniteSet({"infrastructure"}) /\ IsFiniteSet({"code_defect"})
        BY FS_Singleton
      <3>2. IsFiniteSet({"policy"} \union {"input"}) /\ IsFiniteSet({"source_drift"} \union {"dependency"})
            /\ IsFiniteSet({"infrastructure"} \union {"code_defect"})
        BY <3>1, FS_Union
      <3>3. IsFiniteSet(({"policy"} \union {"input"}) \union ({"source_drift"} \union {"dependency"}))
        BY <3>2, FS_Union
      <3>4. IsFiniteSet((({"policy"} \union {"input"}) \union ({"source_drift"} \union {"dependency"}))
                          \union ({"infrastructure"} \union {"code_defect"}))
        BY <3>2, <3>3, FS_Union
      <3>5. (({"policy"} \union {"input"}) \union ({"source_drift"} \union {"dependency"}))
              \union ({"infrastructure"} \union {"code_defect"})
            = {"policy", "input", "source_drift", "dependency", "infrastructure", "code_defect"}
        OBVIOUS
      <3>6. QED
        BY <3>4, <3>5, Zenon
    <2>3. IsFiniteSet(1..3)
      <3>1. 1 \in Int /\ 3 \in Int
        OBVIOUS
      <3>2. QED
        BY <3>1, FS_Interval
    <2>4. IsFiniteSet(Categories \X (1..3))
      BY <2>1, <2>2, <2>3, FS_Product
    <2>5. Reasons \in SUBSET (Categories \X (1..3))
      BY DEF Reasons
    <2>6. QED
      BY <2>4, <2>5, FS_Subset
  <1>2. {p \in matched : p[1] = c} \in SUBSET Reasons
    BY EvidenceAssumption DEF InspectionInv, InspectionTypeOK, ReasonsFound
  <1>3. IsFiniteSet({p \in matched : p[1] = c})
    BY <1>1, <1>2, FS_Subset
  <1>4. QED
    BY <1>3, FS_CardinalityType, FS_EmptySet DEF Count

LEMMA RepairableSpeaks ==
  ASSUME InspectionInv, Category \in Repairable
  PROVE  SpeaksOfRepair
  <1> DEFINE f == [i \in 1..6 |-> Count(Classifiers[i])]
  <1>1. f \in [1..6 -> Nat] /\ Len(Classifiers) = 6
    BY CountType DEF Classifiers
  <1>2. PICK c : Leads(f, 6, c)
    BY <1>1, SomeoneLeads
  <1>3. c \in 1..6 /\ \A d \in 1..6 : Count(Classifiers[c]) >= Count(Classifiers[d]) /\ FirstOfMost(c, d)
    BY <1>2 DEF Leads, FirstOfMost
  <1> DEFINE chosen == CHOOSE e \in 1..Len(Classifiers) :
                         \A d \in 1..Len(Classifiers) :
                           Count(Classifiers[e]) >= Count(Classifiers[d]) /\ FirstOfMost(e, d)
  <1>4. chosen \in 1..6 /\ \A d \in 1..6 : Count(Classifiers[chosen]) >= Count(Classifiers[d]) /\ FirstOfMost(chosen, d)
    BY <1>1, <1>3
  <1>5. Category = Classifiers[chosen]
    BY DEF Category, Repairable
  <1> HIDE DEF chosen
  <1>6. PICK p \in matched : \E d \in 1..6 : p[1] = Classifiers[d]
    <2>1. matched # {} /\ matched \subseteq Reasons
      BY EvidenceAssumption
      DEF Category, Repairable, InspectionInv, InspectionTypeOK, ReasonsFound
    <2>2. \A p \in Reasons : \E d \in 1..6 : p[1] = Classifiers[d]
      BY <1>1 DEF Reasons
    <2>3. QED
      BY <2>1, <2>2
  <1>7. PICK d \in 1..6 : p[1] = Classifiers[d]
    BY <1>6
  <1>8. Count(Classifiers[d]) # 0 /\ Count(Classifiers[d]) \in Nat /\ Count(Classifiers[chosen]) \in Nat
    BY <1>7, CountType
  <1>9. Count(Classifiers[chosen]) # 0
    BY <1>4, <1>8
  <1>10. PICK q \in matched : q[1] = Classifiers[chosen]
    BY <1>9, CountType
  <1>11. QED
    BY <1>5, <1>10 DEF SpeaksOfRepair

-----------------------------------------------------------------------------
(* The generation: what each phase rests on.                                *)

\* Nothing is called or created before its phase, and only the policy is asked in the first.
InOrder ==
  /\ phase \in {"asking", "inspecting", "checking", "calling", "creating"} \union Ends
  /\ phase \in {"asking", "inspecting", "checking"} => stage = "request" /\ attempt = 1
  /\ phase \in {"asking", "inspecting", "checking", "calling"} => pc[Repairer] = "start"
  /\ phase # "asking" => action = "modify_candidate"

\* Hermes is asked only about an inspected failure that the policy does not deny and whose
\* evidence speaks of a repair.
Justified ==
  phase \in {"checking", "calling", "creating"} \/ Asked =>
    /\ phase # "asking" /\ inspection = "returned"
    /\ Outcome # "denied"
    /\ SpeaksOfRepair

\* A candidate is created only from a stored reply whose patch is acceptable.
Validated ==
  phase = "creating" \/ pc[Repairer] # "start" =>
    Ended /\ success /\ patch \in Patches /\ Acceptable(patch)

\* From the check on, the source is the whole text of the version inspected.
Sourced ==
  phase \in {"calling", "creating"} \/ Asked =>
    inspection = "returned" /\ hash # 0 /\ ~document["code"].truncated

GenerationInv == InOrder /\ Justified /\ Validated /\ Sourced

AllInv == PolicyInv /\ CallInv /\ CreateInv /\ InspectionInv /\ GenerationInv

\* A step of the generation is a step of each of its parts, or none.
LEMMA StepsOfParts ==
  [GenerationNext]_generationVars =>
    /\ [PolicyNext]_policyVars
    /\ [CallNext]_callVars
    /\ [CreateNext]_createVars
    /\ [Inspect \/ Deploy]_inspectionVars
  <1> SUFFICES ASSUME [GenerationNext]_generationVars
               PROVE  /\ [PolicyNext]_policyVars /\ [CallNext]_callVars /\ [CreateNext]_createVars
                      /\ [Inspect \/ Deploy]_inspectionVars
    OBVIOUS
  <1>1. CASE UNCHANGED generationVars
    BY <1>1 DEF generationVars
  <1>2. CASE Ask
    BY <1>2 DEF Ask
  <1>3. CASE InspectFailure \/ OthersDeploy
    BY <1>3 DEF InspectFailure, OthersDeploy
  <1>4. CASE Decide \/ CheckContext \/ Validate \/ Conclude
    BY <1>4 DEF Decide, CheckContext, Validate, Conclude
  <1>5. CASE Call
    BY <1>5 DEF Call
  <1>6. CASE CreateRepair \/ OthersCreate
    BY <1>6, GenerationAssumption DEF CreateRepair, OthersCreate, CreateNext
  <1>7. QED
    BY <1>1, <1>2, <1>3, <1>4, <1>5, <1>6 DEF GenerationNext, Repair

\* The evaluator, the invocation and the creation keep their own specifications when they
\* run inside a repair: what is proved of each of them holds there too.
THEOREM PartsRun == GenerationSpec => PolicySpec /\ CallSpec /\ CreateSpec /\ InspectionSteps
  <1>1. GenerationInit => PolicyInit /\ CallInit /\ CreateInit /\ InspectionInit
    BY DEF GenerationInit
  <1>2. QED
    BY <1>1, StepsOfParts, PTL DEF GenerationSpec, PolicySpec, CallSpec, CreateSpec, InspectionSteps

LEMMA PartsInvariance == GenerationSpec => [](PolicyInv /\ CallInv /\ CreateInv /\ InspectionInv)
  BY PartsRun, PolicyInvariance, CallInvariance, CreateInvariance, InspectionInvariance, PTL

LEMMA GenerationInitInv == GenerationInit => GenerationInv
  BY GenerationAssumption
  DEF GenerationInit, InspectionInit, CallInit, CreateInit, GenerationInv, InOrder, Justified, Validated,
      Sourced, Asked, Ends

\* What the decisions rest on does not change once they are taken.
LEMMA SameOutcome == UNCHANGED policyVars => Outcome' = Outcome
  BY DEF policyVars, Outcome, DeclaredLevel, Exceeds, Bounded

LEMMA SameSigns == UNCHANGED matched /\ SpeaksOfRepair => SpeaksOfRepair'
  BY DEF SpeaksOfRepair, Count

LEMMA SamePatch == UNCHANGED <<failed, patch>> /\ Acceptable(patch) => Acceptable(patch)'
  BY DEF Acceptable

\* The calls and the candidate follow from what was decided before: nothing they rest on
\* moves while they run.
LEMMA LaterPhases ==
  ASSUME AllInv, phase \in {"checking", "calling", "creating"} \union Ends, phase' # "asking",
         UNCHANGED policyVars, UNCHANGED <<failed, inspection, matched>>,
         phase' \in {"checking", "calling", "creating"} =>
           phase \in {"checking", "calling", "creating"},
         Asked' => Asked \/ phase \in {"checking", "calling", "creating"}
  PROVE  Justified'
  BY SameOutcome, SameSigns DEF AllInv, GenerationInv, Justified

\* The context does not move after the inspection has returned.
LEMMA SameContext ==
  ASSUME [GenerationNext]_generationVars, phase # "inspecting"
  PROVE  UNCHANGED <<failed, inspection, contextVars>>
  BY DEF GenerationNext, Repair, Ask, InspectFailure, Decide, CheckContext, Call, Validate,
         CreateRepair, Conclude, OthersCreate, OthersDeploy, Deploy, generationVars, inspectionVars

\* Only the check and a call bring a request nearer.
LEMMA RequestSteps ==
  ASSUME AllInv, [GenerationNext]_generationVars
  PROVE  /\ phase = "inspecting" => ~Asked' /\ phase' \notin {"calling", "creating"}
         /\ phase' = "calling" /\ phase # "calling" => CheckContext
         /\ phase' = "creating" /\ phase # "creating" => phase = "calling"
         /\ Asked' /\ ~Asked => phase = "calling"
  <1>1. phase = "inspecting" => ~Asked
    BY DEF AllInv, GenerationInv, InOrder, Asked
  <1>2. QED
    BY <1>1
    DEF GenerationNext, Repair, Ask, InspectFailure, Decide, CheckContext, Call, Validate,
        CreateRepair, Conclude, OthersCreate, OthersDeploy, Asked, MovesTo, Ends,
        generationVars, callVars

LEMMA SourcedStep ==
  ASSUME AllInv, [GenerationNext]_generationVars
  PROVE  Sourced'
  <1> SUFFICES ASSUME phase' \in {"calling", "creating"} \/ Asked'
               PROVE  (inspection = "returned" /\ hash # 0 /\ ~document["code"].truncated)'
    BY DEF Sourced
  <1>1. phase # "inspecting"
    BY RequestSteps
  <1>2. UNCHANGED <<inspection, hash, document>>
    BY <1>1, SameContext DEF contextVars
  <1>3. CASE CheckContext /\ phase' = "calling"
    BY <1>2, <1>3 DEF CheckContext, Complete, MovesTo, AllInv, GenerationInv, Justified
  <1>4. CASE phase \in {"calling", "creating"} \/ Asked
    BY <1>2, <1>4 DEF AllInv, GenerationInv, Sourced
  <1>5. QED
    BY <1>3, <1>4, RequestSteps

LEMMA GenerationStepInv ==
  ASSUME AllInv, [GenerationNext]_generationVars
  PROVE  GenerationInv'
  <1> USE DEF MovesTo
  <1>0. Sourced'
    BY SourcedStep
  <1>1. CASE UNCHANGED generationVars
    <2>1. /\ UNCHANGED <<phase, patch, failed, inspection, matched, stage, attempt, pc, success, action>>
          /\ UNCHANGED policyVars
      BY <1>1 DEF generationVars, inspectionVars, contextVars, policyVars, callVars, createVars
    <2>2. QED
      BY <1>0, <2>1, SameOutcome, SameSigns, SamePatch
      DEF AllInv, GenerationInv, InOrder, Justified, Validated, Asked, Ended
  <1>2. CASE Ask
    <2>1. /\ phase = "asking"
          /\ UNCHANGED <<phase, patch, failed, inspection, stage, attempt, pc, success>>
      BY <1>2 DEF Ask, inspectionVars, callVars, createVars
    <2>2. QED
      BY <1>0, <2>1 DEF AllInv, GenerationInv, InOrder, Justified, Validated, Asked
  <1>3. CASE InspectFailure
    <2>1. /\ phase = "inspecting"
          /\ UNCHANGED <<phase, patch, stage, attempt, pc, success, action>>
      BY <1>3 DEF InspectFailure, policyVars, callVars, createVars
    <2>2. QED
      BY <1>0, <2>1 DEF AllInv, GenerationInv, InOrder, Justified, Validated, Asked
  <1>4. CASE Decide
    <2>1. /\ phase = "inspecting"
          /\ UNCHANGED <<patch, failed, inspection, matched, stage, attempt, pc, success, action>>
          /\ UNCHANGED policyVars
          /\ \/ phase' \in {"raised", "policy_denied"}
             \/ /\ phase' = "checking" /\ inspection = "returned"
                /\ Category \in Repairable /\ Outcome # "denied"
      BY <1>4 DEF Decide, inspectionVars, contextVars, policyVars, callVars, createVars
    <2>2. phase' = "checking" => SpeaksOfRepair'
      BY <2>1, RepairableSpeaks, SameSigns DEF AllInv
    <2>3. ~Asked'
      BY <2>1 DEF AllInv, GenerationInv, InOrder, Asked
    <2>4. Justified'
      BY <2>1, <2>2, <2>3, SameOutcome DEF Justified
    <2>5. InOrder' /\ Validated'
      BY <2>1 DEF AllInv, GenerationInv, InOrder, Validated, Ends
    <2>6. QED
      BY <1>0, <2>4, <2>5 DEF GenerationInv
  <1>5. CASE CheckContext
    <2>1. /\ phase = "checking" /\ phase' \in {"calling", "raised"}
          /\ UNCHANGED <<patch, failed, inspection, matched, stage, attempt, pc, success, action>>
          /\ UNCHANGED policyVars
      BY <1>5 DEF CheckContext, inspectionVars, contextVars, policyVars, callVars, createVars
    <2>2. Justified'
      BY <2>1, LaterPhases DEF Asked
    <2>3. InOrder' /\ Validated'
      BY <2>1 DEF AllInv, GenerationInv, InOrder, Validated, Ends
    <2>4. QED
      BY <1>0, <2>2, <2>3 DEF GenerationInv
  <1>6. CASE Call
    <2>1. /\ phase = "calling"
          /\ UNCHANGED <<phase, patch, failed, inspection, matched, pc, action>>
          /\ UNCHANGED policyVars
      BY <1>6 DEF Call, inspectionVars, contextVars, policyVars, createVars
    <2>2. Justified'
      BY <2>1, LaterPhases DEF Asked
    <2>3. InOrder' /\ Validated'
      BY <2>1 DEF AllInv, GenerationInv, InOrder, Validated, Ends
    <2>4. QED
      BY <1>0, <2>2, <2>3 DEF GenerationInv
  <1>7. CASE Validate
    <2>1. /\ phase = "calling" /\ Ended
          /\ UNCHANGED <<failed, inspection, matched, stage, attempt, pc, success, action>>
          /\ UNCHANGED policyVars
          /\ \/ phase' = "creating" /\ success /\ patch' \in Patches /\ Acceptable(patch)'
             \/ phase' = "generation_rejected"
      <3>1. phase' = "creating" => success /\ patch' \in Patches /\ Acceptable(patch')
        BY <1>7 DEF Validate
      <3>2. UNCHANGED failed /\ (Acceptable(patch') => Acceptable(patch)')
        BY <1>7 DEF Validate, inspectionVars, Acceptable
      <3>3. QED
        BY <1>7, <3>1, <3>2
        DEF Validate, inspectionVars, contextVars, policyVars, callVars, createVars
    <2>2. Justified'
      BY <2>1, LaterPhases DEF Asked
    <2>3. InOrder' /\ Validated'
      BY <2>1 DEF AllInv, GenerationInv, InOrder, Validated, Ends, Ended
    <2>4. QED
      BY <1>0, <2>2, <2>3 DEF GenerationInv
  <1>8. CASE CreateRepair \/ Conclude
    <2>1. /\ phase = "creating" /\ phase' \in {"creating", "candidate_created", "raised"}
          /\ UNCHANGED <<patch, failed, inspection, matched, stage, attempt, success, action>>
          /\ UNCHANGED policyVars
      BY <1>8
      DEF CreateRepair, Conclude, inspectionVars, contextVars, policyVars, callVars
    <2>2. Justified'
      BY <2>1, LaterPhases DEF Asked, Ends
    <2>3. InOrder' /\ Validated'
      BY <2>1, SamePatch DEF AllInv, GenerationInv, InOrder, Validated, Ends, Ended
    <2>4. QED
      BY <1>0, <2>2, <2>3 DEF GenerationInv
  <1>9. CASE OthersCreate
    <2>1. /\ phase = "candidate_created"
          /\ UNCHANGED <<phase, patch, failed, inspection, matched, stage, attempt, success, action>>
          /\ UNCHANGED policyVars
      BY <1>9 DEF OthersCreate, inspectionVars, contextVars, policyVars, callVars
    <2>2. pc'[Repairer] = pc[Repairer]
      BY <1>9, GenerationAssumption
      DEF OthersCreate, Create, LookUp, ReturnExisting, CreateScript, CreateMetadata, Fail, GoTo,
          AllInv, CreateInv, CreateTypeOK
    <2>3. Justified'
      BY <2>1, LaterPhases DEF Asked, Ends
    <2>4. InOrder' /\ Validated'
      BY <2>1, <2>2, SamePatch DEF AllInv, GenerationInv, InOrder, Validated, Ends, Ended
    <2>5. QED
      BY <1>0, <2>3, <2>4 DEF GenerationInv
  <1>10. CASE OthersDeploy
    <2>1. /\ UNCHANGED <<phase, patch, failed, inspection, matched, stage, attempt, pc, success, action>>
          /\ UNCHANGED policyVars
      BY <1>10 DEF OthersDeploy, Deploy, contextVars, policyVars, callVars, createVars
    <2>2. QED
      BY <1>0, <2>1, SameOutcome, SameSigns, SamePatch
      DEF AllInv, GenerationInv, InOrder, Justified, Validated, Asked, Ended
  <1>11. QED
    BY <1>1, <1>2, <1>3, <1>4, <1>5, <1>6, <1>7, <1>8, <1>9, <1>10 DEF GenerationNext, Repair

LEMMA GenerationInvariance == GenerationSpec => []AllInv
  <1>1. GenerationInv /\ (PolicyInv /\ CallInv /\ CreateInv /\ InspectionInv)
          /\ [GenerationNext]_generationVars => GenerationInv'
    BY GenerationStepInv DEF AllInv
  <1>2. QED
    BY <1>1, PartsInvariance, GenerationInitInv, PTL DEF GenerationSpec, AllInv

-----------------------------------------------------------------------------
(* Theorems about the generation.                                           *)

\* Whatever is cut, dropped or unavailable, a context that is returned fits its limit and
\* states everything it has lost, for every evidence and every budget.
THEOREM ContextsAreHonest == GenerationSpec => []ContextIsHonest
  <1>1. InspectionInv => ContextIsHonest
    BY DEF InspectionInv, WholeOrFlagged, Stated, Fits, ContextIsHonest
  <1>2. QED
    BY <1>1, PartsInvariance, PTL

\* What is asked about is the whole text of the version inspected.
WholeSource == hash # 0 /\ Retained("code") = failed.size["code"]

LEMMA WholeSources == AllInv /\ Asked => WholeSource
  <1> SUFFICES ASSUME AllInv, Asked PROVE WholeSource
    OBVIOUS
  <1>1. inspection = "returned" /\ hash # 0 /\ ~document["code"].truncated
    BY DEF AllInv, GenerationInv, Sourced
  <1>2. document["code"].original = failed.size["code"]
    BY <1>1 DEF AllInv, InspectionInv, Stated
  <1>3. QED
    BY <1>1, <1>2 DEF AllInv, InspectionInv, WholeOrFlagged, Sections, WholeSource

\* Hermes is asked only after a check that found the inspected version active, and every
\* request is about the whole text of that one version, although versions are deployed
\* between the inspection and the check.
THEOREM SourcesAreCurrent == GenerationSpec => OnlyCurrentSources
  <1>1. AllInv /\ [GenerationNext]_generationVars =>
          (phase # "calling" /\ phase' = "calling" => hash = live /\ ~Asked)
    <2> SUFFICES ASSUME AllInv, [GenerationNext]_generationVars, phase # "calling", phase' = "calling"
                 PROVE  hash = live /\ ~Asked
      OBVIOUS
    <2>1. phase = "checking" /\ SameVersion
      BY RequestSteps DEF CheckContext, MovesTo
    <2>2. QED
      BY <2>1 DEF SameVersion, AllInv, GenerationInv, InOrder, Asked
  <1>2. AllInv /\ [GenerationNext]_generationVars => (Asked' /\ ~Asked => phase = "calling")
    BY RequestSteps
  <1>3. AllInv' /\ Asked' => WholeSource'
    BY WholeSources, PTL
  <1>4. AllInv /\ [GenerationNext]_generationVars => (Asked => hash' = hash)
    <2> SUFFICES ASSUME AllInv, [GenerationNext]_generationVars, Asked PROVE hash' = hash
      OBVIOUS
    <2>1. phase # "inspecting"
      BY DEF AllInv, GenerationInv, InOrder, Asked
    <2>2. QED
      BY <2>1, SameContext DEF contextVars
  <1>5. AllInv /\ AllInv' /\ [GenerationNext]_generationVars =>
          /\ phase # "calling" /\ phase' = "calling" => hash = live /\ ~Asked
          /\ Asked' /\ ~Asked => phase = "calling"
          /\ Asked' => hash' # 0 /\ Retained("code")' = failed'.size["code"]
          /\ Asked => hash' = hash
    BY <1>1, <1>2, <1>3, <1>4 DEF WholeSource
  <1>6. QED
    BY <1>5, GenerationInvariance, PTL DEF GenerationSpec, OnlyCurrentSources

\* A repair is asked for only with the active code and for a repairable pattern that was
\* found, and what the failure's classification did not see is warned of.
THEOREM RepairsRestOnWhatIsKnown == GenerationSpec => []RepairsWhatIsKnown
  <1>1. AllInv => RepairsWhatIsKnown
    <2> SUFFICES ASSUME AllInv, Asked PROVE RepairsWhatIsKnown
      BY DEF RepairsWhatIsKnown
    <2>1. inspection = "returned" /\ hash # 0 /\ \E p \in matched : p[1] \in Repairable
      BY DEF AllInv, GenerationInv, Justified, Sourced, SpeaksOfRepair
    <2>2. QED
      BY <2>1 DEF AllInv, InspectionInv, Warned, RepairsWhatIsKnown
  <1>2. QED
    BY <1>1, GenerationInvariance, PTL

\* A repair candidate exists only with its evidence: a stored raw and parsed reply, the
\* whole text of the version inspected, a patch of it that brings in nothing undeclared and
\* is no longer than allowed, and a policy that does not deny it.
THEOREM CandidatesAreEvidenced == GenerationSpec => []CandidateIsEvidenced
  <1>1. AllInv => CandidateIsEvidenced
    <2> SUFFICES ASSUME AllInv, script[key[Repairer]] = Repairer
                 PROVE  /\ {[kind |-> k, attempt |-> parsed] : k \in {"raw_response", "parsed_output"}}
                             \subseteq retained
                        /\ hash # 0 /\ Retained("code") = failed.size["code"]
                        /\ patch.brings \subseteq failed.declared \intersect Effects
                        /\ patch.lines <= AllowedLines(failed.lines)
                        /\ action = "modify_candidate" /\ Outcome # "denied"
      BY DEF CandidateIsEvidenced
    <2>1. pc[Repairer] # "start"
      BY GenerationAssumption DEF AllInv, CreateInv, Progress
    <2>2. Ended /\ success /\ patch \in Patches /\ Acceptable(patch)
      BY <2>1 DEF AllInv, GenerationInv, Validated
    <2>3. /\ parsed = attempt
          /\ Artifact("raw_response", attempt) \in retained
          /\ Artifact("parsed_output", attempt) \in retained
      BY <2>2 DEF AllInv, CallInv, AcceptedInv, EndInv
    <2>4. /\ patch.brings \subseteq failed.declared \intersect Effects
          /\ patch.lines <= AllowedLines(failed.lines)
      BY <2>2, PatchAssumption DEF Acceptable
    <2>5. Asked
      BY <2>2 DEF Asked, Ended
    <2>6. action = "modify_candidate" /\ Outcome # "denied"
      BY <2>5 DEF AllInv, GenerationInv, Justified, InOrder
    <2>7. hash # 0 /\ Retained("code") = failed.size["code"]
      BY <2>5, WholeSources DEF WholeSource
    <2>8. QED
      BY <2>3, <2>4, <2>6, <2>7 DEF Artifact
  <1>2. QED
    BY <1>1, GenerationInvariance, PTL

-----------------------------------------------------------------------------
(* Consumer impact and regression tests: a fact about numbers first.       *)

\* Every set of natural numbers with a member has a least one.
LEMMA Least ==
  ASSUME NEW S \in SUBSET Nat, S # {}
  PROVE  \E n \in S : \A k \in S : n <= k
<1>1. PICK m \in S : TRUE
  OBVIOUS
<1> DEFINE Below == {i \in 0..m : \A k \in 0..i : k \notin S}
           n == Cardinality(Below)
<1>2. 0 \in Int /\ m \in Int /\ m \in Nat
  BY <1>1
<1>3. IsFiniteSet(Below) /\ n \in Nat
  <2>1. IsFiniteSet(0..m)
    BY <1>2, FS_Interval
  <2>2. IsFiniteSet(Below)
    BY <2>1, FS_Subset, Zenon
  <2> HIDE DEF Below
  <2> QED BY <2>2, FS_CardinalityType
<1>4. \A i \in Below : i \in 0..m /\ 0..i \subseteq Below
  BY <1>2
<1>5. ASSUME NEW i \in Below PROVE i < n
  \* The i + 1 numbers up to i are all below.
  <2>1. IsFiniteSet(0..i) /\ Cardinality(0..i) = i + 1
    BY <1>4, FS_Interval
  <2> HIDE DEF Below
  <2>2. Cardinality(0..i) <= Cardinality(Below)
    BY <1>3, <1>4, <2>1, FS_Subset
  <2> QED BY <1>3, <1>4, <2>1, <2>2
<1>6. Below = 0..(n - 1)
  <2>1. IsFiniteSet(0..(n - 1)) /\ Cardinality(0..(n - 1)) = n
    <3>1. n - 1 \in Int BY <1>3
    <3> HIDE DEF n
    <3> QED BY <1>3, <3>1, FS_Interval
  <2>2. Below \subseteq 0..(n - 1)
    <3> HIDE DEF Below
    <3> QED BY <1>3, <1>4, <1>5
  <2> HIDE DEF Below
  <2> QED BY <2>1, <2>2, FS_Subset
<1>7. n <= m
  <2>1. m \notin Below
    BY <1>1, <1>2
  <2> HIDE DEF Below, n
  <2> QED BY <1>2, <1>3, <1>6, <2>1
<1>8. n \notin Below
  <2> HIDE DEF Below
  <2> QED BY <1>3, <1>5
<1>9. PICK k \in 0..n : k \in S
  <2> SUFFICES ASSUME \A k \in 0..n : k \notin S PROVE FALSE
    OBVIOUS
  <2>1. n \in 0..m
    BY <1>2, <1>3, <1>7
  <2> HIDE DEF n
  <2> QED BY <1>8, <2>1
<1>10. \A j \in 0..(n - 1) : j \notin S
  <2> HIDE DEF n
  <2>1. \A j \in Below : j \notin S
    BY <1>2
  <2> HIDE DEF Below
  <2> QED BY <1>6, <2>1
<1> HIDE DEF n, Below
<1>11. n \in S /\ \A j \in S : n <= j
  BY <1>3, <1>9, <1>10
<1> QED BY <1>11

-----------------------------------------------------------------------------
(* The traversal, on every dependency graph.                               *)

\* The capability v has been reached at distance n.
At(v, n) ==
  \/ v = Changed /\ n = 0
  \/ \E i \in 1..Len(impacted) : impacted[i].path = v /\ impacted[i].distance = n

\* Everything visited is reported, once and at one distance.
VisitedInv ==
  /\ visited = {Changed} \union Consumer
  /\ \A i \in 1..Len(impacted) : impacted[i].path # Changed
  /\ \A i, k \in 1..Len(impacted) : impacted[i].path = impacted[k].path => i = k

\* The queue is sorted by distance and spans at most two distances, and nothing
\* reported is further away than what still waits.
QueueInv ==
  /\ \A i \in 1..Len(queue) : queue[i].distance >= 1
  /\ \A i, k \in 1..Len(queue) : i <= k =>
       queue[i].distance <= queue[k].distance /\ queue[k].distance <= queue[i].distance + 1
  /\ \A i \in 1..Len(impacted), k \in 1..Len(queue) : impacted[i].distance <= queue[k].distance

\* Whatever was found was found from a capability it depends on, reached one step earlier.
Found(e) == e.path \in Consumers(e.via) /\ At(e.via, e.distance - 1)
ViaInv ==
  /\ \A i \in 1..Len(queue) : Found(queue[i])
  /\ \A i \in 1..Len(impacted) : Found(impacted[i])

\* Each consumer of what has been reached was reached, or waits, at most one step further.
Waits(c, n) == \E k \in 1..Len(queue) : queue[k].path = c /\ queue[k].distance <= n
FrontierInv ==
  \A v \in Capabilities, n \in Nat : At(v, n) =>
    \A c \in Consumers(v) : (\E m \in 0..(n + 1) : At(c, m)) \/ Waits(c, n + 1)

\* What has been reached is affected, and there is a chain as long as its distance.
Links(p, n, c) ==
  /\ p \in [0..n -> Capabilities]
  /\ p[0] = Changed /\ p[n] = c
  /\ \A i \in 1..n : p[i - 1] \in dependencies[p[i]]
Chained(c, n) == \E p \in [0..n -> Capabilities] : Links(p, n, c)
ReachedInv ==
  \A v \in Capabilities, n \in Nat : At(v, n) => v \in Affected /\ Chained(v, n)

ImpactInv == TypeOK /\ VisitedInv /\ QueueInv /\ ViaInv /\ FrontierInv /\ ReachedInv

-----------------------------------------------------------------------------
\* What a list of entries is: each of a set of capabilities, at one distance.
EntryList(new, S, n, v) ==
  /\ new \in Seq(Impact)
  /\ \A i \in 1..Len(new) : new[i].path \in S /\ new[i].distance = n /\ new[i].via = v
  /\ \A c \in S : \E i \in 1..Len(new) : new[i].path = c

\* An increasing list as long as its set leaves no member out.
LEMMA IncreasingIsOnto ==
  ASSUME NEW S \in SUBSET Nat, IsFiniteSet(S), NEW m, m = Cardinality(S), NEW f \in [1..m -> S],
         \A i, k \in 1..m : i < k => f[i] < f[k]
  PROVE  m \in Nat /\ \A c \in S : \E i \in 1..m : f[i] = c
<1>1. m \in Nat
  BY FS_CardinalityType
<1>2. \A i, k \in 1..m : f[i] = f[k] => i = k
  <2> SUFFICES ASSUME NEW i \in 1..m, NEW k \in 1..m, f[i] = f[k] PROVE i = k
    OBVIOUS
  <2>1. f[i] \in Nat /\ f[k] \in Nat
    OBVIOUS
  <2>2. ~(i < k) /\ ~(k < i)
    BY <2>1
  <2> QED BY <1>1, <2>2
<1>3. IsFiniteSet(1..m) /\ Cardinality(1..m) = m
  <2>1. 1 \in Int /\ m \in Int
    BY <1>1
  <2>2. IsFiniteSet(1..m) /\ Cardinality(1..m) = IF 1 > m THEN 0 ELSE m - 1 + 1
    BY <2>1, FS_Interval
  <2> QED BY <1>1, <2>2
<1>4. ASSUME NEW c \in S, \A i \in 1..m : f[i] # c PROVE FALSE
  \* The m positions would share the m - 1 other members.
  <2> DEFINE D == 1..m
             T == S \ {c}
  <2>1. IsFiniteSet(T) /\ Cardinality(T) = m - 1
    BY <1>1, FS_RemoveElement
  <2>2. f \in [D -> T]
    BY <1>4
  <2>3. IsFiniteSet(D) /\ Cardinality(T) < Cardinality(D)
    BY <1>1, <1>3, <2>1
  <2> HIDE DEF D, T
  <2>4. \E i, k \in D : i # k /\ f[i] = f[k]
    BY <2>1, <2>2, <2>3, FS_PigeonHole
  <2> QED BY <1>2, <2>4 DEF D
<1> QED BY <1>1, <1>4

\* What a list of entries is: each of a set of capabilities, at one distance.
LEMMA EntriesFacts ==
  ASSUME NEW S \in SUBSET Capabilities, NEW n \in Nat, NEW v \in Capabilities,
         NEW new \in Entries(S, n, v)
  PROVE  EntryList(new, S, n, v)
<1>1. IsFiniteSet(S) /\ S \in SUBSET Nat
  BY ImpactAssumption, FS_Subset
<1>2. PICK m : m = Cardinality(S) /\ m \in Nat
  BY <1>1, FS_CardinalityType
<1>3. /\ new \in [1..m -> [path : S, distance : {n}, via : {v}]]
      /\ \A i, k \in 1..m : i < k => new[i].path < new[k].path
  BY <1>2 DEF Entries
<1>4. \A i \in 1..m : new[i].path \in S /\ new[i].distance = n /\ new[i].via = v /\ new[i] \in Impact
  BY <1>3, ImpactAssumption DEF Impact
<1>5. new \in Seq(Impact) /\ Len(new) = m
  <2>1. new \in [1..m -> Impact]
    BY <1>3, <1>4
  <2> QED BY <1>2, <2>1
<1> DEFINE f == [i \in 1..m |-> new[i].path]
<1>6. f \in [1..m -> S] /\ \A i, k \in 1..m : i < k => f[i] < f[k]
  BY <1>3, <1>4
<1> HIDE DEF f
<1>7. \A c \in S : \E i \in 1..m : f[i] = c
  BY <1>1, <1>2, <1>6, IncreasingIsOnto
<1> QED BY <1>4, <1>5, <1>7 DEF EntryList, f

\* The affected capabilities are closed under dependency, and inside every closed set.
LEMMA AffectedFacts ==
  /\ Affected \subseteq Capabilities
  /\ Changed \in Affected
  /\ \A v \in Affected : Consumers(v) \subseteq Affected
  /\ \A S \in SUBSET Capabilities :
       Changed \in S /\ (\A v \in S : Consumers(v) \subseteq S) => Affected \subseteq S
<1>1. Affected \subseteq Capabilities /\ Changed \in Affected
  BY ImpactAssumption DEF Affected, Closed
<1>2. ASSUME NEW v \in Affected, NEW c \in Consumers(v) PROVE c \in Affected
  <2>1. c \in Capabilities /\ v \in dependencies[c]
    BY <1>2 DEF Consumers
  <2>2. ASSUME NEW S \in Closed PROVE c \in S
    <3>1. v \in S
      BY <1>2, <2>2 DEF Affected
    <3> QED BY <2>1, <2>2, <3>1 DEF Closed, DependOn
  <2> QED BY <2>1, <2>2 DEF Affected
<1>3. ASSUME NEW S \in SUBSET Capabilities, Changed \in S, \A v \in S : Consumers(v) \subseteq S
      PROVE  Affected \subseteq S
  <2>1. S \in Closed
    BY <1>3 DEF Closed, DependOn, Consumers
  <2> QED BY <2>1 DEF Affected
<1> QED BY <1>1, <1>2, <1>3

\* A chain grows by a consumer of its end.
LEMMA ChainGrows ==
  ASSUME NEW v \in Capabilities, NEW n \in Nat, NEW c \in Consumers(v), NEW p, Links(p, n, v)
  PROVE  \E q \in [0..(n + 1) -> Capabilities] : Links(q, n + 1, c) /\ q[n] = v
<1> DEFINE q == [i \in 0..(n + 1) |-> IF i = n + 1 THEN c ELSE p[i]]
<1>1. c \in Capabilities /\ v \in dependencies[c]
  BY DEF Consumers
<1>2. q[n + 1] = c /\ \A i \in 0..n : q[i] = p[i]
  OBVIOUS
<1>3. q \in [0..(n + 1) -> Capabilities]
  <2>1. \A i \in 0..(n + 1) : i = n + 1 \/ i \in 0..n
    OBVIOUS
  <2> QED BY <1>1, <2>1 DEF Links
<1> HIDE DEF q
<1>4. ASSUME NEW i \in 1..(n + 1) PROVE q[i - 1] \in dependencies[q[i]]
  <2>1. CASE i = n + 1
    <3>1. i - 1 = n /\ n \in 0..n BY <2>1
    <3> QED BY <1>1, <1>2, <2>1, <3>1 DEF Links
  <2>2. CASE i \in 1..n
    <3>1. i - 1 \in 0..n /\ i \in 0..n BY <2>2
    <3> QED BY <1>2, <2>2, <3>1 DEF Links
  <2> QED BY <2>1, <2>2
<1>5. 0 \in 0..n /\ n \in 0..n
  OBVIOUS
<1>6. q[0] = Changed /\ q[n] = v
  BY <1>2, <1>5 DEF Links
<1> QED BY <1>2, <1>3, <1>4, <1>6 DEF Links

\* What is found from a reached capability is affected and has a chain.
LEMMA FoundReached ==
  ASSUME NEW v \in Capabilities, NEW n \in Nat, NEW c \in Consumers(v), v \in Affected, Chained(v, n)
  PROVE  c \in Affected /\ Chained(c, n + 1)
<1>1. c \in Affected
  BY AffectedFacts
<1>2. PICK p \in [0..n -> Capabilities] : Links(p, n, v)
  BY DEF Chained
<1>3. PICK q \in [0..(n + 1) -> Capabilities] : Links(q, n + 1, c)
  BY <1>2, ChainGrows
<1> QED BY <1>1, <1>3 DEF Chained

\* The traversal starts at the changed capability, with its consumers waiting.
LEMMA ImpactInitially == Init => ImpactInv
<1> SUFFICES ASSUME Init PROVE ImpactInv
  OBVIOUS
<1>1. /\ visited = {Changed} /\ impacted = <<>> /\ Changed \in Capabilities
      /\ dependencies \in [Capabilities -> SUBSET Capabilities]
      /\ queue \in Entries(Consumers(Changed), 1, Changed)
  BY ImpactAssumption DEF Init
<1>2. Consumers(Changed) \in SUBSET Capabilities /\ 1 \in Nat
  BY DEF Consumers
<1>3. /\ queue \in Seq(Impact)
      /\ \A i \in 1..Len(queue) :
           queue[i].path \in Consumers(Changed) /\ queue[i].distance = 1 /\ queue[i].via = Changed
      /\ \A c \in Consumers(Changed) : \E i \in 1..Len(queue) : queue[i].path = c
  <2>1. EntryList(queue, Consumers(Changed), 1, Changed)
    BY <1>1, <1>2, EntriesFacts, Zenon
  <2> QED BY <2>1 DEF EntryList
<1>4. TypeOK
  BY <1>1, <1>3 DEF TypeOK
<1>5. VisitedInv /\ QueueInv
  BY <1>1, <1>3 DEF VisitedInv, QueueInv, Consumer
<1>6. \A v, n : At(v, n) <=> v = Changed /\ n = 0
  BY <1>1 DEF At
<1>7. ViaInv
  <2>1. ASSUME NEW i \in 1..Len(queue) PROVE Found(queue[i])
    <3>1. queue[i].distance - 1 = 0 BY <1>3
    <3> QED BY <1>3, <1>6, <3>1 DEF Found
  <2> QED BY <1>1, <2>1 DEF ViaInv
<1>8. FrontierInv
  <2> SUFFICES ASSUME NEW c \in Consumers(Changed) PROVE Waits(c, 0 + 1)
    BY <1>6 DEF FrontierInv
  <2> QED BY <1>3 DEF Waits
<1>9. Chained(Changed, 0)
  <2> DEFINE p == [i \in 0..0 |-> Changed]
  <2>1. p \in [0..0 -> Capabilities] /\ p[0] = Changed
    BY <1>1
  <2> HIDE DEF p
  <2> QED BY <2>1 DEF Chained, Links
<1>10. ReachedInv
  BY <1>6, <1>9, AffectedFacts DEF ReachedInv
<1> QED BY <1>4, <1>5, <1>7, <1>8, <1>10 DEF ImpactInv

\* The entries of the queue and of the report have a capability and a distance.
LEMMA EntryTypes ==
  ASSUME TypeOK
  PROVE  /\ \A i \in 1..Len(queue) :
              queue[i] \in Impact /\ queue[i].path \in Capabilities /\ queue[i].distance \in Nat
              /\ queue[i].via \in Capabilities
         /\ \A i \in 1..Len(impacted) :
              impacted[i] \in Impact /\ impacted[i].path \in Capabilities /\ impacted[i].distance \in Nat
              /\ impacted[i].via \in Capabilities
<1>1. queue \in Seq(Impact) /\ impacted \in Seq(Impact)
  BY DEF TypeOK
<1>2. \A e \in Impact : e.path \in Capabilities /\ e.distance \in Nat /\ e.via \in Capabilities
  BY DEF Impact
<1>3. \A i \in 1..Len(queue) : queue[i] \in Impact
  BY <1>1
<1>4. \A i \in 1..Len(impacted) : impacted[i] \in Impact
  BY <1>1
<1> QED BY <1>2, <1>3, <1>4

\* What is visited has been reached, and nothing reached is further than what waits.
LEMMA VisitedIsReached ==
  ASSUME ImpactInv, NEW k \in 1..Len(queue), NEW c \in visited
  PROVE  \E m \in 0..queue[k].distance : At(c, m)
<1>1. queue[k].distance \in Nat
  BY EntryTypes DEF ImpactInv
<1>2. CASE c = Changed
  BY <1>1, <1>2 DEF At
<1>3. CASE c \in Consumer
  <2>1. PICK i \in 1..Len(impacted) : impacted[i].path = c
    BY <1>3 DEF Consumer
  <2>2. impacted[i].distance \in Nat /\ impacted[i].distance <= queue[k].distance
    BY <2>1, EntryTypes DEF ImpactInv, QueueInv
  <2> QED BY <1>1, <2>1, <2>2 DEF At
<1> QED BY <1>2, <1>3 DEF ImpactInv, VisitedInv

\* Dropping an entry loses nothing: its capability has been reached already, no further away.
LEMMA SkipKeepsInv == ImpactInv /\ Skip => ImpactInv'
<1> SUFFICES ASSUME ImpactInv, Skip PROVE ImpactInv'
  OBVIOUS
<1>1. /\ queue \in Seq(Impact) /\ queue # <<>> /\ queue' = Tail(queue)
      /\ Head(queue).path \in visited
      /\ dependencies' = dependencies /\ visited' = visited /\ impacted' = impacted
  BY DEF ImpactInv, TypeOK, Skip, Rest
<1>2. /\ queue' \in Seq(Impact) /\ Len(queue') = Len(queue) - 1 /\ Len(queue) \in Nat /\ Len(queue) > 0
      /\ \A i \in 1..Len(queue') : queue'[i] = queue[i + 1] /\ i + 1 \in 1..Len(queue)
      /\ Head(queue) = queue[1]
  BY <1>1
<1>3. \A v, n : At(v, n)' <=> At(v, n)
  BY <1>1 DEF At
<1>4. TypeOK' /\ VisitedInv'
  BY <1>1, <1>2 DEF ImpactInv, TypeOK, VisitedInv, Consumer
<1>5. QueueInv'
  <2>1. \A i \in 1..Len(queue') : queue'[i].distance >= 1
    BY <1>2 DEF ImpactInv, QueueInv
  <2>2. \A i, k \in 1..Len(queue') : i <= k =>
          queue'[i].distance <= queue'[k].distance /\ queue'[k].distance <= queue'[i].distance + 1
    <3> SUFFICES ASSUME NEW i \in 1..Len(queue'), NEW k \in 1..Len(queue'), i <= k
                 PROVE queue'[i].distance <= queue'[k].distance /\ queue'[k].distance <= queue'[i].distance + 1
      OBVIOUS
    <3>1. i + 1 \in 1..Len(queue) /\ k + 1 \in 1..Len(queue) /\ i + 1 <= k + 1
      BY <1>2
    <3>2. queue[i + 1].distance <= queue[k + 1].distance /\ queue[k + 1].distance <= queue[i + 1].distance + 1
      BY <3>1 DEF ImpactInv, QueueInv
    <3> QED BY <1>2, <3>2
  <2>3. \A i \in 1..Len(impacted'), k \in 1..Len(queue') : impacted'[i].distance <= queue'[k].distance
    BY <1>1, <1>2 DEF ImpactInv, QueueInv
  <2> QED BY <2>1, <2>2, <2>3 DEF QueueInv
<1>6. ViaInv'
  <2>1. \A e : Found(e)' <=> Found(e)
    BY <1>1, <1>3 DEF Found, Consumers
  <2>2. \A i \in 1..Len(queue') : Found(queue'[i])
    BY <1>2 DEF ImpactInv, ViaInv
  <2>3. \A i \in 1..Len(impacted') : Found(impacted'[i])
    BY <1>1 DEF ImpactInv, ViaInv
  <2> QED BY <2>1, <2>2, <2>3 DEF ViaInv
<1>7. FrontierInv'
  <2> SUFFICES ASSUME NEW v \in Capabilities, NEW n \in Nat, At(v, n), NEW c \in Consumers(v)
               PROVE  (\E m \in 0..(n + 1) : At(c, m)) \/ Waits(c, n + 1)'
    BY <1>1, <1>3 DEF FrontierInv, Consumers
  <2>1. (\E m \in 0..(n + 1) : At(c, m)) \/ Waits(c, n + 1)
    BY DEF ImpactInv, FrontierInv
  <2>2. CASE Waits(c, n + 1)
    <3>1. PICK k \in 1..Len(queue) : queue[k].path = c /\ queue[k].distance <= n + 1
      BY <2>2 DEF Waits
    <3>2. CASE k = 1
      <4>1. queue[1].distance \in Nat
        BY <3>2, EntryTypes DEF ImpactInv
      <4>2. \E m \in 0..queue[1].distance : At(c, m)
        BY <1>1, <1>2, <3>1, <3>2, VisitedIsReached
      <4> QED BY <3>1, <3>2, <4>1, <4>2
    <3>3. CASE k > 1
      <4>1. PICK j \in 1..Len(queue') : j + 1 = k
        <5>1. k - 1 \in 1..Len(queue') /\ (k - 1) + 1 = k
          BY <1>2, <3>3
        <5> QED BY <5>1
      <4>2. queue'[j] = queue[k]
        BY <1>2, <4>1
      <4> QED BY <3>1, <4>2 DEF Waits
    <3> QED BY <3>2, <3>3
  <2> QED BY <2>1, <2>2
<1>8. ReachedInv'
  <2>1. Affected' = Affected /\ \A v, n : Chained(v, n)' <=> Chained(v, n)
    BY <1>1 DEF Affected, Closed, DependOn, Chained, Links
  <2> QED BY <1>3, <2>1 DEF ImpactInv, ReachedInv
<1> QED BY <1>4, <1>5, <1>6, <1>7, <1>8 DEF ImpactInv

\* What Visit does to the two lists: the entries that wait move up, those found now
\* follow them, and the head joins the report.
Visits(new) ==
  LET r == Len(queue) - 1 IN
  /\ EntryList(new, Consumers(queue[1].path) \ visited', queue[1].distance + 1, queue[1].path)
  /\ queue' \in Seq(Impact) /\ r \in Nat /\ Len(new) \in Nat /\ Len(queue') = r + Len(new)
  /\ \A i \in 1..r : queue'[i] = queue[i + 1] /\ i + 1 \in 1..Len(queue)
  /\ \A i \in 1..Len(new) : queue'[r + i] = new[i]
  /\ \A i \in 1..Len(queue') : i \in 1..r \/ (i - r \in 1..Len(new) /\ queue'[i] = new[i - r])
  /\ impacted' \in Seq(Impact) /\ Len(impacted) \in Nat /\ Len(impacted') = Len(impacted) + 1
  /\ \A i \in 1..Len(impacted) : impacted'[i] = impacted[i]
  /\ impacted'[Len(impacted) + 1] = queue[1]

LEMMA VisitLists ==
  ASSUME TypeOK, Visit
  PROVE  /\ Len(queue) > 0 /\ queue[1].path \notin visited /\ queue[1] \in Impact
         /\ visited' = visited \union {queue[1].path} /\ dependencies' = dependencies
         /\ \E new \in Seq(Impact) : Visits(new)
<1>1. queue \in Seq(Impact) /\ queue # <<>> /\ Head(queue) = queue[1]
  BY DEF TypeOK, Visit
<1>2. Len(queue) \in Nat /\ Len(queue) > 0 /\ 1 \in 1..Len(queue)
  BY <1>1
<1>3. queue[1] \in Impact /\ queue[1].path \in Capabilities /\ queue[1].distance \in Nat
  BY <1>2, EntryTypes
<1>4. /\ queue[1].path \notin visited /\ visited' = visited \union {queue[1].path}
      /\ dependencies' = dependencies /\ impacted' = Append(impacted, queue[1])
  BY <1>1 DEF Visit
<1> DEFINE S == Consumers(queue[1].path) \ visited'
           n == queue[1].distance + 1
<1>5. PICK new \in Entries(S, n, queue[1].path) : queue' = Tail(queue) \o new
  BY <1>1 DEF Visit, NextDepth, Enqueue, Rest
<1>6. S \in SUBSET Capabilities /\ n \in Nat
  BY <1>3 DEF Consumers
<1>7. EntryList(new, S, n, queue[1].path)
  <2> HIDE DEF S, n
  <2> QED BY <1>3, <1>5, <1>6, EntriesFacts, Zenon
<1>8. new \in Seq(Impact)
  BY <1>7 DEF EntryList
<1> DEFINE t == Tail(queue)
<1>9. /\ t \in Seq(Impact) /\ Len(t) = Len(queue) - 1
      /\ \A i \in 1..Len(t) : t[i] = queue[i + 1] /\ i + 1 \in 1..Len(queue)
  BY <1>1, <1>2
<1>10. /\ queue' \in Seq(Impact) /\ Len(t) \in Nat /\ Len(new) \in Nat /\ Len(queue') = Len(t) + Len(new)
       /\ \A i \in 1..Len(t) : queue'[i] = t[i]
       /\ \A i \in 1..Len(new) : queue'[Len(t) + i] = new[i]
       /\ \A i \in 1..Len(queue') : i \in 1..Len(t) \/ (i - Len(t) \in 1..Len(new) /\ queue'[i] = new[i - Len(t)])
  <2>1. t \in Seq(Impact) BY <1>9
  <2>2. queue' = t \o new BY <1>5
  <2> HIDE DEF t
  <2>3. Len(t) \in Nat /\ Len(new) \in Nat
    BY <1>8, <2>1
  <2>4. queue' \in Seq(Impact) /\ Len(queue') = Len(t) + Len(new)
    BY <1>8, <2>1, <2>2
  <2>5. \A i \in 1..(Len(t) + Len(new)) : queue'[i] = IF i <= Len(t) THEN t[i] ELSE new[i - Len(t)]
    BY <1>8, <2>1, <2>2
  <2>6. \A i \in 1..Len(new) : queue'[Len(t) + i] = new[i]
    <3> SUFFICES ASSUME NEW i \in 1..Len(new) PROVE queue'[Len(t) + i] = new[i]
      OBVIOUS
    <3>1. Len(t) + i \in 1..(Len(t) + Len(new)) /\ ~(Len(t) + i <= Len(t)) /\ Len(t) + i - Len(t) = i
      BY <2>3
    <3> QED BY <2>5, <3>1
  <2> QED BY <2>3, <2>4, <2>5, <2>6
<1>11. /\ impacted' \in Seq(Impact) /\ Len(impacted) \in Nat /\ Len(impacted') = Len(impacted) + 1
       /\ \A i \in 1..Len(impacted) : impacted'[i] = impacted[i]
       /\ impacted'[Len(impacted) + 1] = queue[1]
  <2>1. impacted \in Seq(Impact) BY DEF TypeOK
  <2> QED BY <1>3, <1>4, <2>1
<1>12. Visits(new)
  <2> HIDE DEF t
  <2>1. Len(t) = Len(queue) - 1 BY <1>9
  <2> QED BY <1>7, <1>9, <1>10, <1>11, <2>1 DEF Visits
<1> QED BY <1>2, <1>3, <1>4, <1>8, <1>12

\* Reaching a capability keeps the invariant: its consumers that are not reached yet
\* wait behind everything found before.
LEMMA VisitKeepsInv == ImpactInv /\ Visit => ImpactInv'
<1> SUFFICES ASSUME ImpactInv, Visit PROVE ImpactInv'
  OBVIOUS
<1>0. PICK p, d, r : p = queue[1].path /\ d = queue[1].distance /\ r = Len(queue) - 1
  OBVIOUS
<1>1. TypeOK /\ VisitedInv /\ QueueInv /\ ViaInv /\ FrontierInv /\ ReachedInv
  BY DEF ImpactInv
<1>2. /\ Len(queue) > 0 /\ p \notin visited /\ queue[1] \in Impact
      /\ visited' = visited \union {p} /\ dependencies' = dependencies
  BY <1>0, <1>1, VisitLists
<1>3. PICK new \in Seq(Impact) : Visits(new)
  BY <1>1, VisitLists
<1>4. r \in Nat /\ Len(queue) \in Nat /\ 1 \in 1..Len(queue)
  BY <1>0, <1>2, <1>3 DEF Visits
<1>5. p \in Capabilities /\ d \in Nat /\ queue[1].via \in Capabilities /\ d >= 1
  BY <1>0, <1>1, <1>4, EntryTypes DEF QueueInv
<1>6. /\ Len(new) \in Nat /\ Len(queue') = r + Len(new)
      /\ \A i \in 1..r : queue'[i] = queue[i + 1] /\ i + 1 \in 1..Len(queue)
      /\ \A i \in 1..Len(new) : queue'[r + i] = new[i]
      /\ \A i \in 1..Len(queue') : i \in 1..r \/ (i - r \in 1..Len(new) /\ queue'[i] = new[i - r])
      /\ queue' \in Seq(Impact) /\ impacted' \in Seq(Impact)
  BY <1>0, <1>3 DEF Visits
<1>7. /\ Len(impacted) \in Nat /\ Len(impacted') = Len(impacted) + 1
      /\ \A i \in 1..Len(impacted) : impacted'[i] = impacted[i]
      /\ impacted'[Len(impacted) + 1] = queue[1]
  BY <1>3 DEF Visits
<1>8. /\ \A i \in 1..Len(new) : new[i].path \in Consumers(p) /\ new[i].distance = d + 1 /\ new[i].via = p
      /\ \A c \in Consumers(p) \ visited' : \E i \in 1..Len(new) : new[i].path = c
  BY <1>0, <1>3 DEF Visits, EntryList
<1>9. \A i \in 1..Len(impacted') : i \in 1..Len(impacted) \/ i = Len(impacted) + 1
  BY <1>7
<1>10. \A v, n : At(v, n)' <=> At(v, n) \/ (v = p /\ n = d)
  <2>1. ASSUME NEW v, NEW n, At(v, n)' PROVE At(v, n) \/ (v = p /\ n = d)
    BY <1>0, <1>7, <1>9, <2>1 DEF At
  <2>2. ASSUME NEW v, NEW n, At(v, n) PROVE At(v, n)'
    <3>1. \A i \in 1..Len(impacted) : i \in 1..Len(impacted')
      BY <1>7
    <3> QED BY <1>7, <2>2, <3>1 DEF At
  <2>3. At(p, d)'
    <3>1. Len(impacted) + 1 \in 1..Len(impacted')
      BY <1>7
    <3> QED BY <1>0, <1>7, <3>1 DEF At
  <2> QED BY <2>1, <2>2, <2>3
<1>11. TypeOK'
  BY <1>1, <1>2, <1>5, <1>6 DEF TypeOK
<1>12. VisitedInv'
  <2>1. Consumer' = Consumer \union {p}
    <3>1. Consumer' \subseteq Consumer \union {p}
      BY <1>0, <1>7, <1>9 DEF Consumer
    <3>2. \A i \in 1..Len(impacted) : i \in 1..Len(impacted')
      BY <1>7
    <3>3. Len(impacted) + 1 \in 1..Len(impacted')
      BY <1>7
    <3> QED BY <1>0, <1>7, <3>1, <3>2, <3>3 DEF Consumer
  <2>2. \A i \in 1..Len(impacted) : impacted[i].path # p /\ impacted[i].path # Changed
    BY <1>1, <1>2 DEF VisitedInv, Consumer
  <2>3. p # Changed
    BY <1>1, <1>2 DEF VisitedInv
  <2>4. \A i \in 1..Len(impacted') : impacted'[i].path # Changed
    BY <1>0, <1>7, <1>9, <2>2, <2>3
  <2>5. \A i, k \in 1..Len(impacted') : impacted'[i].path = impacted'[k].path => i = k
    BY <1>0, <1>1, <1>7, <1>9, <2>2 DEF VisitedInv
  <2> QED BY <1>1, <1>2, <2>1, <2>4, <2>5 DEF VisitedInv
<1>13. /\ \A i \in 1..r : queue'[i].distance \in Nat /\ d <= queue'[i].distance /\ queue'[i].distance <= d + 1
       /\ \A i \in 1..Len(queue') : i \in 1..r \/ (queue'[i].distance = d + 1 /\ i > r)
  <2>1. ASSUME NEW i \in 1..r
        PROVE  queue'[i].distance \in Nat /\ d <= queue'[i].distance /\ queue'[i].distance <= d + 1
    <3>1. queue'[i] = queue[i + 1] /\ i + 1 \in 1..Len(queue) /\ 1 <= i + 1
      BY <1>6
    <3>2. queue[i + 1].distance \in Nat
      BY <1>1, <3>1, EntryTypes
    <3>3. d <= queue[i + 1].distance /\ queue[i + 1].distance <= d + 1
      BY <1>0, <1>1, <1>4, <3>1 DEF QueueInv
    <3> QED BY <3>1, <3>2, <3>3
  <2>2. ASSUME NEW i \in 1..Len(queue'), i \notin 1..r PROVE queue'[i].distance = d + 1 /\ i > r
    BY <1>4, <1>6, <1>8, <2>2
  <2> QED BY <2>1, <2>2
<1>14. QueueInv'
  <2>1. ASSUME NEW i \in 1..Len(queue') PROVE queue'[i].distance >= 1
    BY <1>5, <1>13
  <2>2. ASSUME NEW i \in 1..Len(queue'), NEW k \in 1..Len(queue'), i <= k
        PROVE  queue'[i].distance <= queue'[k].distance /\ queue'[k].distance <= queue'[i].distance + 1
    <3>1. CASE i \in 1..r /\ k \in 1..r
      <4>1. i + 1 \in 1..Len(queue) /\ k + 1 \in 1..Len(queue) /\ i + 1 <= k + 1
        BY <1>6, <2>2, <3>1
      <4>2. queue[i + 1].distance <= queue[k + 1].distance /\ queue[k + 1].distance <= queue[i + 1].distance + 1
        BY <1>1, <4>1 DEF QueueInv
      <4> QED BY <1>6, <3>1, <4>2
    <3>2. CASE i \in 1..r /\ k \notin 1..r
      BY <1>5, <1>13, <3>2
    <3>3. CASE i \notin 1..r
      <4>1. k \notin 1..r
        BY <1>4, <1>13, <2>2, <3>3
      <4> QED BY <1>5, <1>13, <3>3, <4>1
    <3> QED BY <3>1, <3>2, <3>3
  <2>3. ASSUME NEW i \in 1..Len(impacted'), NEW k \in 1..Len(queue')
        PROVE  impacted'[i].distance <= queue'[k].distance
    <3>1. impacted'[i].distance \in Nat /\ impacted'[i].distance <= d
      <4>1. CASE i \in 1..Len(impacted)
        BY <1>0, <1>1, <1>4, <1>7, <4>1, EntryTypes DEF QueueInv
      <4>2. CASE i = Len(impacted) + 1
        BY <1>0, <1>5, <1>7, <4>2
      <4> QED BY <1>9, <4>1, <4>2
    <3> QED BY <1>5, <1>13, <3>1
  <2> QED BY <2>1, <2>2, <2>3 DEF QueueInv
<1>15. ViaInv'
  <2>1. ASSUME NEW e, Found(e) PROVE Found(e)'
    BY <1>2, <1>10, <2>1 DEF Found, Consumers
  <2>2. ASSUME NEW i \in 1..Len(queue'), NEW e, e = queue'[i] PROVE Found(e)'
    <3>1. CASE i \in 1..r
      <4>1. Found(e)
        BY <1>1, <1>6, <2>2, <3>1 DEF ViaInv
      <4> QED BY <2>1, <4>1
    <3>2. CASE i - r \in 1..Len(new) /\ queue'[i] = new[i - r]
      <4>1. e.path \in Consumers(p) /\ e.distance = d + 1 /\ e.via = p
        BY <1>8, <2>2, <3>2
      <4>2. e.distance - 1 = d
        BY <1>5, <4>1
      <4> QED BY <1>2, <1>10, <4>1, <4>2 DEF Found, Consumers
    <3> QED BY <1>6, <3>1, <3>2
  <2>3. ASSUME NEW i \in 1..Len(impacted'), NEW e, e = impacted'[i] PROVE Found(e)'
    <3>1. Found(e)
      BY <1>1, <1>4, <1>7, <1>9, <2>3 DEF ViaInv
    <3> QED BY <2>1, <3>1
  <2> QED BY <2>2, <2>3 DEF ViaInv
<1>16. FrontierInv'
  <2> SUFFICES ASSUME NEW v \in Capabilities, NEW n \in Nat, At(v, n)', NEW c \in Consumers(v)
               PROVE  (\E m \in 0..(n + 1) : At(c, m)') \/ Waits(c, n + 1)'
    BY <1>2 DEF FrontierInv, Consumers
  <2>1. CASE At(v, n)
    <3>1. CASE \E m \in 0..(n + 1) : At(c, m)
      BY <1>10, <3>1
    <3>2. CASE Waits(c, n + 1)
      <4>1. PICK k \in 1..Len(queue) : queue[k].path = c /\ queue[k].distance <= n + 1
        BY <3>2 DEF Waits
      <4>2. CASE k = 1
        <5>1. c = p /\ d <= n + 1
          BY <1>0, <4>1, <4>2
        <5> QED BY <1>5, <1>10, <5>1
      <4>3. CASE k > 1
        <5>1. k - 1 \in 1..r /\ k - 1 \in 1..Len(queue') /\ (k - 1) + 1 = k
          BY <1>0, <1>4, <1>6, <4>3
        <5>2. queue'[k - 1] = queue[k]
          BY <1>6, <5>1
        <5> QED BY <4>1, <5>1, <5>2 DEF Waits
      <4> QED BY <4>2, <4>3
    <3> QED BY <1>1, <2>1, <3>1, <3>2 DEF FrontierInv
  <2>2. CASE v = p /\ n = d
    <3>1. CASE c \in visited
      <4>1. \E m \in 0..d : At(c, m)
        BY <1>0, <1>4, <3>1, VisitedIsReached
      <4> QED BY <1>5, <1>10, <2>2, <4>1
    <3>2. CASE c = p
      BY <1>5, <1>10, <2>2, <3>2
    <3>3. CASE c \notin visited'
      <4>1. PICK i \in 1..Len(new) : new[i].path = c /\ new[i].distance = d + 1
        BY <1>8, <2>2, <3>3
      <4>2. r + i \in 1..Len(queue') /\ queue'[r + i] = new[i]
        BY <1>4, <1>6
      <4> QED BY <1>5, <2>2, <4>1, <4>2 DEF Waits
    <3> QED BY <1>2, <3>1, <3>2, <3>3
  <2> QED BY <1>10, <2>1, <2>2
<1>17. ReachedInv'
  <2>1. Affected' = Affected /\ \A v, n : Chained(v, n)' <=> Chained(v, n)
    BY <1>2 DEF Affected, Closed, DependOn, Chained, Links
  <2>2. p \in Affected /\ Chained(p, d)
    <3>1. p \in Consumers(queue[1].via) /\ At(queue[1].via, d - 1)
      BY <1>0, <1>1, <1>4 DEF ViaInv, Found
    <3>2. d - 1 \in Nat /\ (d - 1) + 1 = d
      BY <1>5
    <3>3. queue[1].via \in Affected /\ Chained(queue[1].via, d - 1)
      BY <1>1, <1>5, <3>1, <3>2 DEF ReachedInv
    <3>4. p \in Affected /\ Chained(p, (d - 1) + 1)
      BY <1>5, <3>1, <3>2, <3>3, FoundReached
    <3> QED BY <3>2, <3>4
  <2> QED BY <1>1, <1>10, <2>1, <2>2 DEF ReachedInv
<1> QED BY <1>11, <1>12, <1>14, <1>15, <1>16, <1>17 DEF ImpactInv

\* Every step of the traversal keeps the invariant.
LEMMA ImpactStep == ImpactInv /\ [Next]_vars => ImpactInv'
<1> SUFFICES ASSUME ImpactInv, [Next]_vars PROVE ImpactInv'
  OBVIOUS
<1>1. CASE UNCHANGED vars
  <2>1. dependencies' = dependencies /\ queue' = queue /\ visited' = visited /\ impacted' = impacted
    BY <1>1 DEF vars
  <2>2. TypeOK' /\ VisitedInv' /\ QueueInv'
    BY <2>1 DEF ImpactInv, TypeOK, VisitedInv, Consumer, QueueInv
  <2>3. ViaInv' /\ FrontierInv'
    BY <2>1 DEF ImpactInv, ViaInv, Found, FrontierInv, Waits, At, Consumers
  <2>4. ReachedInv'
    <3>1. Affected' = Affected /\ \A v, n : Chained(v, n)' <=> Chained(v, n)
      BY <2>1 DEF Affected, Closed, DependOn, Chained, Links
    <3>2. \A v, n : At(v, n)' <=> At(v, n)
      BY <2>1 DEF At
    <3> QED BY <3>1, <3>2 DEF ImpactInv, ReachedInv
  <2> QED BY <2>2, <2>3, <2>4 DEF ImpactInv
<1> QED BY <1>1, SkipKeepsInv, VisitKeepsInv DEF Next

\* A chain leads to nothing nearer than where it was reported: the first capability of the
\* chain that was not reached in time would still wait in front of it.
LEMMA NoShorterChain ==
  ASSUME ImpactInv, NEW i \in 1..Len(impacted), NEW n \in Nat,
         NEW p, Links(p, n, impacted[i].path)
  PROVE  impacted[i].distance <= n
<1> SUFFICES ASSUME ~(impacted[i].distance <= n) PROVE FALSE
  OBVIOUS
<1>1. TypeOK /\ VisitedInv /\ QueueInv /\ FrontierInv
  BY DEF ImpactInv
<1>2. impacted[i].distance \in Nat /\ n < impacted[i].distance
  BY <1>1, EntryTypes
<1> DEFINE Late == {j \in 0..n : ~\E m \in 0..j : At(p[j], m)}
<1>3. n \in Late
  <2> SUFFICES ASSUME NEW m \in 0..n, At(p[n], m) PROVE FALSE
    OBVIOUS
  <2>1. p[n] # Changed
    BY <1>1 DEF VisitedInv, Links
  <2>2. PICK k \in 1..Len(impacted) : impacted[k].path = impacted[i].path /\ impacted[k].distance = m
    BY <2>1 DEF At, Links
  <2>3. k = i
    BY <1>1, <2>2 DEF VisitedInv
  <2> QED BY <1>2, <2>2, <2>3
<1>4. PICK j \in Late : \A k \in Late : j <= k
  <2>1. Late \in SUBSET Nat /\ Late # {}
    BY <1>3
  <2> HIDE DEF Late
  <2> QED BY <2>1, Least
<1>5. j \in 0..n /\ ~\E m \in 0..j : At(p[j], m)
  OBVIOUS
<1>6. j # 0
  BY <1>5 DEF At, Links
<1>7. j - 1 \in 0..n /\ j - 1 \notin Late
  BY <1>4, <1>5, <1>6
<1>8. PICK m \in 0..(j - 1) : At(p[j - 1], m)
  BY <1>7
<1>9. p[j] \in Consumers(p[j - 1]) /\ p[j - 1] \in Capabilities
  BY <1>5, <1>6, <1>7 DEF Consumers, Links
<1> HIDE DEF Late
<1>10. (\E k \in 0..(m + 1) : At(p[j], k)) \/ Waits(p[j], m + 1)
  <2>1. m \in Nat BY <1>7, <1>8
  <2> QED BY <1>1, <1>8, <1>9, <2>1 DEF FrontierInv
<1>11. PICK k \in 1..Len(queue) : queue[k].distance <= m + 1
  BY <1>5, <1>8, <1>10 DEF Waits
<1>12. impacted[i].distance <= queue[k].distance /\ queue[k].distance \in Nat
  BY <1>1, EntryTypes DEF QueueInv
<1> QED BY <1>2, <1>5, <1>8, <1>11, <1>12

\* The chains of the property are the functions that start at the changed capability, end
\* where they should and follow dependencies.
LEMMA ChainsAre ==
  ASSUME TypeOK, NEW n \in Nat, n > 0, NEW c \in Capabilities, NEW p
  PROVE  p \in Chains(c, n) <=> Links(p, n, c)
<1>1. ASSUME p \in Chains(c, n) PROVE Links(p, n, c)
  <2>1. PICK between \in [1..(n - 1) -> Capabilities] :
          p = [i \in 0..n |-> IF i = 0 THEN Changed ELSE IF i = n THEN c ELSE between[i]]
    BY <1>1 DEF Chains
  <2>2. \A i \in 0..n : i # 0 /\ i # n => i \in 1..(n - 1)
    OBVIOUS
  <2>3. p \in [0..n -> Capabilities] /\ p[0] = Changed /\ p[n] = c
    BY <2>1, <2>2, ImpactAssumption
  <2> QED BY <1>1, <2>3 DEF Chains, Links
<1>2. ASSUME Links(p, n, c) PROVE p \in Chains(c, n)
  <2> DEFINE between == [i \in 1..(n - 1) |-> p[i]]
             q == [i \in 0..n |-> IF i = 0 THEN Changed ELSE IF i = n THEN c ELSE between[i]]
  <2>1. between \in [1..(n - 1) -> Capabilities]
    BY <1>2 DEF Links
  <2>2. \A i \in 0..n : q[i] = p[i]
    <3>1. \A i \in 0..n : i = 0 \/ i = n \/ i \in 1..(n - 1)
      OBVIOUS
    <3> QED BY <1>2, <3>1 DEF Links
  <2>3. p = q
    <3>1. p = [i \in 0..n |-> p[i]]
      BY <1>2 DEF Links
    <3> QED BY <2>2, <3>1
  <2> HIDE DEF between
  <2> QED BY <1>2, <2>1, <2>3 DEF Chains, Links
<1> QED BY <1>1, <1>2

\* At any time what is reported is at its shortest distance, and what has been reported
\* when nothing waits is everything affected.
LEMMA ImpactFollows == ImpactInv => ImpactIsExact
<1> SUFFICES ASSUME ImpactInv PROVE ImpactIsExact
  OBVIOUS
<1>1. TypeOK /\ VisitedInv /\ QueueInv /\ ViaInv /\ FrontierInv /\ ReachedInv
  BY DEF ImpactInv
<1>2. \A v \in visited : \E n \in Nat : At(v, n)
  <2>1. At(Changed, 0) /\ 0 \in Nat
    BY DEF At
  <2>2. \A v \in Consumer : \E n \in Nat : At(v, n)
    BY <1>1, EntryTypes DEF Consumer, At
  <2> QED BY <1>1, <2>1, <2>2 DEF VisitedInv
<1>3. \A v, n : At(v, n) => v \in visited
  BY <1>1 DEF At, VisitedInv, Consumer
<1>4. ASSUME Done PROVE {Changed} \union Consumer = Affected
  <2>1. visited \subseteq Affected
    BY <1>1, <1>2 DEF TypeOK, ReachedInv
  <2>2. ASSUME NEW v \in visited PROVE Consumers(v) \subseteq visited
    <3>1. PICK n \in Nat : At(v, n)
      BY <1>2
    <3>2. v \in Capabilities
      BY <1>1 DEF TypeOK
    <3>3. \A c : ~Waits(c, n + 1)
      BY <1>4 DEF Done, Waits
    <3> QED BY <1>1, <1>3, <3>1, <3>2, <3>3 DEF FrontierInv
  <2>3. Affected \subseteq visited
    BY <1>1, <2>2, AffectedFacts DEF TypeOK, VisitedInv
  <2> QED BY <1>1, <2>1, <2>3 DEF VisitedInv
<1>5. ASSUME NEW i \in 1..Len(impacted), NEW e, e = impacted[i]
      PROVE  /\ \E p \in Chains(e.path, e.distance) : p[e.distance - 1] = e.via
             /\ \A n \in 1..(e.distance - 1) : Chains(e.path, n) = {}
  <2>1. e.path \in Capabilities /\ e.distance \in Nat /\ e.via \in Capabilities
    BY <1>1, <1>5, EntryTypes
  <2>2. e.path \in Consumers(e.via) /\ At(e.via, e.distance - 1)
    BY <1>1, <1>5 DEF ViaInv, Found
  <2>3. e.distance - 1 \in Nat
    BY <1>1, <2>2, EntryTypes DEF At
  <2>4. PICK m \in Nat, v \in Capabilities, c \in Capabilities :
          m = e.distance - 1 /\ m + 1 = e.distance /\ v = e.via /\ c = e.path
    BY <2>1, <2>3
  <2>5. Chained(v, m) /\ c \in Consumers(v)
    BY <1>1, <2>2, <2>4 DEF ReachedInv
  <2>6. PICK p \in [0..m -> Capabilities] : Links(p, m, v)
    BY <2>5 DEF Chained
  <2>7. PICK q \in [0..(m + 1) -> Capabilities] : Links(q, m + 1, c) /\ q[m] = v
    BY <2>5, <2>6, ChainGrows
  <2>8. \E x \in Chains(e.path, e.distance) : x[e.distance - 1] = e.via
    <3>1. m + 1 \in Nat /\ m + 1 > 0
      OBVIOUS
    <3>2. q \in Chains(c, m + 1)
      BY <1>1, <2>7, <3>1, ChainsAre
    <3> QED BY <2>4, <2>7, <3>2
  <2>9. ASSUME NEW n \in 1..(e.distance - 1), NEW s \in Chains(e.path, n) PROVE FALSE
    <3>1. n \in Nat /\ n > 0 /\ n < e.distance
      BY <2>1, <2>9
    <3>2. Links(s, n, e.path)
      BY <1>1, <2>1, <2>9, <3>1, ChainsAre
    <3>3. impacted[i].distance <= n
      BY <1>5, <3>1, <3>2, NoShorterChain
    <3> QED BY <1>5, <2>1, <3>1, <3>3
  <2> QED BY <2>8, <2>9
<1> QED BY <1>1, <1>4, <1>5 DEF ImpactIsExact, VisitedInv

\* The result of the traversal is exact at every step.
THEOREM ImpactsAreExact == Spec => []ImpactIsExact
  BY ImpactInitially, ImpactStep, ImpactFollows, PTL DEF Spec

-----------------------------------------------------------------------------
(* Steps 6 and 7, for every set of tests and every catalogue.              *)

\* The selection holds the tests of the changed capability, and those tests of what
\* depends on it that are contracts.
IsSelected(t) == \E i \in 1..Len(selection) : selection[i].test = t
IsDue(t) ==
  t \in requirements[Changed] \/ (t \in contracts /\ \E c \in Consumer : t \in requirements[c])
SelectionInv ==
  /\ status # "selecting" => Done
  /\ status \notin {"selecting", "raised"} => \A t \in Tests : IsSelected(t) <=> IsDue(t)

\* The evidence is about the tests of the selection, in its order.
RanInv ==
  /\ status = "selecting" => evidence = <<>> /\ selection = <<>>
  /\ Len(evidence) <= Len(selection)
  /\ \A i \in 1..Len(evidence) : evidence[i].test = selection[i].test

\* A preparation is reached with every selected test run and passed, and ends by what is
\* required.
JudgedInv ==
  /\ status \in {"preparing", "ready_for_approval", "refused"} =>
       AllPassed /\ Len(evidence) = Len(selection)
  /\ status = "ready_for_approval" => required_tests \subseteq EndedWith("passed")
  /\ status = "refused" => ~(required_tests \subseteq EndedWith("passed"))

RunInv == ImpactInv /\ RunTypeOK /\ SelectionInv /\ RanInv /\ JudgedInv

-----------------------------------------------------------------------------
\* The entries in the order they are met are the changed capability and its consumers.
LEMMA OrderedAre ==
  ASSUME TypeOK
  PROVE  /\ Len(Ordered) \in Nat /\ \A i \in 1..Len(Ordered) : Ordered[i] \in Capabilities
         /\ \A i \in 1..Len(Ordered) : Ordered[i] \in {Changed} \union Consumer
         /\ \A c \in {Changed} \union Consumer : \E i \in 1..Len(Ordered) : Ordered[i] = c
<1> DEFINE paths == [i \in 1..Len(impacted) |-> impacted[i].path]
<1>1. impacted \in Seq(Impact) /\ Len(impacted) \in Nat
  BY DEF TypeOK
<1>2. paths \in Seq(Capabilities) /\ Len(paths) = Len(impacted)
  BY <1>1, EntryTypes
<1>3. \A i \in 1..Len(impacted) : paths[i] = impacted[i].path
  OBVIOUS
<1>4. Ordered = <<Changed>> \o paths
  BY DEF Ordered
<1> HIDE DEF paths
<1>5. /\ Ordered \in Seq(Capabilities) /\ Len(Ordered) = Len(impacted) + 1
      /\ Ordered[1] = Changed
      /\ \A i \in 2..Len(Ordered) : Ordered[i] = paths[i - 1]
  BY <1>1, <1>2, <1>4, ImpactAssumption
<1>6. ASSUME NEW i \in 1..Len(Ordered) PROVE Ordered[i] \in {Changed} \union Consumer
  <2>1. CASE i = 1
    BY <1>5, <2>1
  <2>2. CASE i > 1
    <3>1. i \in 2..Len(Ordered) /\ i - 1 \in 1..Len(impacted)
      BY <1>1, <1>5, <2>2
    <3> QED BY <1>3, <1>5, <3>1 DEF Consumer
  <2> QED BY <2>1, <2>2
<1>7. ASSUME NEW c \in {Changed} \union Consumer PROVE \E i \in 1..Len(Ordered) : Ordered[i] = c
  <2>1. CASE c = Changed
    <3>1. 1 \in 1..Len(Ordered) BY <1>1, <1>5
    <3> QED BY <1>5, <2>1, <3>1
  <2>2. CASE c \in Consumer
    <3>1. PICK i \in 1..Len(impacted) : impacted[i].path = c
      BY <2>2 DEF Consumer
    <3>2. i + 1 \in 2..Len(Ordered) /\ i + 1 \in 1..Len(Ordered) /\ (i + 1) - 1 = i
      BY <1>1, <1>5
    <3> QED BY <1>3, <1>5, <3>1, <3>2
  <2> QED BY <2>1, <2>2
<1> QED BY <1>1, <1>5, <1>6, <1>7

\* A list of selected tests holds exactly those that are due, each for one of the entries.
Selects(sel, req, light) ==
  /\ sel \in Seq([test : Tests \union {Fixture}, run_for_capability : Capabilities])
  /\ \A t \in Tests : (\E i \in 1..Len(sel) : sel[i].test = t)
       <=> t \in req[Changed] \/ (t \in light /\ \E c \in Consumer : t \in req[c])

\* The first entry that includes a test exists, and the list misses no test.
LEMMA SelectedFacts ==
  ASSUME TypeOK, NEW req \in [Capabilities -> SUBSET Tests], NEW light \in SUBSET Tests,
         NEW fixtures \in {{}, {Fixture}}, NEW sel \in Selected(req, light, fixtures)
  PROVE  Selects(sel, req, light)
<1> DEFINE ids == {t \in Tests : Includers(t, req, light) # {}} \union fixtures
           run_for(t) == IF t \in Tests THEN Ordered[First(Includers(t, req, light))] ELSE Changed
           choices == {[test |-> t, run_for_capability |-> run_for(t)] : t \in ids}
           Selection == [test : Tests \union {Fixture}, run_for_capability : Capabilities]
<1>1. /\ sel \in [1..Cardinality(ids) -> choices]
      /\ \A i, k \in 1..Cardinality(ids) : i < k => sel[i].test < sel[k].test
  BY DEF Selected
<1>2. ids \in SUBSET Nat /\ ids \subseteq Tests \union {Fixture} /\ IsFiniteSet(ids)
  <2>1. ids \subseteq Tests \union {Fixture}
    OBVIOUS
  <2>2. IsFiniteSet(Tests \union {Fixture})
    BY RegressionAssumption, FS_AddElement
  <2> HIDE DEF ids
  <2> QED BY <2>1, <2>2, RegressionAssumption, FS_Subset
<1>3. ASSUME NEW t \in ids PROVE run_for(t) \in Capabilities
  <2>1. CASE t \in Tests
    <3> DEFINE S == Includers(t, req, light)
    <3>1. S # {} /\ S \subseteq 1..Len(Ordered)
      BY <1>3, <2>1, RegressionAssumption DEF Includers
    <3>2. \E i \in S : \A k \in S : i <= k
      <4>1. S \in SUBSET Nat BY <3>1
      <4> HIDE DEF S
      <4> QED BY <3>1, <4>1, Least
    <3>3. First(S) \in S
      <4> HIDE DEF S
      <4> QED BY <3>2 DEF First
    <3> QED BY <2>1, <3>1, <3>3, OrderedAre
  <2>2. CASE t \notin Tests
    BY <2>2, ImpactAssumption
  <2> QED BY <2>1, <2>2
<1>4. \A x \in choices : x \in Selection /\ x.test \in ids
  BY <1>2, <1>3
<1>5. \A t \in Tests : t \in ids
        <=> t \in req[Changed] \/ (t \in light /\ \E c \in Consumer : t \in req[c])
  <2> SUFFICES ASSUME NEW t \in Tests
               PROVE  Includers(t, req, light) # {}
                        <=> t \in req[Changed] \/ (t \in light /\ \E c \in Consumer : t \in req[c])
    BY RegressionAssumption
  <2>1. Includers(t, req, light) # {}
          <=> \E i \in 1..Len(Ordered) : t \in req[Ordered[i]] /\ Included(t, light, Ordered[i])
    BY DEF Includers
  <2>2. (\E i \in 1..Len(Ordered) : t \in req[Ordered[i]] /\ Included(t, light, Ordered[i]))
          <=> \E c \in {Changed} \union Consumer : t \in req[c] /\ Included(t, light, c)
    BY OrderedAre
  <2> QED BY <2>1, <2>2 DEF Included
<1> HIDE DEF ids, choices, run_for
<1>6. PICK m : m = Cardinality(ids) /\ m \in Nat
  BY <1>2, FS_CardinalityType
<1>7. /\ sel \in [1..m -> choices]
      /\ \A i, k \in 1..m : i < k => sel[i].test < sel[k].test
  BY <1>1, <1>6
<1>8. sel \in Seq(Selection) /\ Len(sel) = m
  <2>1. sel \in [1..m -> Selection]
    BY <1>4, <1>7
  <2> HIDE DEF Selection
  <2> QED BY <1>6, <2>1
<1>9. \A t \in ids : \E i \in 1..m : sel[i].test = t
  <2> DEFINE f == [i \in 1..m |-> sel[i].test]
  <2>1. f \in [1..m -> ids] /\ \A i, k \in 1..m : i < k => f[i] < f[k]
    BY <1>4, <1>7
  <2> HIDE DEF f
  <2>2. \A t \in ids : \E i \in 1..m : f[i] = t
    BY <1>2, <1>6, <2>1, IncreasingIsOnto
  <2> QED BY <2>2 DEF f
<1>10. \A t : (\E i \in 1..Len(sel) : sel[i].test = t) <=> t \in ids
  BY <1>4, <1>7, <1>8, <1>9
<1> QED BY <1>5, <1>8, <1>10 DEF Selects

\* While the traversal rests, so do the operators on its result.
LEMMA ImpactRests ==
  ASSUME RunInv, UNCHANGED vars
  PROVE  /\ ImpactInv' /\ TypeOK' /\ (Done' <=> Done)
         /\ Consumer' = Consumer /\ Affected' = Affected
<1>1. ImpactInv'
  BY ImpactStep DEF RunInv
<1>2. dependencies' = dependencies /\ queue' = queue /\ impacted' = impacted
  BY DEF vars
<1>3. TypeOK'
  BY <1>1 DEF ImpactInv
<1> QED BY <1>1, <1>2, <1>3 DEF Done, Consumer, Affected, Closed, DependOn

\* Nothing is selected, run or decided at the start.
LEMMA RunInitially == RunInit => RunInv
<1> SUFFICES ASSUME RunInit PROVE RunInv
  OBVIOUS
<1>1. ImpactInv
  BY ImpactInitially DEF RunInit
<1>2. RunTypeOK
  BY <1>1 DEF RunInit, ImpactInv, RunTypeOK
<1>3. SelectionInv /\ RanInv /\ JudgedInv
  BY DEF RunInit, SelectionInv, RanInv, JudgedInv
<1> QED BY <1>1, <1>2, <1>3 DEF RunInv

\* The preparation of a repair keeps the invariant, step by step.
LEMMA RunStep == RunInv /\ [RunNext]_allVars => RunInv'
<1> SUFFICES ASSUME RunInv, [RunNext]_allVars PROVE RunInv'
  OBVIOUS
<1> USE DEF RunInv
<1>1. CASE Traverse
  <2>1. /\ ImpactInv' /\ requirements' = requirements /\ contracts' = contracts
        /\ selection' = selection /\ evidence' = evidence /\ status' = status
    BY <1>1, ImpactStep DEF Traverse, runVars
  <2>2. status = "selecting"
    <3>1. ~Done
      BY <1>1 DEF Traverse, Next, Skip, Visit, Done
    <3> QED BY <3>1 DEF SelectionInv
  <2>3. RunTypeOK'
    BY <2>1 DEF RunTypeOK, ImpactInv
  <2>4. SelectionInv' /\ RanInv' /\ JudgedInv'
    BY <2>1, <2>2 DEF SelectionInv, RanInv, JudgedInv
  <2> QED BY <2>1, <2>3, <2>4
<1>2. CASE Select
  <2>1. /\ UNCHANGED vars /\ Done /\ evidence = <<>> /\ evidence' = <<>> /\ status' = "running"
    BY <1>2 DEF Select, RanInv
  <2>2. PICK fixtures \in {{}, {Fixture}} :
          \E req \in Requirements(MaxRequired - Cardinality(fixtures)) :
            \E light \in SUBSET RequiredBy(req, visited) :
              requirements' = req /\ contracts' = light /\ selection' \in Selected(req, light, fixtures)
    BY <1>2 DEF Select
  <2>3. PICK req \in Requirements(MaxRequired - Cardinality(fixtures)) :
          \E light \in SUBSET RequiredBy(req, visited) :
            requirements' = req /\ contracts' = light /\ selection' \in Selected(req, light, fixtures)
    BY <2>2
  <2>4. PICK light \in SUBSET RequiredBy(req, visited) :
          requirements' = req /\ contracts' = light /\ selection' \in Selected(req, light, fixtures)
    BY <2>3
  <2>11. PICK sel \in Selected(req, light, fixtures) : selection' = sel
    BY <2>4
  <2>5. req \in [Capabilities -> SUBSET Tests] /\ light \in SUBSET Tests
    <3>1. req \in [Capabilities -> SUBSET Tests]
      BY DEF Requirements
    <3>2. visited \subseteq Capabilities
      BY DEF RunTypeOK, TypeOK
    <3> QED BY <3>1, <3>2 DEF RequiredBy
  <2>6. Selects(sel, req, light)
    <3>1. TypeOK
      BY DEF RunTypeOK
    <3> QED BY <2>5, <3>1, SelectedFacts
  <2>7. ImpactInv' /\ TypeOK' /\ Done' /\ Consumer' = Consumer
    BY <2>1, ImpactRests
  <2>8. RunTypeOK'
    BY <2>1, <2>4, <2>5, <2>6, <2>7, <2>11 DEF Selects, RunTypeOK
  <2>9. SelectionInv'
    BY <2>1, <2>4, <2>6, <2>7, <2>11 DEF Selects, SelectionInv, IsSelected, IsDue
  <2>10. RanInv' /\ JudgedInv'
    BY <2>1, <2>4, <2>6, <2>11 DEF Selects, RanInv, JudgedInv
  <2> QED BY <2>7, <2>8, <2>9, <2>10
<1>3. CASE Unlisted
  <2>1. /\ UNCHANGED vars /\ Done /\ status' = "raised" /\ requirements' \in [Capabilities -> SUBSET Tests]
        /\ contracts' = contracts /\ selection' = selection /\ evidence' = evidence
    BY <1>3 DEF Unlisted, Requirements
  <2>2. ImpactInv' /\ TypeOK' /\ Done'
    BY <2>1, ImpactRests
  <2>3. RunTypeOK'
    BY <2>1, <2>2 DEF RunTypeOK, Final
  <2>4. SelectionInv' /\ RanInv' /\ JudgedInv'
    BY <2>1, <2>2 DEF SelectionInv, RanInv, JudgedInv
  <2> QED BY <2>2, <2>3, <2>4
<1>4. CASE RunTest
  <2>1. /\ UNCHANGED vars /\ status = "running" /\ Len(evidence) < Len(selection)
        /\ requirements' = requirements /\ contracts' = contracts
        /\ selection' = selection /\ status' = status
    BY <1>4 DEF RunTest
  <2>2. PICK o \in DOMAIN Status :
          evidence' = Append(evidence, [test |-> selection[Len(evidence) + 1].test, status |-> Status[o]])
    BY <1>4 DEF RunTest
  <2>3. ImpactInv' /\ TypeOK' /\ (Done' <=> Done) /\ Consumer' = Consumer
    BY <2>1, ImpactRests
  <2>4. /\ evidence \in Seq([test : Tests \union {Fixture}, status : TestOutcome])
        /\ selection \in Seq([test : Tests \union {Fixture}, run_for_capability : Capabilities])
    BY DEF RunTypeOK
  <2>5. Status[o] \in TestOutcome
    BY DEF Status, TestOutcome
  <2>6. Len(evidence) + 1 \in 1..Len(selection)
    BY <2>1, <2>4
  <2>7. selection[Len(evidence) + 1].test \in Tests \union {Fixture}
    <3> DEFINE Selection == [test : Tests \union {Fixture}, run_for_capability : Capabilities]
    <3>1. selection \in Seq(Selection)
      BY <2>4
    <3>2. \A x \in Selection : x.test \in Tests \union {Fixture}
      OBVIOUS
    <3> HIDE DEF Selection
    <3> QED BY <2>6, <3>1, <3>2, ElementOfSeq
  <2>8. PICK e \in [test : Tests \union {Fixture}, status : TestOutcome] :
          e.test = selection[Len(evidence) + 1].test /\ evidence' = Append(evidence, e)
    BY <2>2, <2>5, <2>7
  <2>9. /\ evidence' \in Seq([test : Tests \union {Fixture}, status : TestOutcome])
        /\ Len(evidence') = Len(evidence) + 1 /\ Len(evidence) \in Nat
        /\ \A i \in 1..Len(evidence) : evidence'[i] = evidence[i]
        /\ evidence'[Len(evidence) + 1] = e
    BY <2>4, <2>8
  <2>10. RunTypeOK'
    BY <2>1, <2>3, <2>9 DEF RunTypeOK
  <2>11. SelectionInv'
    BY <2>1, <2>3 DEF SelectionInv, IsSelected, IsDue
  <2>12. RanInv'
    <3>1. Len(selection) \in Nat
      BY <2>4
    <3>2. \A i \in 1..Len(evidence') : i \in 1..Len(evidence) \/ i = Len(evidence) + 1
      BY <2>9
    <3>3. \A i \in 1..Len(evidence') : evidence'[i].test = selection[i].test
      BY <2>8, <2>9, <3>2 DEF RanInv
    <3> QED BY <2>1, <2>9, <3>1, <3>3 DEF RanInv
  <2>13. JudgedInv'
    BY <2>1 DEF JudgedInv
  <2> QED BY <2>3, <2>10, <2>11, <2>12, <2>13
<1>5. ASSUME Judge \/ Prepare \/ PrepareRaises \/ UNCHANGED allVars PROVE RunInv'
  <2>1. /\ UNCHANGED vars /\ requirements' = requirements /\ contracts' = contracts
        /\ selection' = selection /\ evidence' = evidence
    BY <1>5 DEF Judge, Prepare, PrepareRaises, allVars, runVars
  <2>2. ImpactInv' /\ TypeOK' /\ (Done' <=> Done) /\ Consumer' = Consumer
    BY <2>1, ImpactRests
  <2>3. \/ status' = status
        \/ status = "running" /\ status' = "tests_failed"
        \/ status = "running" /\ status' = "preparing" /\ AllPassed /\ Len(evidence) = Len(selection)
        \/ status = "preparing" /\ status' = "raised"
        \/ status = "preparing" /\ status' = "ready_for_approval" /\ required_tests \subseteq EndedWith("passed")
        \/ status = "preparing" /\ status' = "refused" /\ ~(required_tests \subseteq EndedWith("passed"))
    BY <1>5 DEF Judge, Prepare, PrepareRaises, allVars, runVars
  <2>4. RunTypeOK'
    BY <2>1, <2>2, <2>3 DEF RunTypeOK, Final
  <2>5. SelectionInv' /\ RanInv'
    BY <2>1, <2>2, <2>3 DEF SelectionInv, IsSelected, IsDue, RanInv
  <2>6. JudgedInv'
    <3>1. /\ (AllPassed' <=> AllPassed) /\ required_tests' = required_tests
          /\ EndedWith("passed")' = EndedWith("passed")
      BY <2>1, <2>2 DEF AllPassed, required_tests, RequiredBy, EndedWith
    <3> QED BY <2>1, <2>3, <3>1 DEF JudgedInv
  <2> QED BY <2>2, <2>4, <2>5, <2>6
<1> QED BY <1>1, <1>2, <1>3, <1>4, <1>5 DEF RunNext

\* The invariant holds in every reachable state of a preparation.
LEMMA RunInvariance == RunSpec => []RunInv
  BY RunInitially, RunStep, PTL DEF RunSpec

\* Every variable of the preparation keeps its type.
THEOREM RunTypeCorrect == RunSpec => []RunTypeOK
  BY RunInvariance, PTL DEF RunInv

\* Every traversal of a preparation is one of the traversals above.
THEOREM RunImpactsAreExact == RunSpec => []ImpactIsExact
<1>1. RunInv => ImpactIsExact
  BY ImpactFollows DEF RunInv
<1> QED BY <1>1, RunInvariance, PTL

\* A repair reaches the approver only with a passed result of everything required.
THEOREM ReadyRepairsAreTested == RunSpec => []ReadyIsTested
<1>1. RunInv => ReadyIsTested
  <2> SUFFICES ASSUME RunInv, status = "ready_for_approval" PROVE ReadyIsTested
    BY DEF ReadyIsTested
  <2>1. /\ AllPassed /\ Len(evidence) = Len(selection)
        /\ required_tests \subseteq EndedWith("passed")
        /\ \A i \in 1..Len(evidence) : evidence[i].test = selection[i].test
    BY DEF RunInv, JudgedInv, RanInv
  <2>2. Affected = {Changed} \union Consumer
    BY ImpactFollows DEF RunInv, SelectionInv, ImpactIsExact
  <2>3. \A c \in Affected : requirements[c] \subseteq EndedWith("passed")
    BY <2>1, <2>2 DEF required_tests, RequiredBy
  <2>4. \A i \in 1..Len(selection) : selection[i].test \in EndedWith("passed")
    BY <2>1 DEF AllPassed, EndedWith
  <2> QED BY <2>1, <2>3, <2>4 DEF AllPassed, ReadyIsTested
<1> QED BY <1>1, RunInvariance, PTL

\* The two computations of the tests that count differ in one kind of test only.
THEOREM RefusalsAreExact == RunSpec => []RefusalIsExact
<1>1. RunInv => RefusalIsExact
  <2> SUFFICES ASSUME RunInv, status \in {"refused", "ready_for_approval"} PROVE RefusalIsExact
    BY DEF RefusalIsExact
  <2>1. /\ AllPassed /\ Len(evidence) = Len(selection)
        /\ \A i \in 1..Len(evidence) : evidence[i].test = selection[i].test
        /\ \A t \in Tests : IsSelected(t) <=> IsDue(t)
        /\ requirements \in [Capabilities -> SUBSET Tests]
        /\ status = "refused" <=> ~(required_tests \subseteq EndedWith("passed"))
    BY DEF RunInv, JudgedInv, RanInv, SelectionInv, RunTypeOK
  <2>2. Affected = {Changed} \union Consumer
    BY ImpactFollows DEF RunInv, SelectionInv, ImpactIsExact
  <2>3. Affected \subseteq Capabilities
    BY AffectedFacts
  <2>4. \A t : t \in EndedWith("passed") <=> IsSelected(t)
    BY <2>1 DEF AllPassed, EndedWith, IsSelected
  <2>5. \A t : t \in required_tests <=> \E c \in Affected : t \in requirements[c]
    BY <2>2 DEF required_tests, RequiredBy
  <2>6. \A c \in Affected : requirements[c] \subseteq Tests
    BY <2>1, <2>3
  <2>7. \A t \in Tests : t \notin EndedWith("passed")
          <=> t \notin requirements[Changed] /\ (t \in contracts => \A c \in Consumer : t \notin requirements[c])
    BY <2>1, <2>4 DEF IsDue
  <2>8. (\E t \in required_tests : t \notin EndedWith("passed"))
          <=> \E c \in Affected \ {Changed} : requirements[c] \ (contracts \union requirements[Changed]) # {}
    <3>1. ASSUME NEW t \in required_tests, t \notin EndedWith("passed")
          PROVE  \E c \in Affected \ {Changed} : requirements[c] \ (contracts \union requirements[Changed]) # {}
      <4>1. PICK c \in Affected : t \in requirements[c]
        BY <2>5
      <4>2. t \notin requirements[Changed] /\ (t \in contracts => \A x \in Consumer : t \notin requirements[x])
        BY <2>6, <2>7, <3>1, <4>1
      <4>3. c # Changed /\ c \in Consumer /\ t \notin contracts
        BY <2>2, <4>1, <4>2
      <4> QED BY <4>1, <4>2, <4>3
    <3>2. ASSUME NEW c \in Affected \ {Changed}, NEW t \in requirements[c],
                 t \notin contracts, t \notin requirements[Changed]
          PROVE  t \in required_tests /\ t \notin EndedWith("passed")
      BY <2>5, <2>6, <2>7, <3>2
    <3> QED BY <3>1, <3>2
  <2> QED BY <2>1, <2>8 DEF RefusalIsExact
<1> QED BY <1>1, RunInvariance, PTL
=============================================================================
