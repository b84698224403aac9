--------------------------- MODULE AdaptiveRepair ---------------------------
(* Bounded repair of one failed job: runs of the adaptive_repair flow        *)
(* (f/hermes_flow/repair/orchestrate.py and finalize_retry.py).  A run       *)
(* reserves an attempt slot, generates and tests a candidate, waits for      *)
(* approval, promotes the candidate as module Promotion describes, and       *)
(* retries the failed job once.                                              *)
(*                                                                           *)
(* Each run generates its own candidate, so candidates are named by their    *)
(* runs.  The finalizer is a step of its own that Windmill may be asked to   *)
(* run again with the preparation it already ran with.                       *)
EXTENDS Naturals, Sequences

CONSTANTS Flows,         \* runs of the flow for this failed job
          Finalizers,    \* executions of finalize_and_retry
          MaxAttempts,   \* max_attempts
          Original, Edited, Outside, None,
          MaxVersions    \* bound: no outside deployment at this length

ASSUME AttemptsAssumption == MaxAttempts \in 1..3

VARIABLES
  log, author, base, promotionRecord, pc, prepared, approval, current, reread, \* see Promotion
  slot,       \* the attempt variables: the run that created each and its status
  stage,      \* how far each run's preparation is
  attempt,    \* the slot each run tries or holds
  inspected,  \* active hash each run inspected and repairs
  tests,      \* what the candidate's regression tests showed
  phase,      \* how far each finalizer is
  result,     \* status each finalizer is about to store
  retries     \* history variable: retry jobs started for each run

promotionVars == <<log, author, base, promotionRecord, pc, prepared, approval, current, reread>>
finalizerVars == <<phase, result, retries>>
preparationVars == <<stage, attempt, inspected, tests>>
vars == <<promotionVars, slot, preparationVars, finalizerVars>>

P == INSTANCE Promotion WITH
       Candidates <- Flows, PromotionJobs <- Finalizers, RollbackJobs <- {},
       InitiatingIds <- {}, Scripts <- {}, rollbackRecord <- <<>>, request <- <<>>

Slots == 1..MaxAttempts
PreparationStops == {"policy_denied", "generation_rejected", "fixture_rejected", "tests_failed"}
RetryStatuses == {"approval_rejected", "stale_conflict", "promotion_failed",
                  "retry_succeeded", "retry_failed"}
Statuses == {"reserved", "ready_for_approval"} \union PreparationStops \union RetryStatuses
Reservation == [flow : Flows, status : Statuses]

ASSUME OutsideAssumption == Outside \notin Finalizers
ASSUME BoundAssumption == MaxVersions \in Nat
ASSUME NoneAssumption == None \notin Reservation /\ None \notin P!Record

TypeOK ==
  /\ slot \in [Slots -> Reservation \union {None}]
  /\ stage \in [Flows -> {"reserving", "reserved", "generated", "tested", "ready",
                          "stopped", "exhausted", "error"}]
  /\ attempt \in [Flows -> 1..(MaxAttempts + 1)]
  /\ inspected \in [Flows -> Nat]
  /\ tests \in [Flows -> {"none", "passed", "failed", "empty"}]
  /\ phase \in [Finalizers -> {"idle", "promoting", "retrying", "persisting", "ended"}]
  /\ result \in [Finalizers -> RetryStatuses \union {None}]
  /\ retries \in [Flows -> Nat]

Init ==
  /\ log = <<Original>> /\ author = <<Outside>>
  /\ base = [f \in Flows |-> 0]
  /\ promotionRecord = [f \in Flows |-> None]
  /\ pc = [j \in Finalizers |-> "start"]
  /\ prepared \in [Finalizers -> [candidate : Flows, base : {0}]]
  /\ approval = [j \in Finalizers |-> "none"]
  /\ current = [j \in Finalizers |-> 0]
  /\ reread = [j \in Finalizers |-> 0]
  /\ slot = [k \in Slots |-> None]
  /\ stage = [f \in Flows |-> "reserving"]
  /\ attempt = [f \in Flows |-> 1]
  /\ inspected = [f \in Flows |-> 0]
  /\ tests = [f \in Flows |-> "none"]
  /\ phase = [j \in Finalizers |-> "idle"]
  /\ result = [j \in Finalizers |-> None]
  /\ retries = [f \in Flows |-> 0]

FlowGoesTo(f, s) == stage' = [stage EXCEPT ![f] = s]
FinalizerGoesTo(j, p) == phase' = [phase EXCEPT ![j] = p]

-----------------------------------------------------------------------------
(* Preparation: one run of prepare_adaptive_repair.                        *)

AnySlot(k) == TRUE                                                    \* mutant
FreeSlot(k) == slot[k] = None

\* One round of _reserve_attempt's loop: create the slot's variable, or go on to the
\* next slot if it exists.  An error status may hide a create that took effect; the
\* run then sees its own variable and goes on as well.
Reserve(f) ==
  LET k == attempt[f] IN
  /\ stage[f] = "reserving"
  /\ k \in Slots
  /\ IF FreeSlot(k)
     THEN /\ slot' = [slot EXCEPT ![k] = [flow |-> f, status |-> "reserved"]]
          /\ \/ FlowGoesTo(f, "reserved") /\ UNCHANGED attempt
             \/ attempt' = [attempt EXCEPT ![f] = k + 1] /\ UNCHANGED stage
     ELSE /\ attempt' = [attempt EXCEPT ![f] = k + 1]
          /\ UNCHANGED <<slot, stage>>
  /\ UNCHANGED <<promotionVars, inspected, tests, finalizerVars>>

\* AttemptLimitExceeded.
Exhaust(f) ==
  /\ stage[f] = "reserving"
  /\ attempt[f] \notin Slots
  /\ FlowGoesTo(f, "exhausted")
  /\ UNCHANGED <<promotionVars, slot, attempt, inspected, tests, finalizerVars>>

\* Inspect the failed job; the hash it saw is checked again before generation.
Inspect(f) ==
  /\ stage[f] = "reserved" /\ inspected[f] = 0
  /\ inspected' = [inspected EXCEPT ![f] = P!Active]
  /\ UNCHANGED <<promotionVars, slot, stage, attempt, tests, finalizerVars>>

\* generate_repair_candidate creates the candidate on top of the inspected version.
Generate(f) ==
  /\ stage[f] = "reserved" /\ inspected[f] # 0
  /\ P!CreateCandidate(f)
  /\ base'[f] = inspected[f]
  /\ FlowGoesTo(f, "generated")
  /\ UNCHANGED <<slot, attempt, inspected, tests, finalizerVars>>

\* run_regression_tests may also come back with no evidence at all.
Test(f) ==
  /\ stage[f] = "generated"
  /\ \E t \in {"passed", "failed", "empty"} : tests' = [tests EXCEPT ![f] = t]
  /\ FlowGoesTo(f, "tested")
  /\ UNCHANGED <<promotionVars, slot, attempt, inspected, finalizerVars>>

NothingFailed(f) == tests[f] # "failed"                               \* mutant
TestsPassed(f) == tests[f] = "passed"

\* _finish: the status of the preparation overwrites the slot.  If the answer of the
\* update is lost, the run ends with an exception all the same.
Finish(f, status) ==
  /\ slot' = [slot EXCEPT ![attempt[f]] = [flow |-> f, status |-> status]]
  /\ \/ FlowGoesTo(f, IF status = "ready_for_approval" THEN "ready" ELSE "stopped")
     \/ FlowGoesTo(f, "error")
  /\ UNCHANGED <<promotionVars, attempt, inspected, tests, finalizerVars>>

Stop(f) ==
  \/ /\ stage[f] = "reserved" /\ inspected[f] # 0
     /\ Finish(f, "policy_denied") \/ Finish(f, "generation_rejected")
  \/ /\ stage[f] = "generated"
     /\ Finish(f, "fixture_rejected")
  \/ /\ stage[f] = "tested" /\ ~TestsPassed(f)
     /\ Finish(f, "tests_failed")

Ready(f) ==
  /\ stage[f] = "tested" /\ TestsPassed(f)
  /\ Finish(f, "ready_for_approval")

\* An exception or a dead job: the slot keeps the status it has.
Abort(f) ==
  /\ stage[f] \in {"reserving", "reserved", "generated", "tested"}
  /\ FlowGoesTo(f, "error")
  /\ UNCHANGED <<promotionVars, slot, attempt, inspected, tests, finalizerVars>>

Prepare(f) == \/ Reserve(f) \/ Exhaust(f) \/ Inspect(f) \/ Generate(f) \/ Test(f)
              \/ Stop(f) \/ Ready(f) \/ Abort(f)

-----------------------------------------------------------------------------
(* Finalization: one execution of finalize_and_retry.                      *)

Flow(j) == prepared[j].candidate

\* The flow was approved by a named person, or its approved finalizer is run again.
Approve(j) ==
  /\ phase[j] = "idle"
  /\ stage[Flow(j)] = "ready"
  /\ prepared' = [prepared EXCEPT ![j].base = base[Flow(j)]]
  /\ approval' = [approval EXCEPT ![j] = "granted"]
  /\ pc' = [pc EXCEPT ![j] = "approved"]
  /\ FinalizerGoesTo(j, "promoting")
  /\ UNCHANGED <<log, author, base, promotionRecord, current, reread,
                 slot, preparationVars, result, retries>>

Decided(j, status) ==
  /\ result' = [result EXCEPT ![j] = status]
  /\ FinalizerGoesTo(j, "persisting")
  /\ UNCHANGED <<promotionVars, slot, preparationVars, retries>>

\* The finalizer is called with approval_granted false.  (In the flow a rejection
\* cancels the run instead: nothing happens at all.)
Reject(j) ==
  /\ phase[j] = "idle"
  /\ stage[Flow(j)] = "ready"
  /\ Decided(j, "approval_rejected")

Promote(j) ==
  /\ phase[j] = "promoting"
  /\ P!PromotionStep(j) \/ P!Fail(j)
  /\ UNCHANGED <<slot, preparationVars, finalizerVars>>

\* finalize_promotion raised.
GiveUp(j) ==
  /\ phase[j] = "promoting"
  /\ \/ pc[j] = "conflict" /\ Decided(j, "stale_conflict")
     \/ pc[j] = "failed" /\ Decided(j, "promotion_failed")

AlsoAfterConflict(j) == pc[j] \in {"done", "conflict"}                \* mutant
PromotionDone(j) == pc[j] = "done"

\* The original job cannot be reloaded, or does not match.
CannotRetry(j) ==
  /\ phase[j] = "promoting"
  /\ PromotionDone(j)
  /\ Decided(j, "retry_failed")

Retry(j) ==
  /\ phase[j] = "promoting"
  /\ PromotionDone(j)
  /\ retries' = [retries EXCEPT ![Flow(j)] = @ + 1]
  /\ FinalizerGoesTo(j, "retrying")
  /\ UNCHANGED <<promotionVars, slot, preparationVars, result>>

\* wait_job returned, raised or timed out.
Wait(j) ==
  /\ phase[j] = "retrying"
  /\ Decided(j, "retry_succeeded") \/ Decided(j, "retry_failed")

SlotOf(j) == attempt[Flow(j)]

\* _persist overwrites the slot, whatever it says.
Persist(j) ==
  /\ phase[j] = "persisting"
  /\ slot' = [slot EXCEPT ![SlotOf(j)] = [flow |-> Flow(j), status |-> result[j]]]
  /\ FinalizerGoesTo(j, "ended")
  /\ UNCHANGED <<promotionVars, preparationVars, result, retries>>

Die(j) ==
  /\ phase[j] \in {"promoting", "retrying", "persisting"}
  /\ FinalizerGoesTo(j, "ended")
  /\ UNCHANGED <<promotionVars, slot, preparationVars, result, retries>>

Finalize(j) == \/ Approve(j) \/ Reject(j) \/ Promote(j) \/ GiveUp(j) \/ CannotRetry(j)
               \/ Retry(j) \/ Wait(j) \/ Persist(j) \/ Die(j)

Deploy ==
  /\ P!DeployOutside
  /\ UNCHANGED <<slot, preparationVars, finalizerVars>>

Next == \/ \E f \in Flows : Prepare(f)
        \/ \E j \in Finalizers : Finalize(j)
        \/ Deploy
Spec == Init /\ [][Next]_vars

-----------------------------------------------------------------------------
(* Properties.                                                             *)

Working == {"reserved", "generated", "tested", "ready", "stopped"}
Written(f) == {v \in 1..Len(log) : log[v] = f}

\* However many runs are started, each attempt slot serves one of them, and only that
\* run and its finalizers ever write it: repair work is done at most max_attempts times
\* (_reserve_attempt's atomic creates).
SlotsAreExclusive ==
  \A f \in Flows : stage[f] \in Working => slot[attempt[f]] # None /\ slot[attempt[f]].flow = f

\* The failed job is retried at most once for each run, however often the finalizer is
\* run again, and only on top of a promoted candidate of that run.
RetriedOnce ==
  \A f \in Flows : retries[f] <= 1 /\ (retries[f] = 1 => Written(f) # {})

\* The active capability is changed only by an approved finalizer with a candidate that
\* passed its tests, directly on top of the version the repair was made for.
OnlyTestedRepairs ==
  \A v \in 1..Len(log) : author[v] \in Finalizers =>
    LET j == author[v] IN /\ approval[j] = "granted"
                          /\ log[v] = Flow(j)
                          /\ tests[Flow(j)] = "passed"
                          /\ inspected[Flow(j)] = v - 1
=============================================================================
