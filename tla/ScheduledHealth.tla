-------------------------- MODULE ScheduledHealth ---------------------------
(* Scheduled health runs of one capability (f/hermes_flow/testing/           *)
(* scheduled_health.py) and the rollback recommendation computed from what   *)
(* they leave behind (candidate_ops/rollback_recommendation.py).             *)
(*                                                                           *)
(* A run loads the HealthState variable, runs the tests, stores a failure    *)
(* record under the run's number if they failed, and overwrites the state;   *)
(* it may die in between, and nothing but the schedule keeps two runs from   *)
(* overlapping.  recommend_rollback reads the state and the failure records  *)
(* of the last run numbers.                                                  *)
EXTENDS Naturals, Sequences, FiniteSets

CONSTANTS Runners,      \* concurrent run_scheduled_health jobs
          Threshold,    \* escalate_after_failures
          Lookback,     \* failure_lookback
          None,         \* an absent variable
          MaxVersion,   \* bound: capability_version stops growing here
          MaxRuns       \* bound: no run starts once this many are saved or under way

ASSUME BoundsAssumption == {Threshold, Lookback, MaxVersion, MaxRuns} \subseteq Nat \ {0}

VARIABLES
  catalogue,   \* capability_version in the deployed catalogue
  scheduled,   \* capability_version in the catalogue the schedule passes as argument
  state,       \* the HealthState variable
  failures,    \* the HealthFailureRecord variables, by run number
  pc,          \* where each run is
  mine,        \* each run's own copy of the state
  outcome,     \* what each run's tests showed
  history,     \* history variable: the runs whose state was saved
  overlapped   \* history variable: two runs were under way at once

vars == <<catalogue, scheduled, state, failures, pc, mine, outcome, history, overlapped>>
worldVars == <<catalogue, scheduled>>
historyVars == <<history, overlapped>>

Failing == {"infrastructure", "defect"}     \* classify_failure of the evidence
Results == Failing \union {"skipped", "passed"}
Versions == 1..MaxVersion
HealthState == [version : Versions, runs : 0..MaxRuns, fails : 0..MaxRuns,
                last : {"none", "failed", "skipped", "passed"}]
FailureRecord == [version : Versions, category : Failing]
Run == [version : Versions, result : Results]
Fresh(version) == [version |-> version, runs |-> 0, fails |-> 0, last |-> "none"]
NotRun == "passed"

ASSUME NoneAssumption == None \notin HealthState \union FailureRecord

TypeOK ==
  /\ catalogue \in Versions /\ scheduled \in 1..catalogue
  /\ state = None \/ state \in HealthState
  /\ failures \in [1..MaxRuns -> FailureRecord \union {None}]
  /\ pc \in [Runners -> {"idle", "loaded", "failing", "saving"}]
  /\ mine \in [Runners -> HealthState]
  /\ outcome \in [Runners -> Results]
  /\ history \in Seq(Run)
  /\ overlapped \in BOOLEAN

Init ==
  /\ catalogue = 1 /\ scheduled = 1
  /\ state = None
  /\ failures = [n \in 1..MaxRuns |-> None]
  /\ pc = [r \in Runners |-> "idle"]
  /\ mine = [r \in Runners |-> Fresh(1)]
  /\ outcome = [r \in Runners |-> NotRun]
  /\ history = <<>>
  /\ overlapped = FALSE

GoTo(r, step) == pc' = [pc EXCEPT ![r] = step]

\* The job ends, and what it held in memory is gone.
End(r) == /\ GoTo(r, "idle")
          /\ mine' = [mine EXCEPT ![r] = Fresh(1)]
          /\ outcome' = [outcome EXCEPT ![r] = NotRun]

-----------------------------------------------------------------------------
(* The environment.                                                        *)

\* A new capability_version reaches the catalogue; versions are not reused.
Upgrade ==
  /\ catalogue < MaxVersion
  /\ catalogue' = catalogue + 1
  /\ UNCHANGED <<scheduled, state, failures, pc, mine, outcome, historyVars>>

\* reconcile_schedules, once approved, hands the new catalogue to the schedule.
Reconcile ==
  /\ scheduled # catalogue
  /\ scheduled' = catalogue
  /\ UNCHANGED <<catalogue, state, failures, pc, mine, outcome, historyVars>>

-----------------------------------------------------------------------------
(* A health run.                                                           *)

CountKept(s, version) == [s EXCEPT !.version = version, !.last = "none"]   \* mutant
NewVersion(s, version) == [s EXCEPT !.version = version, !.fails = 0, !.last = "none"]

UnderWay == {q \in Runners : pc[q] # "idle"}

\* Load the state; evidence of another capability_version is reset, its run number
\* goes on.
Load(r) ==
  /\ pc[r] = "idle"
  /\ Len(history) + Cardinality(UnderWay) < MaxRuns
  /\ mine' = [mine EXCEPT ![r] =
       IF state = None THEN Fresh(scheduled)
       ELSE IF state.version = scheduled THEN state
       ELSE NewVersion(state, scheduled)]
  /\ GoTo(r, "loaded")
  /\ overlapped' = (overlapped \/ UnderWay # {})
  /\ UNCHANGED <<worldVars, state, failures, outcome, history>>

\* The last run of this version was too recent: return without saving anything.
RateLimit(r) ==
  /\ pc[r] = "loaded"
  /\ mine[r].last # "none"
  /\ End(r)
  /\ UNCHANGED <<worldVars, state, failures, historyVars>>

SkipResets(s, result) ==                                                   \* mutant
  [s EXCEPT !.fails = IF result \in Failing THEN @ + 1 ELSE 0]
Counted(s, result) ==
  [s EXCEPT !.fails = CASE result \in Failing  -> @ + 1
                        [] result = "skipped"  -> @
                        [] result = "passed"   -> 0]

StatusOf(result) == IF result \in Failing THEN "failed" ELSE result

AfterTests(s, result) == IF result \in Failing THEN "failing" ELSE "saving"

\* run_tests, and the new counters.
Test(r) ==
  /\ pc[r] = "loaded"
  /\ \E result \in Results :
       LET s == Counted(mine[r], result) IN
       /\ outcome' = [outcome EXCEPT ![r] = result]
       /\ mine' = [mine EXCEPT ![r] = [s EXCEPT !.runs = @ + 1, !.last = StatusOf(result)]]
       /\ GoTo(r, AfterTests(s, result))
  /\ UNCHANGED <<worldVars, state, failures, historyVars>>

\* save_failure, before the state that counts the failure.
RecordFailure(r) ==
  /\ pc[r] = "failing"
  /\ failures' = [failures EXCEPT ![mine[r].runs] =
       [version |-> mine[r].version, category |-> outcome[r]]]
  /\ GoTo(r, "saving")
  /\ UNCHANGED <<worldVars, state, mine, outcome, historyVars>>

Save(r) ==
  /\ pc[r] = "saving"
  /\ state' = mine[r]
  /\ history' = Append(history, [version |-> mine[r].version, result |-> outcome[r]])
  /\ End(r)
  /\ UNCHANGED <<worldVars, failures, overlapped>>

\* The job dies, or an HTTP call fails: the rest of the run does not happen.
Crash(r) ==
  /\ pc[r] # "idle"
  /\ End(r)
  /\ UNCHANGED <<worldVars, state, failures, historyVars>>

HealthRun(r) == Load(r) \/ RateLimit(r) \/ Test(r) \/ RecordFailure(r) \/ Save(r) \/ Crash(r)

Next == Upgrade \/ Reconcile \/ \E r \in Runners : HealthRun(r)
Spec == Init /\ [][Next]_vars

-----------------------------------------------------------------------------
(* recommend_rollback.                                                     *)

HasEvidence == state # None /\ state.version = catalogue
ThresholdMet == HasEvidence /\ state.fails >= Threshold

OneTooMany == (state.runs - (IF state.fails < Lookback THEN state.fails ELSE Lookback))
                 .. state.runs                                             \* mutant
Window == (state.runs + 1 - (IF state.fails < Lookback THEN state.fails ELSE Lookback))
             .. state.runs

\* _recent_failure_records: the run numbers in the window that have a record.
Evidence == {n \in Window \intersect 1..MaxRuns : failures[n] # None}

AnyTransient == \E n \in Evidence : failures[n].category = "infrastructure"  \* mutant
TransientOnly == /\ Evidence # {}
                 /\ \A n \in Evidence : failures[n].category = "infrastructure"

Recommended == ThresholdMet /\ ~TransientOnly

-----------------------------------------------------------------------------
(* Properties.                                                             *)

\* The saved runs of the state's version since the last run that passed.
Streak == {n \in 1..Len(history) : \A m \in n..Len(history) :
             history[m].version = state.version /\ history[m].result # "passed"}
FailingRuns == {n \in Streak : history[n].result \in Failing}

\* As long as no two runs overlap, consecutive_failures is the number of failing runs
\* of this version since the last one that passed, whatever crashed, was skipped or was
\* rate limited in between.
CountIsStreak ==
  (state # None /\ ~overlapped) => /\ state.runs = Len(history)
                  /\ state.fails = Cardinality(FailingRuns)

\* The records a recommendation looks at are records of the version it judges, also
\* after a version change and after runs that died between their two writes, unless
\* runs overlapped.
EvidenceOfVersion ==
  (state # None /\ ~overlapped) => \A n \in Evidence : failures[n].version = state.version

\* The runs a recommendation can see: as many of the last ones as the streak has
\* failures, but no more than Lookback.
SeenRuns == {n \in 1..Len(history) : /\ n + Cardinality(FailingRuns) > Len(history)
                                     /\ n + Lookback > Len(history)}

\* As long as no runs overlap, a rollback is recommended only for a streak that is long
\* enough and has a defect, or a skipped run, among the runs it can see; and it is
\* recommended whenever one of them showed a defect.  What a skipped run stands for
\* depends on the record of a dead run of its number, if there is one.
RecommendationEvidenced ==
  (HasEvidence /\ ~overlapped) =>
    /\ Recommended =>
         /\ Cardinality(FailingRuns) >= Threshold
         /\ \E n \in SeenRuns : history[n].result \in {"defect", "skipped"}
    /\ (/\ Cardinality(FailingRuns) >= Threshold
        /\ \E n \in SeenRuns : history[n].result = "defect") => Recommended

\* Even when runs overlap and overwrite each other's state, failures are lost but never
\* invented: no count exceeds the failing runs of that version.
NoInventedFailure ==
  state # None =>
    state.fails <= Cardinality({n \in 1..Len(history) :
                      history[n].version = state.version /\ history[n].result \in Failing})

\* What rollback-recommendation.md promises in step 4: no recommendation for a streak
\* that is exclusively infrastructure.
NoRollbackForOutage ==
  (Recommended /\ ~overlapped) => \E n \in FailingRuns : history[n].result = "defect"
=============================================================================
