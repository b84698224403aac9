------------------------ MODULE ScheduledHealthProofs --------------------------
(* Proofs about ScheduledHealth for every set of runners, threshold, lookback *)
(* and bound.                                                                 *)
EXTENDS ScheduledHealth, FiniteSetTheorems, TLAPS

Tested(r) == pc[r] \in {"failing", "saving"}

-----------------------------------------------------------------------------
(* What holds however runs overlap.                                        *)

\* A run number is taken from the state and never exceeds the runs that were saved or
\* are under way.
Numbered ==
  /\ IsFiniteSet(UnderWay)
  /\ Len(history) + Cardinality(UnderWay) <= MaxRuns
  /\ state # None => state.runs <= Len(history) /\ state.fails <= state.runs
  /\ \A r \in Runners :
       /\ mine[r].fails <= mine[r].runs
       /\ pc[r] # "idle" => mine[r].version <= scheduled
       /\ pc[r] = "loaded" => mine[r].runs <= Len(history)
       /\ Tested(r) => mine[r].runs \in 1..(Len(history) + 1)
       /\ pc[r] = "failing" => outcome[r] \in Failing

\* The failing runs of one version.
FailuresOf(h, v) == {n \in 1..Len(h) : h[n].version = v /\ h[n].result \in Failing}

\* No count exceeds the failures it can have seen; a run not yet saved has seen its own.
NothingInvented ==
  /\ state # None => state.fails <= Cardinality(FailuresOf(history, state.version))
  /\ \A r \in Runners :
       /\ pc[r] = "loaded" => mine[r].fails <= Cardinality(FailuresOf(history, mine[r].version))
       /\ Tested(r) => mine[r].fails <= Cardinality(FailuresOf(history, mine[r].version))
                                          + IF outcome[r] \in Failing THEN 1 ELSE 0

-----------------------------------------------------------------------------
(* What holds as long as no two runs have overlapped.                      *)

Alone == \A q, r \in Runners : pc[q] # "idle" /\ pc[r] # "idle" => q = r

\* The failing runs of version v since the last run that passed or had another version.
Unbroken(h, v) == {n \in 1..Len(h) : \A m \in n..Len(h) : h[m].version = v /\ h[m].result # "passed"}
FailingStreak(h, v) == {n \in Unbroken(h, v) : h[n].result \in Failing}

\* The state is that of the last saved run.
StateIsLast ==
  /\ state = None <=> history = <<>>
  /\ state # None => /\ state.runs = Len(history)
                     /\ state.version = history[Len(history)].version
                     /\ state.version <= scheduled
                     /\ state.fails = Cardinality(FailingStreak(history, state.version))

\* Versions only grow along the history.
VersionsGrow ==
  \A m, n \in 1..Len(history) : m <= n => history[m].version <= history[n].version

\* A failing run left its record; any other record under its number was left by a run
\* that died before it, of a version in between.
RecordsFit ==
  \A n \in 1..MaxRuns :
    /\ n <= Len(history) /\ history[n].result \in Failing =>
         failures[n] = [version |-> history[n].version, category |-> history[n].result]
    /\ failures[n] # None =>
         /\ n <= Len(history) + 1
         /\ n \in 2..(Len(history) + 1) => history[n - 1].version <= failures[n].version
         /\ n <= Len(history) => failures[n].version <= history[n].version
         /\ n = Len(history) + 1 => failures[n].version <= scheduled

\* The count after a run that followed one with that count.
Fails(fails, result) == CASE result \in Failing -> fails + 1
                          [] result = "skipped" -> fails
                          [] result = "passed"  -> 0

\* The failures a run of version v continues to count.
Carried(v) == IF state # None /\ state.version = v THEN state.fails ELSE 0

\* The run under way continues from the state.
RunContinues(r) ==
  LET v == mine[r].version
      n == Len(history) + 1
  IN  /\ state # None => state.version <= v
      /\ n <= MaxRuns /\ failures[n] # None => failures[n].version <= v
      /\ pc[r] = "loaded" => mine[r].runs = Len(history) /\ mine[r].fails = Carried(v)
      /\ Tested(r) => /\ mine[r].runs = n
                      /\ mine[r].fails = Fails(Carried(v), outcome[r])
      /\ pc[r] = "saving" /\ outcome[r] \in Failing =>
           failures[n] = [version |-> v, category |-> outcome[r]]

Sequential == /\ Alone
              /\ StateIsLast
              /\ VersionsGrow
              /\ RecordsFit
              /\ \A r \in Runners : pc[r] # "idle" => RunContinues(r)

Inv == /\ TypeOK
       /\ Numbered
       /\ NothingInvented
       /\ ~overlapped => Sequential

-----------------------------------------------------------------------------
(* Lemmas about the runs under way.                                        *)

LEMMA RunStarts ==
  ASSUME NEW r \in Runners, TypeOK, IsFiniteSet(UnderWay), pc[r] = "idle",
         NEW s, s # "idle", GoTo(r, s)
  PROVE  /\ IsFiniteSet(UnderWay')
         /\ Cardinality(UnderWay') = Cardinality(UnderWay) + 1
  <1>1. UnderWay' = UnderWay \union {r} /\ r \notin UnderWay
    BY DEF TypeOK, GoTo, UnderWay
  <1>2. QED
    BY <1>1, FS_AddElement

LEMMA RunStops ==
  ASSUME NEW r \in Runners, TypeOK, IsFiniteSet(UnderWay), pc[r] # "idle", GoTo(r, "idle")
  PROVE  /\ IsFiniteSet(UnderWay')
         /\ Cardinality(UnderWay') = Cardinality(UnderWay) - 1
  <1>1. UnderWay' = UnderWay \ {r} /\ r \in UnderWay
    BY DEF TypeOK, GoTo, UnderWay
  <1>2. QED
    BY <1>1, FS_RemoveElement

LEMMA RunGoesOn ==
  ASSUME NEW r \in Runners, TypeOK, pc[r] # "idle", NEW s, s # "idle", GoTo(r, s)
  PROVE  UnderWay' = UnderWay
  BY DEF TypeOK, GoTo, UnderWay

\* A run that is under way has a number left for it.
LEMMA RoomForRun ==
  ASSUME TypeOK, Numbered, NEW r \in Runners, pc[r] # "idle"
  PROVE  Len(history) + 1 <= MaxRuns
  <1>1. UnderWay # {}
    BY DEF UnderWay
  <1>2. Cardinality(UnderWay) \in Nat \ {0}
    BY <1>1, FS_CardinalityType, FS_EmptySet DEF Numbered
  <1>3. QED
    BY <1>2, BoundsAssumption DEF Numbered, TypeOK

LEMMA Constants == /\ MaxRuns \in Nat \ {0}
                   /\ MaxVersion \in Nat \ {0}
                   /\ Threshold \in Nat \ {0}
                   /\ Lookback \in Nat \ {0}
  BY BoundsAssumption

\* The types of what a run reads and holds, one field at a time.
LEMMA Fields ==
  ASSUME TypeOK
  PROVE  /\ scheduled \in Nat /\ scheduled \in Versions
         /\ Len(history) \in Nat
         /\ state # None => /\ state \in HealthState
                            /\ state.version \in Versions /\ state.version \in Nat
                            /\ state.runs \in Nat /\ state.fails \in Nat
         /\ \A r \in Runners : /\ mine[r] \in HealthState
                               /\ mine[r].version \in Versions /\ mine[r].version \in Nat
                               /\ mine[r].runs \in Nat /\ mine[r].fails \in Nat
                               /\ outcome[r] \in Results
         /\ \A n \in 1..Len(history) : /\ history[n].version \in Versions
                                       /\ history[n].version \in Nat
                                       /\ history[n].result \in Results
  <1>1. scheduled \in Nat /\ scheduled \in Versions
    BY Constants DEF TypeOK, Versions
  <1>2. \A s \in HealthState : /\ s.version \in Versions /\ s.version \in Nat
                               /\ s.runs \in Nat /\ s.fails \in Nat
    BY Constants DEF HealthState, Versions
  <1>3. \A n \in 1..Len(history) : history[n] \in Run
    BY DEF TypeOK
  <1>4. \A x \in Run : x.version \in Versions /\ x.version \in Nat /\ x.result \in Results
    BY DEF Run, Versions
  <1>5. QED
    BY <1>1, <1>2, <1>3, <1>4 DEF TypeOK

\* The copies of the state that a run makes are states.
LEMMA CopiesTyped ==
  ASSUME NEW v \in Versions
  PROVE  /\ Fresh(v) \in HealthState
         /\ \A s \in HealthState : NewVersion(s, v) \in HealthState
  <1>1. Fresh(v) \in HealthState
    BY Constants DEF Fresh, HealthState
  <1>2. ASSUME NEW s \in HealthState PROVE NewVersion(s, v) \in HealthState
    <2>1. 0 \in 0..MaxRuns
      BY Constants
    <2>2. QED
      BY <2>1 DEF NewVersion, HealthState
  <1>3. QED
    BY <1>1, <1>2

LEMMA NewVersionFields ==
  ASSUME NEW s \in HealthState, NEW v \in Versions
  PROVE  /\ NewVersion(s, v).version = v
         /\ NewVersion(s, v).runs = s.runs
         /\ NewVersion(s, v).fails = 0
  BY DEF NewVersion, HealthState

\* What Load copies.
Copy(v) == IF state = None THEN Fresh(v)
           ELSE IF state.version = v THEN state
           ELSE NewVersion(state, v)

LEMMA CopyFields ==
  ASSUME TypeOK, NEW v \in Versions
  PROVE  /\ Copy(v) \in HealthState
         /\ Copy(v).version = v
         /\ Copy(v).runs = IF state = None THEN 0 ELSE state.runs
         /\ Copy(v).fails = Carried(v)
  <1>1. CASE state = None
    BY <1>1, CopiesTyped DEF Copy, Fresh, Carried
  <1>2. CASE state # None /\ state.version = v
    BY <1>2, Fields DEF Copy, Carried
  <1>3. CASE state # None /\ state.version # v
    BY <1>3, Fields, CopiesTyped, NewVersionFields DEF Copy, Carried
  <1>4. QED
    BY <1>1, <1>2, <1>3

\* What Test makes of its copy.
Result(s, result) == [Counted(s, result) EXCEPT !.runs = @ + 1, !.last = StatusOf(result)]

LEMMA ResultFields ==
  ASSUME NEW s \in HealthState, NEW result \in Results, s.runs < MaxRuns, s.fails <= s.runs
  PROVE  /\ Result(s, result) \in HealthState
         /\ Result(s, result).version = s.version
         /\ Result(s, result).runs = s.runs + 1
         /\ Result(s, result).fails = Fails(s.fails, result)
         /\ Fails(s.fails, result) <= s.runs + 1
  <1>1. s.runs \in Nat /\ s.fails \in Nat
    BY Constants DEF HealthState
  <1>2. Fails(s.fails, result) \in Nat /\ Fails(s.fails, result) <= s.fails + 1
    <2>1. CASE result \in Failing
      BY <1>1, <2>1 DEF Fails, Failing
    <2>2. CASE result = "skipped"
      BY <1>1, <2>2 DEF Fails, Failing
    <2>3. CASE result = "passed"
      BY <1>1, <2>3 DEF Fails, Failing
    <2>4. QED
      BY <2>1, <2>2, <2>3 DEF Results
  <1>3. Counted(s, result) = [s EXCEPT !.fails = Fails(s.fails, result)]
    BY DEF Counted, Fails, HealthState
  <1>4. Fails(s.fails, result) \in 0..MaxRuns /\ s.runs + 1 \in 0..MaxRuns
    BY <1>1, <1>2, Constants
  <1>5. StatusOf(result) \in {"none", "failed", "skipped", "passed"}
    BY DEF StatusOf, Results, Failing
  <1>6. Counted(s, result) \in HealthState
    BY <1>3, <1>4 DEF HealthState
  <1>7. /\ Counted(s, result).runs = s.runs
        /\ Counted(s, result).version = s.version
        /\ Counted(s, result).fails = Fails(s.fails, result)
    BY <1>3 DEF HealthState
  <1>8. Result(s, result) \in HealthState
    BY <1>4, <1>5, <1>6, <1>7 DEF Result, HealthState
  <1>9. /\ Result(s, result).version = s.version
        /\ Result(s, result).runs = s.runs + 1
        /\ Result(s, result).fails = Fails(s.fails, result)
    BY <1>6, <1>7 DEF Result, HealthState
  <1>10. QED
    BY <1>1, <1>2, <1>8, <1>9

-----------------------------------------------------------------------------
(* Initially, and the environment.                                         *)

LEMMA InitInv == Init => Inv
  <1> SUFFICES ASSUME Init PROVE Inv
    OBVIOUS
  <1>1. TypeOK
    <2>1. 1 \in Versions
      BY Constants DEF Versions
    <2>2. Fresh(1) \in HealthState
      BY <2>1, CopiesTyped
    <2>3. QED
      <3>1. catalogue \in Versions /\ scheduled \in 1..catalogue
        BY <2>1 DEF Init
      <3>2. failures \in [1..MaxRuns -> FailureRecord \union {None}]
        BY DEF Init
      <3>3. mine \in [Runners -> HealthState] /\ outcome \in [Runners -> Results]
        BY <2>2 DEF Init, NotRun, Results
      <3>4. history \in Seq(Run)
        BY DEF Init
      <3>5. pc \in [Runners -> {"idle", "loaded", "failing", "saving"}]
        BY DEF Init
      <3>6. state = None /\ overlapped \in BOOLEAN
        BY Zenon DEF Init
      <3>7. QED
        BY <3>1, <3>2, <3>3, <3>4, <3>5, <3>6 DEF TypeOK
  <1>2. UnderWay = {} /\ Len(history) = 0
    BY DEF Init, UnderWay
  <1>3. Numbered
    BY <1>2, FS_EmptySet, Constants DEF Init, Numbered, Fresh, Tested
  <1>4. NothingInvented
    BY DEF Init, NothingInvented, Tested
  <1>5. Sequential
    BY <1>2 DEF Init, Sequential, Alone, StateIsLast, VersionsGrow, RecordsFit
  <1>6. QED
    BY <1>1, <1>3, <1>4, <1>5 DEF Inv

-----------------------------------------------------------------------------
(* Steps, however runs overlap.                                            *)

General == TypeOK /\ Numbered /\ NothingInvented

LEMMA EndFacts ==
  ASSUME TypeOK, NEW r \in Runners, End(r)
  PROVE  /\ pc' \in [Runners -> {"idle", "loaded", "failing", "saving"}]
         /\ mine' \in [Runners -> HealthState]
         /\ outcome' \in [Runners -> Results]
         /\ pc'[r] = "idle" /\ mine'[r] = Fresh(1)
         /\ \A q \in Runners : q # r => pc'[q] = pc[q] /\ mine'[q] = mine[q] /\ outcome'[q] = outcome[q]
  <1>1. Fresh(1) \in HealthState /\ NotRun \in Results
    BY CopiesTyped, Constants DEF Versions, NotRun, Results
  <1>2. QED
    BY <1>1 DEF End, GoTo, TypeOK

\* How many failures of a version there are, before and after a run is saved.
LEMMA FailuresFacts ==
  ASSUME TypeOK
  PROVE  \A v : IsFiniteSet(FailuresOf(history, v)) /\ Cardinality(FailuresOf(history, v)) \in Nat
  <1> SUFFICES ASSUME NEW v PROVE IsFiniteSet(FailuresOf(history, v)) /\ Cardinality(FailuresOf(history, v)) \in Nat
    OBVIOUS
  <1>1. FailuresOf(history, v) \in SUBSET (1..Len(history)) /\ IsFiniteSet(1..Len(history))
    BY Fields, FS_Interval DEF FailuresOf
  <1>2. QED
    BY <1>1, FS_Subset, FS_CardinalityType

LEMMA FailuresGrow ==
  ASSUME TypeOK, NEW x \in Run, history' = Append(history, x)
  PROVE  /\ Len(history') = Len(history) + 1
         /\ history'[Len(history) + 1] = x
         /\ \A n \in 1..Len(history) : history'[n] = history[n]
         /\ \A v : Cardinality(FailuresOf(history', v)) = Cardinality(FailuresOf(history, v))
                     + IF x.version = v /\ x.result \in Failing THEN 1 ELSE 0
  <1>1. /\ Len(history') = Len(history) + 1 /\ Len(history) \in Nat
        /\ history'[Len(history) + 1] = x
        /\ \A n \in 1..Len(history) : history'[n] = history[n]
    BY DEF TypeOK
  <1>2. ASSUME NEW v
        PROVE  Cardinality(FailuresOf(history', v)) = Cardinality(FailuresOf(history, v))
                 + IF x.version = v /\ x.result \in Failing THEN 1 ELSE 0
    <2>1. CASE x.version = v /\ x.result \in Failing
      <3>1. FailuresOf(history', v) = FailuresOf(history, v) \union {Len(history) + 1}
        BY <1>1, <2>1 DEF FailuresOf
      <3>2. Len(history) + 1 \notin FailuresOf(history, v)
        BY <1>1 DEF FailuresOf
      <3>3. IsFiniteSet(FailuresOf(history, v)) /\ Cardinality(FailuresOf(history, v)) \in Nat
        BY FailuresFacts
      <3>4. Cardinality(FailuresOf(history, v) \union {Len(history) + 1})
              = Cardinality(FailuresOf(history, v)) + 1
        BY <3>2, <3>3, FS_AddElement, Zenon
      <3>5. QED
        BY <2>1, <3>1, <3>4
    <2>2. CASE ~(x.version = v /\ x.result \in Failing)
      <3>1. FailuresOf(history', v) = FailuresOf(history, v)
        BY <1>1, <2>2 DEF FailuresOf
      <3>2. QED
        BY <2>2, <3>1, FailuresFacts
    <2>3. QED
      BY <2>1, <2>2
  <1>3. QED
    BY <1>1, <1>2

\* The environment changes nothing a run has seen.
LEMMA WorldGeneral ==
  ASSUME General, Upgrade \/ Reconcile
  PROVE  General'
  <1> USE DEF General, TypeOK, Versions, Upgrade, Reconcile, historyVars
  <1>1. /\ UNCHANGED <<state, failures, pc, mine, outcome, history, overlapped>>
        /\ scheduled' >= scheduled
    BY Constants
  <1>2. TypeOK'
    BY Constants
  <1>3. Numbered'
    BY <1>1, <1>2, Fields DEF Numbered, UnderWay, Tested
  <1>4. NothingInvented'
    BY <1>1 DEF NothingInvented, Tested
  <1>5. QED
    BY <1>2, <1>3, <1>4

\* A run that ends without saving takes its copy with it.
LEMMA EndGeneral ==
  ASSUME General, NEW r \in Runners, pc[r] # "idle", End(r),
         UNCHANGED <<worldVars, state, failures, historyVars>>
  PROVE  General'
  <1> USE DEF General, worldVars, historyVars
  <1>1. TypeOK'
    BY EndFacts DEF TypeOK
  <1>2. Numbered'
    <2>1. IsFiniteSet(UnderWay') /\ Cardinality(UnderWay') = Cardinality(UnderWay) - 1
      BY RunStops DEF Numbered, End
    <2>2. Cardinality(UnderWay) \in Nat
      BY FS_CardinalityType DEF Numbered
    <2>3. mine'[r].fails = 0 /\ mine'[r].runs = 0
      BY EndFacts DEF Fresh
    <2>4. QED
      BY <2>1, <2>2, <2>3, EndFacts, Fields, Constants DEF Numbered, Tested
  <1>3. NothingInvented'
    BY EndFacts DEF NothingInvented, Tested
  <1>4. QED
    BY <1>1, <1>2, <1>3

LEMMA LoadGeneral ==
  ASSUME General, NEW r \in Runners, Load(r)
  PROVE  General'
  <1> USE DEF General, worldVars
  <1>1. /\ mine' = [mine EXCEPT ![r] = Copy(scheduled)]
        /\ pc[r] = "idle" /\ pc' = [pc EXCEPT ![r] = "loaded"]
        /\ UNCHANGED <<catalogue, scheduled, state, failures, outcome, history>>
    BY DEF Load, GoTo, Copy
  <1>2. /\ Copy(scheduled) \in HealthState
        /\ Copy(scheduled).version = scheduled
        /\ Copy(scheduled).runs = IF state = None THEN 0 ELSE state.runs
        /\ Copy(scheduled).fails = Carried(scheduled)
    BY CopyFields, Fields
  <1>3. /\ mine'[r] = Copy(scheduled) /\ pc'[r] = "loaded"
        /\ \A q \in Runners : q # r => mine'[q] = mine[q] /\ pc'[q] = pc[q]
    BY <1>1 DEF TypeOK
  <1>4. TypeOK'
    <2>1. overlapped' \in BOOLEAN
      BY DEF Load, TypeOK
    <2>2. QED
      BY <1>1, <1>2, <2>1 DEF TypeOK
  <1>5. Numbered'
    <2>1. IsFiniteSet(UnderWay') /\ Cardinality(UnderWay') = Cardinality(UnderWay) + 1
      BY <1>1, RunStarts DEF Numbered, GoTo
    <2>2. Len(history) + Cardinality(UnderWay) < MaxRuns /\ Cardinality(UnderWay) \in Nat
      BY FS_CardinalityType DEF Load, Numbered
    <2>3. Copy(scheduled).fails <= Copy(scheduled).runs /\ Copy(scheduled).runs <= Len(history)
      BY <1>2, Fields DEF Numbered, Carried
    <2>4. QED
      BY <1>1, <1>2, <1>3, <2>1, <2>2, <2>3, Fields, Constants DEF Numbered, Tested
  <1>6. NothingInvented'
    <2>1. Copy(scheduled).fails <= Cardinality(FailuresOf(history, scheduled))
      BY <1>2, Fields, FailuresFacts DEF NothingInvented, Carried
    <2>2. /\ state' = state /\ history' = history
          /\ mine'[r].fails <= Cardinality(FailuresOf(history', mine'[r].version))
          /\ \A q \in Runners : q # r => /\ mine'[q] = mine[q] /\ outcome'[q] = outcome[q]
                                         /\ pc'[q] = pc[q]
      BY <1>1, <1>2, <1>3, <2>1
    <2>3. QED
      BY <1>3, <2>2 DEF NothingInvented, Tested
  <1>7. QED
    BY <1>4, <1>5, <1>6

LEMMA TestGeneral ==
  ASSUME General, NEW r \in Runners, Test(r)
  PROVE  General'
  <1> USE DEF General, worldVars, historyVars
  <1>1. PICK result \in Results :
          /\ outcome' = [outcome EXCEPT ![r] = result]
          /\ mine' = [mine EXCEPT ![r] = Result(mine[r], result)]
          /\ pc' = [pc EXCEPT ![r] = IF result \in Failing THEN "failing" ELSE "saving"]
    BY DEF Test, GoTo, AfterTests, Result
  <1>2. pc[r] = "loaded" /\ UNCHANGED <<catalogue, scheduled, state, failures, history, overlapped>>
    BY DEF Test
  <1>3. /\ Len(history) + 1 <= MaxRuns
        /\ mine[r].runs <= Len(history) /\ mine[r].fails <= mine[r].runs
        /\ mine[r].version <= scheduled
    BY <1>2, RoomForRun DEF Numbered
  <1>4. /\ Result(mine[r], result) \in HealthState
        /\ Result(mine[r], result).version = mine[r].version
        /\ Result(mine[r], result).runs = mine[r].runs + 1
        /\ Result(mine[r], result).fails = Fails(mine[r].fails, result)
        /\ Fails(mine[r].fails, result) <= mine[r].runs + 1
    BY <1>3, ResultFields, Fields, Constants
  <1>5. /\ mine'[r] = Result(mine[r], result) /\ outcome'[r] = result
        /\ pc'[r] = IF result \in Failing THEN "failing" ELSE "saving"
        /\ \A q \in Runners : q # r => mine'[q] = mine[q] /\ pc'[q] = pc[q] /\ outcome'[q] = outcome[q]
    BY <1>1 DEF TypeOK
  <1>6. TypeOK'
    BY <1>1, <1>2, <1>4 DEF TypeOK
  <1>7. Numbered'
    <2>1. UnderWay' = UnderWay
      BY <1>1, <1>2, RunGoesOn DEF GoTo
    <2>2. mine'[r].runs \in 1..(Len(history) + 1) /\ mine'[r].fails <= mine'[r].runs
      BY <1>3, <1>4, <1>5, Fields
    <2>3. QED
      BY <1>2, <1>3, <1>4, <1>5, <2>1, <2>2 DEF Numbered, Tested
  <1>8. NothingInvented'
    <2>1. /\ Fails(mine[r].fails, result) <= mine[r].fails + IF result \in Failing THEN 1 ELSE 0
          /\ Fails(mine[r].fails, result) \in Nat
      BY Fields DEF Fails, Results, Failing
    <2>2. mine[r].fails <= Cardinality(FailuresOf(history, mine[r].version))
      BY <1>2 DEF NothingInvented
    <2>3. mine'[r].fails <= Cardinality(FailuresOf(history, mine[r].version))
                              + IF result \in Failing THEN 1 ELSE 0
      <3>1. mine'[r].fails = Fails(mine[r].fails, result) /\ mine[r].fails \in Nat
        BY <1>4, <1>5, Fields
      <3>2. Cardinality(FailuresOf(history, mine[r].version)) \in Nat
        BY FailuresFacts
      <3>3. QED
        BY <2>1, <2>2, <3>1, <3>2
    <2>4. QED
      BY <1>2, <1>4, <1>5, <2>3 DEF NothingInvented, Tested
  <1>9. QED
    BY <1>6, <1>7, <1>8

LEMMA RecordFailureGeneral ==
  ASSUME General, NEW r \in Runners, RecordFailure(r)
  PROVE  General'
  <1> USE DEF General, worldVars, historyVars
  <1>1. /\ pc[r] = "failing" /\ pc' = [pc EXCEPT ![r] = "saving"]
        /\ UNCHANGED <<catalogue, scheduled, state, mine, outcome, history, overlapped>>
    BY DEF RecordFailure, GoTo
  <1>2. outcome[r] \in Failing
    BY <1>1 DEF Numbered
  <1>3. TypeOK'
    <2>1. [version |-> mine[r].version, category |-> outcome[r]] \in FailureRecord
      BY <1>2, Fields DEF FailureRecord
    <2>2. failures' \in [1..MaxRuns -> FailureRecord \union {None}]
      BY <2>1 DEF TypeOK, RecordFailure
    <2>3. QED
      BY <1>1, <2>2 DEF TypeOK
  <1>4. \A q \in Runners : q # r => pc'[q] = pc[q]
    BY <1>1 DEF TypeOK
  <1>5. pc'[r] = "saving"
    BY <1>1 DEF TypeOK
  <1>6. Numbered'
    <2>1. UnderWay' = UnderWay
      BY <1>1, RunGoesOn DEF GoTo
    <2>2. QED
      BY <1>1, <1>4, <1>5, <2>1 DEF Numbered, Tested
  <1>7. NothingInvented'
    BY <1>1, <1>4, <1>5 DEF NothingInvented, Tested
  <1>8. QED
    BY <1>3, <1>6, <1>7

LEMMA SaveGeneral ==
  ASSUME General, NEW r \in Runners, Save(r)
  PROVE  General'
  <1> USE DEF General, worldVars
  <1> DEFINE x == [version |-> mine[r].version, result |-> outcome[r]]
  <1>1. /\ pc[r] = "saving" /\ End(r) /\ state' = mine[r] /\ history' = Append(history, x)
        /\ UNCHANGED <<catalogue, scheduled, failures, overlapped>>
    BY DEF Save
  <1>2. x \in Run /\ x.version = mine[r].version /\ x.result = outcome[r]
    BY Fields DEF Run
  <1> HIDE DEF x
  <1>3. /\ Len(history') = Len(history) + 1
        /\ \A v : Cardinality(FailuresOf(history', v)) = Cardinality(FailuresOf(history, v))
                    + IF mine[r].version = v /\ outcome[r] \in Failing THEN 1 ELSE 0
    BY <1>1, <1>2, FailuresGrow
  <1>4. history' \in Seq(Run)
    BY <1>1, <1>2 DEF TypeOK
  <1>5. TypeOK'
    BY <1>1, <1>4, EndFacts, Fields DEF TypeOK
  <1>6. Numbered'
    <2>1. IsFiniteSet(UnderWay') /\ Cardinality(UnderWay') = Cardinality(UnderWay) - 1
      BY <1>1, RunStops DEF Numbered, End
    <2>2. Cardinality(UnderWay) \in Nat
      BY FS_CardinalityType DEF Numbered
    <2>3. mine'[r].fails = 0 /\ mine'[r].runs = 0 /\ pc'[r] = "idle"
      BY <1>1, EndFacts DEF Fresh
    <2>4. state'.runs <= Len(history') /\ state'.fails <= state'.runs
      BY <1>1, <1>3, Fields DEF Numbered, Tested
    <2>5. \A q \in Runners : q # r => pc'[q] = pc[q] /\ mine'[q] = mine[q] /\ outcome'[q] = outcome[q]
      BY <1>1, EndFacts
    <2>6. ASSUME NEW q \in Runners
          PROVE  /\ mine'[q].fails <= mine'[q].runs
                 /\ pc'[q] # "idle" => mine'[q].version <= scheduled
                 /\ pc'[q] = "loaded" => mine'[q].runs <= Len(history')
                 /\ Tested(q)' => mine'[q].runs \in 1..(Len(history') + 1)
                 /\ pc'[q] = "failing" => outcome'[q] \in Failing
      <3>1. CASE q = r
        BY <2>3, <3>1 DEF Tested
      <3>2. CASE q # r
        BY <1>3, <2>5, <3>2, Fields DEF Numbered, Tested
      <3>3. QED
        BY <3>1, <3>2
    <2>7. Len(history') + Cardinality(UnderWay') <= MaxRuns
      BY <1>3, <2>1, <2>2, Fields, Constants DEF Numbered
    <2>8. QED
      BY <1>1, <2>1, <2>4, <2>6, <2>7 DEF Numbered
  <1>7. NothingInvented'
    <2>1. \A v : Cardinality(FailuresOf(history', v)) >= Cardinality(FailuresOf(history, v))
      BY <1>3, FailuresFacts
    <2>2. state'.fails <= Cardinality(FailuresOf(history', state'.version))
      BY <1>1, <1>3, Fields, FailuresFacts DEF NothingInvented, Tested
    <2>3. \A q \in Runners : q # r => pc'[q] = pc[q] /\ mine'[q] = mine[q] /\ outcome'[q] = outcome[q]
      BY <1>1, EndFacts
    <2>4. pc'[r] = "idle"
      BY <1>1, EndFacts
    <2>5. \A v : /\ Cardinality(FailuresOf(history', v)) \in Nat
                 /\ Cardinality(FailuresOf(history, v)) \in Nat
      <3>1. \A v : Cardinality(FailuresOf(history, v)) \in Nat
        BY FailuresFacts
      <3>2. QED
        BY <1>3, <3>1
    <2>6. ASSUME NEW q \in Runners
          PROVE  /\ pc'[q] = "loaded" => mine'[q].fails <= Cardinality(FailuresOf(history', mine'[q].version))
                 /\ Tested(q)' => mine'[q].fails <= Cardinality(FailuresOf(history', mine'[q].version))
                                                     + IF outcome'[q] \in Failing THEN 1 ELSE 0
      <3>1. CASE q = r
        BY <2>4, <3>1 DEF Tested
      <3>2. CASE q # r
        <4>1. pc'[q] = pc[q] /\ mine'[q] = mine[q] /\ outcome'[q] = outcome[q] /\ mine[q].fails \in Nat
          BY <2>3, <3>2, Fields
        <4>2. /\ pc[q] = "loaded" => mine[q].fails <= Cardinality(FailuresOf(history, mine[q].version))
              /\ Tested(q) => mine[q].fails <= Cardinality(FailuresOf(history, mine[q].version))
                                               + IF outcome[q] \in Failing THEN 1 ELSE 0
          BY DEF NothingInvented
        <4>3. PICK old \in Nat, new \in Nat :
                /\ old = Cardinality(FailuresOf(history, mine[q].version))
                /\ new = Cardinality(FailuresOf(history', mine[q].version)) /\ new >= old
          BY <2>1, <2>5
        <4>4. Tested(q)' <=> Tested(q)
          BY <4>1 DEF Tested
        <4>5. QED
          BY <4>1, <4>2, <4>3, <4>4
      <3>3. QED
        BY <3>1, <3>2
    <2>7. QED
      BY <2>2, <2>6 DEF NothingInvented
  <1>8. QED
    BY <1>5, <1>6, <1>7

LEMMA GeneralStep == General /\ [Next]_vars => General'
  <1> SUFFICES ASSUME General, [Next]_vars PROVE General'
    OBVIOUS
  <1>1. ASSUME NEW r \in Runners, HealthRun(r) PROVE General'
    <2>1. CASE RateLimit(r) \/ Crash(r)
      BY <2>1, EndGeneral DEF RateLimit, Crash
    <2>2. QED
      BY <1>1, <2>1, LoadGeneral, TestGeneral, RecordFailureGeneral, SaveGeneral DEF HealthRun
  <1>2. CASE UNCHANGED vars
    BY <1>2 DEF vars, worldVars, historyVars, General, TypeOK, Numbered, UnderWay, NothingInvented, Tested
  <1>3. QED
    BY <1>1, <1>2, WorldGeneral DEF Next

-----------------------------------------------------------------------------
(* Steps, as long as no two runs overlap.                                  *)

\* The failing streak after one more run.
LEMMA StreakGrows ==
  ASSUME TypeOK, NEW x \in Run, history' = Append(history, x)
  PROVE  FailingStreak(history', x.version) =
           IF x.result = "passed" THEN {}
           ELSE FailingStreak(history, x.version)
                  \union (IF x.result \in Failing THEN {Len(history) + 1} ELSE {})
  <1>1. /\ Len(history') = Len(history) + 1 /\ Len(history) \in Nat
        /\ history'[Len(history) + 1] = x
        /\ \A n \in 1..Len(history) : history'[n] = history[n]
    BY FailuresGrow, Fields
  <1>2. CASE x.result = "passed"
    <2>1. \A n \in 1..Len(history') : Len(history) + 1 \in n..Len(history')
      BY <1>1
    <2>2. QED
      BY <1>1, <1>2, <2>1 DEF FailingStreak, Unbroken
  <1>3. CASE x.result # "passed"
    <2>1. ASSUME NEW n \in 1..Len(history)
          PROVE  n \in Unbroken(history', x.version) <=> n \in Unbroken(history, x.version)
      <3>1. \A m : m \in n..Len(history') <=> m \in n..Len(history) \/ m = Len(history) + 1
        BY <1>1
      <3>2. QED
        BY <1>1, <1>3, <3>1 DEF Unbroken
    <2>2. Len(history) + 1 \in Unbroken(history', x.version)
      BY <1>1, <1>3 DEF Unbroken
    <2>3. ASSUME NEW n
          PROVE  n \in FailingStreak(history', x.version) <=>
                   \/ n \in FailingStreak(history, x.version)
                   \/ n = Len(history) + 1 /\ x.result \in Failing
      <3>1. CASE n \in 1..Len(history)
        BY <1>1, <2>1, <3>1 DEF FailingStreak
      <3>2. CASE n = Len(history) + 1
        BY <1>1, <2>2, <3>2 DEF FailingStreak, Unbroken
      <3>3. CASE n \notin 1..(Len(history) + 1)
        BY <1>1, <3>3 DEF FailingStreak, Unbroken
      <3>4. QED
        BY <1>1, <3>1, <3>2, <3>3
    <2>4. QED
      BY <1>3, <2>3
  <1>4. QED
    BY <1>2, <1>3

LEMMA StreakFacts ==
  ASSUME TypeOK
  PROVE  \A v : /\ FailingStreak(history, v) \subseteq 1..Len(history)
                /\ IsFiniteSet(FailingStreak(history, v))
                /\ Cardinality(FailingStreak(history, v)) \in Nat
  <1> SUFFICES ASSUME NEW v
               PROVE  /\ FailingStreak(history, v) \subseteq 1..Len(history)
                      /\ IsFiniteSet(FailingStreak(history, v))
                      /\ Cardinality(FailingStreak(history, v)) \in Nat
    OBVIOUS
  <1>1. FailingStreak(history, v) \in SUBSET (1..Len(history)) /\ IsFiniteSet(1..Len(history))
    BY Fields, FS_Interval DEF FailingStreak, Unbroken
  <1>2. QED
    BY <1>1, FS_Subset, FS_CardinalityType

\* What a run of version v carries on is the failing streak of that version.
LEMMA CarriedIsStreak ==
  ASSUME TypeOK, StateIsLast, NEW v
  PROVE  Carried(v) = Cardinality(FailingStreak(history, v))
  <1>1. CASE state # None /\ state.version = v
    BY <1>1 DEF Carried, StateIsLast
  <1>2. CASE ~(state # None /\ state.version = v)
    <2>1. \/ Len(history) = 0
          \/ Len(history) \in 1..Len(history) /\ history[Len(history)].version # v
      BY <1>2, Fields DEF StateIsLast
    <2>2. Unbroken(history, v) = {}
      <3>1. \A n \in 1..Len(history) : Len(history) \in n..Len(history)
        BY Fields
      <3>2. QED
        BY <2>1, <3>1, Fields DEF Unbroken
    <2>3. FailingStreak(history, v) = {}
      BY <2>2 DEF FailingStreak
    <2>4. QED
      BY <1>2, <2>3, FS_EmptySet DEF Carried
  <1>3. QED
    BY <1>1, <1>2

LEMMA WorldSequential ==
  ASSUME General, Sequential, Upgrade \/ Reconcile
  PROVE  Sequential'
  <1> USE DEF General, Upgrade, Reconcile, historyVars
  <1>1. /\ UNCHANGED <<state, failures, pc, mine, outcome, history, overlapped>>
        /\ scheduled' >= scheduled /\ scheduled' \in Nat /\ scheduled \in Nat
    BY Constants DEF TypeOK, Versions
  <1>2. Alone' /\ VersionsGrow'
    BY <1>1 DEF Sequential, Alone, VersionsGrow
  <1>3. StateIsLast'
    BY <1>1, Fields DEF Sequential, StateIsLast
  <1>4. RecordsFit'
    <2>1. \A n \in 1..MaxRuns : failures[n] # None => failures[n].version \in Nat
      BY Constants DEF TypeOK, FailureRecord, Versions
    <2>2. QED
      BY <1>1, <2>1, Fields DEF Sequential, RecordsFit
  <1>5. \A r \in Runners : pc'[r] # "idle" => RunContinues(r)'
    BY <1>1 DEF Sequential, RunContinues, Carried, Tested
  <1>6. QED
    BY <1>2, <1>3, <1>4, <1>5 DEF Sequential

\* When the only run under way ends, nobody is left.
LEMMA EndSequential ==
  ASSUME General, Sequential, NEW r \in Runners, pc[r] # "idle", End(r),
         UNCHANGED <<worldVars, state, failures, historyVars>>
  PROVE  Sequential'
  <1> USE DEF General, worldVars, historyVars
  <1>1. \A q \in Runners : pc'[q] = "idle"
    BY EndFacts DEF Sequential, Alone
  <1>2. QED
    BY <1>1 DEF Sequential, Alone, StateIsLast, VersionsGrow, RecordsFit

LEMMA LoadSequential ==
  ASSUME General, Sequential, NEW r \in Runners, Load(r), ~overlapped'
  PROVE  Sequential'
  <1> USE DEF General, worldVars
  <1>1. /\ mine' = [mine EXCEPT ![r] = Copy(scheduled)]
        /\ pc' = [pc EXCEPT ![r] = "loaded"]
        /\ UNCHANGED <<catalogue, scheduled, state, failures, outcome, history>>
    BY DEF Load, GoTo, Copy
  <1>2. \A q \in Runners : pc[q] = "idle"
    BY DEF Load, UnderWay
  <1>3. /\ Copy(scheduled).version = scheduled
        /\ Copy(scheduled).runs = IF state = None THEN 0 ELSE state.runs
        /\ Copy(scheduled).fails = Carried(scheduled)
    BY CopyFields, Fields
  <1>4. mine'[r] = Copy(scheduled) /\ pc'[r] = "loaded"
    BY <1>1 DEF TypeOK
  <1>5. \A q \in Runners : q # r => pc'[q] = "idle"
    BY <1>1, <1>2 DEF TypeOK
  <1>6. RunContinues(r)'
    <2>1. mine'[r].runs = Len(history)
      BY <1>3, <1>4, Fields DEF Sequential, StateIsLast
    <2>2. state # None => state.version <= scheduled
      BY DEF Sequential, StateIsLast
    <2>3. Len(history) + 1 <= MaxRuns /\ failures[Len(history) + 1] # None
            => failures[Len(history) + 1].version <= scheduled
      <3>1. Len(history) + 1 <= MaxRuns => Len(history) + 1 \in 1..MaxRuns
        BY Fields, Constants
      <3>2. QED
        BY <3>1 DEF Sequential, RecordsFit
    <2>4. Carried(scheduled)' = Carried(scheduled)
      BY <1>1 DEF Carried
    <2>5. QED
      BY <1>1, <1>3, <1>4, <2>1, <2>2, <2>3, <2>4 DEF RunContinues, Tested, Carried
  <1>7. QED
    BY <1>1, <1>4, <1>5, <1>6 DEF Sequential, Alone, StateIsLast, VersionsGrow, RecordsFit

LEMMA TestSequential ==
  ASSUME General, Sequential, NEW r \in Runners, Test(r)
  PROVE  Sequential'
  <1> USE DEF General, worldVars, historyVars
  <1>1. PICK result \in Results :
          /\ outcome' = [outcome EXCEPT ![r] = result]
          /\ mine' = [mine EXCEPT ![r] = Result(mine[r], result)]
          /\ pc' = [pc EXCEPT ![r] = IF result \in Failing THEN "failing" ELSE "saving"]
    BY DEF Test, GoTo, AfterTests, Result
  <1>2. pc[r] = "loaded" /\ UNCHANGED <<catalogue, scheduled, state, failures, history, overlapped>>
    BY DEF Test
  <1>3. /\ Result(mine[r], result).version = mine[r].version
        /\ Result(mine[r], result).runs = mine[r].runs + 1
        /\ Result(mine[r], result).fails = Fails(mine[r].fails, result)
    <2>1. mine[r].runs < MaxRuns /\ mine[r].fails <= mine[r].runs
      BY <1>2, RoomForRun, Fields, Constants DEF Numbered
    <2>2. QED
      BY <2>1, ResultFields, Fields
  <1>4. /\ mine'[r] = Result(mine[r], result) /\ outcome'[r] = result
        /\ pc'[r] = IF result \in Failing THEN "failing" ELSE "saving"
    BY <1>1 DEF TypeOK
  <1>5. \A q \in Runners : q # r => pc'[q] = "idle"
    BY <1>1, <1>2 DEF TypeOK, Sequential, Alone
  <1>6. RunContinues(r)'
    <2>1. RunContinues(r)
      BY <1>2 DEF Sequential
    <2>2. Carried(mine[r].version)' = Carried(mine'[r].version)
      BY <1>2 DEF Carried
    <2>3. QED
      BY <1>2, <1>3, <1>4, <2>1 DEF RunContinues, Tested, Carried
  <1>7. QED
    BY <1>2, <1>4, <1>5, <1>6 DEF Sequential, Alone, StateIsLast, VersionsGrow, RecordsFit
LEMMA RecordFields ==
  ASSUME NEW v \in Versions, NEW c \in Failing
  PROVE  /\ [version |-> v, category |-> c] \in FailureRecord
         /\ [version |-> v, category |-> c] # None
  BY NoneAssumption DEF FailureRecord

\* Versions of the records.
LEMMA RecordVersions ==
  ASSUME TypeOK
  PROVE  \A n \in 1..MaxRuns : failures[n] # None => failures[n] \in FailureRecord
                                                  /\ failures[n].version \in Nat
  <1>1. \A x \in FailureRecord : x.version \in Nat
    BY Constants DEF FailureRecord, Versions
  <1>2. QED
    BY <1>1 DEF TypeOK

LEMMA RecordFailureSequential ==
  ASSUME General, Sequential, NEW r \in Runners, RecordFailure(r)
  PROVE  Sequential'
  <1> USE DEF General, worldVars, historyVars
  <1> DEFINE N == Len(history) + 1
             rec == [version |-> mine[r].version, category |-> outcome[r]]
  <1>1. /\ pc[r] = "failing" /\ pc' = [pc EXCEPT ![r] = "saving"]
        /\ failures' = [failures EXCEPT ![mine[r].runs] = rec]
        /\ UNCHANGED <<catalogue, scheduled, state, mine, outcome, history, overlapped>>
    BY DEF RecordFailure, GoTo
  <1>2. RunContinues(r)
    BY <1>1 DEF Sequential
  <1>3. mine[r].runs = N
    BY <1>1, <1>2 DEF RunContinues, Tested
  <1>4. N \in 1..MaxRuns
    BY <1>1, RoomForRun, Fields, Constants
  <1>5. failures'[N] = rec /\ \A n \in 1..MaxRuns : n # N => failures'[n] = failures[n]
    BY <1>1, <1>3, <1>4 DEF TypeOK
  <1>6. pc'[r] = "saving" /\ \A q \in Runners : q # r => pc'[q] = "idle"
    BY <1>1 DEF TypeOK, Sequential, Alone
  <1>7. rec.version = mine[r].version /\ mine[r].version <= scheduled /\ mine[r].version \in Nat
    BY <1>1, Fields DEF Numbered
  <1> HIDE DEF rec
  <1>8. RecordsFit'
    <2>1. N \in 2..N => history[N - 1].version <= mine[r].version
      <3>1. HAVE N \in 2..N
      <3>2. N - 1 = Len(history) /\ history # <<>>
        BY <3>1, Fields
      <3>3. QED
        BY <1>2, <3>2 DEF Sequential, StateIsLast, RunContinues
    <2>2. ASSUME NEW n \in 1..MaxRuns
          PROVE  /\ n <= Len(history) /\ history[n].result \in Failing =>
                      failures'[n] = [version |-> history[n].version, category |-> history[n].result]
                 /\ failures'[n] # None =>
                      /\ n <= Len(history) + 1
                      /\ n \in 2..(Len(history) + 1) => history[n - 1].version <= failures'[n].version
                      /\ n <= Len(history) => failures'[n].version <= history[n].version
                      /\ n = Len(history) + 1 => failures'[n].version <= scheduled
      <3>1. CASE n = N
        <4>1. ~(n <= Len(history)) /\ n <= Len(history) + 1
          BY <3>1, Fields
        <4>2. failures'[n].version = mine[r].version
          BY <1>5, <1>7, <3>1
        <4>3. QED
          BY <1>7, <2>1, <3>1, <4>1, <4>2
      <3>2. CASE n # N
        BY <1>5, <3>2 DEF Sequential, RecordsFit
      <3>3. QED
        BY <3>1, <3>2
    <2>3. QED
      BY <1>1, <2>2 DEF RecordsFit
  <1>9. RunContinues(r)'
    <2>1. Carried(mine[r].version)' = Carried(mine[r].version)
      BY <1>1 DEF Carried
    <2>2. failures'[N].version <= mine[r].version
      BY <1>5, <1>7
    <2>3. QED
      BY <1>1, <1>2, <1>5, <1>6, <2>1, <2>2 DEF RunContinues, Tested, rec, Carried
  <1>10. QED
    BY <1>1, <1>6, <1>8, <1>9 DEF Sequential, Alone, StateIsLast, VersionsGrow

LEMMA SaveSequential ==
  ASSUME General, Sequential, NEW r \in Runners, Save(r)
  PROVE  Sequential'
  <1> USE DEF General, worldVars
  <1> DEFINE L == Len(history)
             v == mine[r].version
             x == [version |-> v, result |-> outcome[r]]
  <1>1. /\ pc[r] = "saving" /\ End(r) /\ state' = mine[r] /\ history' = Append(history, x)
        /\ UNCHANGED <<catalogue, scheduled, failures, overlapped>>
    BY DEF Save
  <1>2. x \in Run /\ x.version = v /\ x.result = outcome[r]
    BY Fields DEF Run
  <1> HIDE DEF x
  <1>3. /\ Len(history') = L + 1
        /\ history'[L + 1] = x
        /\ \A n \in 1..L : history'[n] = history[n]
    BY <1>1, <1>2, FailuresGrow
  <1>4. RunContinues(r)
    BY <1>1 DEF Sequential
  <1>5. /\ mine[r].runs = L + 1
        /\ mine[r].fails = Fails(Carried(v), outcome[r])
        /\ v <= scheduled /\ v \in Nat /\ scheduled \in Nat /\ L \in Nat
    BY <1>1, <1>4, Fields DEF RunContinues, Tested, Numbered
  <1>6. \A q \in Runners : pc'[q] = "idle"
    BY <1>1, EndFacts DEF Sequential, Alone
  <1>7. mine[r] # None
    BY Fields, NoneAssumption
  <1>8. L + 1 \in 1..MaxRuns
    BY <1>1, RoomForRun, Fields, Constants
  <1>9. StateIsLast'
    <2>1. Carried(v) = Cardinality(FailingStreak(history, v))
      BY CarriedIsStreak DEF Sequential
    <2>2. FailingStreak(history', v) =
            IF outcome[r] = "passed" THEN {}
            ELSE FailingStreak(history, v) \union (IF outcome[r] \in Failing THEN {L + 1} ELSE {})
      BY <1>1, <1>2, StreakGrows
    <2>3. /\ IsFiniteSet(FailingStreak(history, v)) /\ L + 1 \notin FailingStreak(history, v)
          /\ Cardinality(FailingStreak(history, v)) \in Nat
      BY <1>5, StreakFacts
    <2>4. Fails(Carried(v), outcome[r]) = Cardinality(FailingStreak(history', v))
      <3>1. CASE outcome[r] \in Failing
        <4>1. FailingStreak(history', v) = FailingStreak(history, v) \union {L + 1}
          BY <2>2, <3>1 DEF Failing
        <4>2. QED
          BY <2>1, <2>3, <3>1, <4>1, FS_AddElement DEF Fails, Failing
      <3>2. CASE outcome[r] = "skipped"
        <4>1. FailingStreak(history', v) = FailingStreak(history, v)
          BY <2>2, <3>2 DEF Failing
        <4>2. QED
          BY <2>1, <3>2, <4>1 DEF Fails, Failing
      <3>3. CASE outcome[r] = "passed"
        BY <2>2, <3>3, FS_EmptySet DEF Fails, Failing
      <3>4. QED
        BY <3>1, <3>2, <3>3, Fields DEF Results
    <2>5. history' # <<>> /\ state' # None
      BY <1>1, <1>3, <1>5, <1>7
    <2>6. history'[Len(history')].version = v
      BY <1>2, <1>3
    <2>7. QED
      BY <1>1, <1>3, <1>5, <2>4, <2>5, <2>6 DEF StateIsLast
  <1>10. \A n \in 1..L : history[n].version <= v /\ history[n].version \in Nat
    <2>1. TAKE n \in 1..L
    <2>2. L \in 1..L /\ n <= L /\ history # <<>>
      BY <1>5
    <2>3. history[n].version <= history[L].version
      BY <2>2 DEF Sequential, VersionsGrow
    <2>4. history[L].version <= v
      BY <1>4, <2>2 DEF Sequential, StateIsLast, RunContinues
    <2>5. QED
      BY <1>5, <2>2, <2>3, <2>4, Fields
  <1>11. VersionsGrow'
    <2>1. ASSUME NEW m \in 1..(L + 1), NEW n \in 1..(L + 1), m <= n
          PROVE  history'[m].version <= history'[n].version
      <3>1. CASE n \in 1..L
        <4>1. m \in 1..L
          BY <1>5, <2>1, <3>1
        <4>2. QED
          BY <1>3, <2>1, <3>1, <4>1 DEF Sequential, VersionsGrow
      <3>2. CASE n = L + 1 /\ m \in 1..L
        BY <1>2, <1>3, <1>10, <3>2
      <3>3. CASE n = L + 1 /\ m = L + 1
        BY <1>2, <1>3, <1>5, <3>3
      <3>4. QED
        BY <1>5, <2>1, <3>1, <3>2, <3>3
    <2>2. QED
      BY <1>3, <2>1 DEF VersionsGrow
  <1>12. RecordsFit'
    <2>1. ASSUME NEW n \in 1..MaxRuns
          PROVE  /\ n <= L + 1 /\ history'[n].result \in Failing =>
                      failures[n] = [version |-> history'[n].version, category |-> history'[n].result]
                 /\ failures[n] # None =>
                      /\ n <= (L + 1) + 1
                      /\ n \in 2..((L + 1) + 1) => history'[n - 1].version <= failures[n].version
                      /\ n <= L + 1 => failures[n].version <= history'[n].version
                      /\ n = (L + 1) + 1 => failures[n].version <= scheduled
      <3>1. failures[n] # None => n <= L + 1
        BY <1>5 DEF Sequential, RecordsFit
      <3>2. CASE n \in 1..L
        <4>1. history'[n] = history[n]
          BY <1>3, <3>2
        <4>2. n \in 2..(L + 2) => n \in 2..(L + 1) /\ n - 1 \in 1..L
          BY <1>5, <3>2
        <4>3. n <= L /\ n # L + 2
          BY <1>5, <3>2
        <4>4. n \in 2..(L + 2) => history'[n - 1] = history[n - 1]
          BY <1>3, <4>2
        <4>5. QED
          BY <1>5, <3>1, <3>2, <4>1, <4>2, <4>3, <4>4 DEF Sequential, RecordsFit
      <3>3. CASE n = L + 1
        <4>1. history'[n].version = v /\ history'[n].result = outcome[r]
          BY <1>2, <1>3, <3>3
        <4>2. outcome[r] \in Failing => failures[n] = [version |-> v, category |-> outcome[r]]
          BY <1>1, <1>4, <3>3 DEF RunContinues
        <4>3. failures[n] # None => failures[n].version <= v
          BY <1>4, <1>8, <3>3 DEF RunContinues
        <4>4. n \in 2..(L + 2) => n \in 2..(L + 1) /\ n - 1 \in 1..L /\ history'[n - 1] = history[n - 1]
          BY <1>3, <1>5, <3>3
        <4>5. failures[n] # None /\ n \in 2..(L + 2) => history'[n - 1].version <= failures[n].version
          BY <4>4 DEF Sequential, RecordsFit
        <4>6. n # L + 2
          BY <1>5, <3>3
        <4>7. QED
          BY <1>5, <3>3, <4>1, <4>2, <4>3, <4>5, <4>6
      <3>4. CASE n > L + 1
        BY <1>5, <3>1, <3>4
      <3>5. QED
        BY <1>5, <3>2, <3>3, <3>4
    <2>2. QED
      BY <1>1, <1>3, <2>1 DEF RecordsFit
  <1>13. QED
    BY <1>6, <1>9, <1>11, <1>12 DEF Sequential, Alone

LEMMA StepInv == Inv /\ [Next]_vars => Inv'
  <1> SUFFICES ASSUME Inv, [Next]_vars PROVE Inv'
    OBVIOUS
  <1>1. General'
    BY GeneralStep DEF Inv, General
  <1>2. ASSUME ~overlapped' PROVE Sequential'
    <2>1. ~overlapped
      BY <1>2 DEF Next, HealthRun, Upgrade, Reconcile, Load, RateLimit, Test, RecordFailure,
                  Save, Crash, vars, historyVars
    <2>2. General /\ Sequential
      BY <2>1 DEF Inv, General
    <2>3. ASSUME NEW r \in Runners, HealthRun(r) PROVE Sequential'
      <3>1. CASE RateLimit(r) \/ Crash(r)
        BY <2>2, <3>1, EndSequential DEF RateLimit, Crash
      <3>2. CASE Load(r)
        BY <1>2, <2>2, <3>2, LoadSequential
      <3>3. CASE Test(r) \/ RecordFailure(r) \/ Save(r)
        BY <2>2, <3>3, TestSequential, RecordFailureSequential, SaveSequential
      <3>4. QED
        BY <2>3, <3>1, <3>2, <3>3 DEF HealthRun
    <2>4. CASE UNCHANGED vars
      <3>1. UNCHANGED <<scheduled, state, failures, pc, mine, outcome, history>>
        BY <2>4 DEF vars
      <3>2. Alone' /\ StateIsLast' /\ VersionsGrow' /\ RecordsFit'
        BY <2>2, <3>1 DEF Sequential, Alone, StateIsLast, VersionsGrow, RecordsFit
      <3>3. ASSUME NEW r \in Runners, pc'[r] # "idle" PROVE RunContinues(r)'
        BY <2>2, <3>1, <3>3 DEF Sequential, RunContinues, Carried, Tested
      <3>4. QED
        BY <3>2, <3>3 DEF Sequential
    <2>5. QED
      BY <2>2, <2>3, <2>4, WorldSequential DEF Next
  <1>3. QED
    BY <1>1, <1>2 DEF Inv, General

LEMMA Invariance == Spec => []Inv
  BY InitInv, StepInv, PTL DEF Spec

-----------------------------------------------------------------------------
(* What the invariant says of a recommendation.                            *)

\* Without overlaps the state counts the failing runs of the streak.
LEMMA StateCounts ==
  ASSUME Inv, state # None, ~overlapped
  PROVE  /\ state.runs = Len(history) /\ Len(history) \in Nat
         /\ state.fails = Cardinality(FailingRuns)
         /\ FailingRuns = FailingStreak(history, state.version)
         /\ state.fails \in 0..Len(history)
         /\ Len(history) <= MaxRuns
  <1>1. FailingRuns = FailingStreak(history, state.version)
    BY DEF FailingRuns, FailingStreak, Streak, Unbroken
  <1>2. state.runs = Len(history) /\ state.fails = Cardinality(FailingRuns)
    BY <1>1 DEF Inv, Sequential, StateIsLast
  <1>3. state.fails \in 0..Len(history) /\ Len(history) \in Nat
    BY <1>2, Fields DEF Inv, Numbered
  <1>4. Len(history) <= MaxRuns
    <2>1. Cardinality(UnderWay) \in Nat
      BY FS_CardinalityType DEF Inv, Numbered
    <2>2. QED
      BY <1>3, <2>1, Constants DEF Inv, Numbered
  <1>5. QED
    BY <1>1, <1>2, <1>3, <1>4

\* The window starts no earlier than the first failing run of the streak.
LEMMA WindowReachesStreak ==
  ASSUME Inv, state # None, ~overlapped, NEW n \in Window
  PROVE  \E s \in FailingRuns : s <= n
  <1> DEFINE L == Len(history)
  <1>1. /\ L \in Nat /\ n \in Nat /\ n <= L /\ state.fails \in Nat
        /\ L + 1 - n <= state.fails
    BY StateCounts, Constants DEF Window
  <1>2. SUFFICES ASSUME \A s \in FailingRuns : ~(s <= n) PROVE FALSE
    OBVIOUS
  <1>3. FailingRuns \in SUBSET ((n + 1)..L)
    <2>1. FailingRuns \subseteq 1..L
      BY DEF FailingRuns, Streak
    <2>2. QED
      BY <1>1, <1>2, <2>1
  <1>4. IsFiniteSet((n + 1)..L) /\ Cardinality((n + 1)..L) = L - n
    <2>1. n + 1 \in Int /\ L \in Int /\ IF n + 1 > L THEN L - n = 0 ELSE L - (n + 1) + 1 = L - n
      BY <1>1
    <2>2. QED
      BY <2>1, FS_Interval
  <1>5. state.fails <= L - n
    BY <1>3, <1>4, FS_Subset, StateCounts
  <1>6. QED
    BY <1>1, <1>5

LEMMA EvidenceIsOfVersion == Inv => EvidenceOfVersion
  <1> SUFFICES ASSUME Inv, state # None, ~overlapped, NEW n \in Evidence
               PROVE  failures[n].version = state.version
    BY DEF EvidenceOfVersion
  <1> DEFINE L == Len(history)
  <1>1. n \in Window /\ n \in 1..MaxRuns /\ failures[n] # None
    BY DEF Evidence
  <1>2. n <= L /\ L \in Nat
    BY <1>1, StateCounts DEF Window
  <1>3. PICK s \in FailingRuns : s <= n
    BY <1>1, WindowReachesStreak
  <1>4. s \in 1..L /\ \A m \in s..L : history[m].version = state.version
    BY DEF FailingRuns, Streak
  <1>5. history[n].version = state.version
    BY <1>1, <1>2, <1>3, <1>4
  <1>6. failures[n].version <= state.version
    BY <1>1, <1>2, <1>5 DEF Inv, Sequential, RecordsFit
  <1>7. CASE n = s
    <2>1. history[n].result \in Failing
      BY <1>7 DEF FailingRuns
    <2>2. failures[n] = [version |-> history[n].version, category |-> history[n].result]
      BY <1>1, <1>2, <2>1 DEF Inv, Sequential, RecordsFit
    <2>3. QED
      BY <1>5, <2>2
  <1>8. CASE n # s
    <2>1. n \in 2..(L + 1) /\ n - 1 \in s..L
      BY <1>1, <1>2, <1>3, <1>4, <1>8
    <2>2. history[n - 1].version <= failures[n].version
      BY <1>1, <2>1 DEF Inv, Sequential, RecordsFit
    <2>3. state.version <= failures[n].version
      BY <1>4, <2>1, <2>2
    <2>4. failures[n].version \in Nat /\ state.version \in Nat
      BY <1>1, RecordVersions, Fields DEF Inv
    <2>5. QED
      BY <1>6, <2>3, <2>4
  <1>9. QED
    BY <1>7, <1>8

\* The window of run numbers is that of the runs in the history.
LEMMA WindowIsSeen ==
  ASSUME Inv, state # None, ~overlapped
  PROVE  /\ Window = SeenRuns
         /\ Window \subseteq 1..Len(history)
         /\ Window \subseteq 1..MaxRuns
         /\ state.fails >= 1 => Len(history) \in Window
  <1> DEFINE L == Len(history)
             f == Cardinality(FailingRuns)
  <1>1. /\ L \in Nat /\ f \in 0..L /\ L <= MaxRuns
        /\ state.fails = f /\ state.runs = L
    BY StateCounts
  <1>2. Window = (L + 1 - (IF f < Lookback THEN f ELSE Lookback))..L
    BY <1>1 DEF Window
  <1>3. \A n : n \in (L + 1 - (IF f < Lookback THEN f ELSE Lookback))..L
                <=> n \in 1..L /\ n + f > L /\ n + Lookback > L
    BY <1>1, Constants
  <1>4. Window = SeenRuns
    BY <1>2, <1>3 DEF SeenRuns
  <1>5. QED
    BY <1>1, <1>2, <1>3, <1>4, Constants

\* A failing run the recommendation can see is evidence of its own category.
LEMMA FailingRunsShow ==
  ASSUME Inv, state # None, ~overlapped, NEW n \in Window, history[n].result \in Failing
  PROVE  n \in Evidence /\ failures[n].category = history[n].result
  <1>1. n \in 1..Len(history) /\ n \in 1..MaxRuns
    BY WindowIsSeen
  <1>2. failures[n] = [version |-> history[n].version, category |-> history[n].result]
    BY <1>1 DEF Inv, Sequential, RecordsFit
  <1>3. failures[n] # None
    BY <1>1, <1>2, Fields, RecordFields DEF Inv
  <1>4. QED
    BY <1>1, <1>2, <1>3 DEF Evidence

\* No run it can see passed.
LEMMA NoneSeenPassed ==
  ASSUME Inv, state # None, ~overlapped, NEW n \in Window
  PROVE  history[n].result \in Failing \union {"skipped"}
  <1>1. n \in 1..Len(history)
    BY WindowIsSeen
  <1>2. PICK s \in FailingRuns : s <= n
    BY WindowReachesStreak
  <1>3. s \in 1..Len(history) /\ \A m \in s..Len(history) : history[m].result # "passed"
    BY DEF FailingRuns, Streak
  <1>4. history[n].result # "passed" /\ history[n].result \in Results
    BY <1>1, <1>2, <1>3, Fields DEF Inv
  <1>5. QED
    BY <1>4 DEF Results

LEMMA RecommendationIsEvidenced == Inv => RecommendationEvidenced
  <1> SUFFICES ASSUME Inv, HasEvidence, ~overlapped
               PROVE  /\ Recommended =>
                           /\ Cardinality(FailingRuns) >= Threshold
                           /\ \E n \in SeenRuns : history[n].result \in {"defect", "skipped"}
                      /\ (/\ Cardinality(FailingRuns) >= Threshold
                          /\ \E n \in SeenRuns : history[n].result = "defect") => Recommended
    BY DEF RecommendationEvidenced
  <1>1. state # None
    BY DEF HasEvidence
  <1>2. state.fails = Cardinality(FailingRuns) /\ state.fails \in Nat
    BY <1>1, StateCounts
  <1>3. ThresholdMet <=> Cardinality(FailingRuns) >= Threshold
    BY <1>2 DEF ThresholdMet
  <1>4. Window = SeenRuns
    BY <1>1, WindowIsSeen
  <1>5. ASSUME Recommended
        PROVE  \E n \in Window : history[n].result \in {"defect", "skipped"}
    <2>1. SUFFICES ASSUME \A n \in Window : history[n].result \notin {"defect", "skipped"}
                   PROVE  TransientOnly
      BY <1>5 DEF Recommended
    <2>2. \A n \in Window : history[n].result = "infrastructure"
      BY <1>1, <2>1, NoneSeenPassed DEF Failing
    <2>3. \A n \in Window : n \in Evidence /\ failures[n].category = "infrastructure"
      BY <1>1, <2>2, FailingRunsShow DEF Failing
    <2>4. Window # {}
      <3>1. state.fails >= 1
        BY <1>2, <1>3, <1>5, Constants DEF Recommended
      <3>2. QED
        BY <1>1, <3>1, WindowIsSeen
    <2>5. Evidence \subseteq Window
      BY DEF Evidence
    <2>6. QED
      BY <2>3, <2>4, <2>5 DEF TransientOnly
  <1>6. ASSUME Cardinality(FailingRuns) >= Threshold,
               NEW n \in Window, history[n].result = "defect"
        PROVE  Recommended
    <2>1. n \in Evidence /\ failures[n].category = "defect"
      BY <1>1, <1>6, FailingRunsShow DEF Failing
    <2>2. QED
      BY <1>3, <1>6, <2>1 DEF Recommended, TransientOnly
  <1>7. QED
    BY <1>3, <1>4, <1>5, <1>6 DEF Recommended

-----------------------------------------------------------------------------
(* Theorems.                                                               *)

\* Everything a run stores or holds stays well-typed.
THEOREM TypeCorrect == Spec => []TypeOK
  <1>1. Inv => TypeOK
    BY DEF Inv
  <1>2. QED
    BY <1>1, Invariance, PTL

\* consecutive_failures is the number of failing runs of the streak, however many runs of
\* however many versions died, were skipped or were rate limited, as long as none overlapped.
THEOREM CountsAreStreaks == Spec => []CountIsStreak
  <1>1. Inv => CountIsStreak
    BY StateCounts DEF CountIsStreak
  <1>2. QED
    BY <1>1, Invariance, PTL

\* However runs overlap, the count never exceeds the failing runs of the state's version
\* that were saved.
THEOREM FailuresAreReal == Spec => []NoInventedFailure
  <1>1. Inv => NoInventedFailure
    BY DEF Inv, NothingInvented, NoInventedFailure, FailuresOf
  <1>2. QED
    BY <1>1, Invariance, PTL

\* Every record in the window is of the version it is used to judge: a record left by a
\* run that died before its state was saved is of that version too, or outside the window.
THEOREM EvidenceIsCurrent == Spec => []EvidenceOfVersion
  BY Invariance, EvidenceIsOfVersion, PTL

\* For any threshold and lookback, and as long as no runs overlap, a rollback is recommended
\* only for a long enough streak with a defect or a skipped run among its last Lookback runs,
\* and always for one with a defect among them.
THEOREM RecommendationsAreEvidenced == Spec => []RecommendationEvidenced
  BY Invariance, RecommendationIsEvidenced, PTL

=============================================================================
