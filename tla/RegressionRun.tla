---------------------------- MODULE RegressionRun ----------------------------
(* Steps 6 and 7 of a repair (prepare_adaptive_repair, repair/orchestrate.py): *)
(* run_regression_tests selects tests from the consumer impact and runs them   *)
(* one by one; prepare_promotion computes, by other code, the tests it insists *)
(* on, and compares them with the evidence.                                    *)
(* One catalogue and one manifest serve all of it.  The impact is computed     *)
(* twice from them with one result, so it is computed once here.               *)
EXTENDS ConsumerImpact

CONSTANTS Tests,           \* ids of the manifest's tests
          Fixture,         \* id of the promoted source-drift fixture of this repair
          MaxRequired      \* bound: test requirements of the catalogue and fixtures together

ASSUME RegressionAssumption == /\ Tests \union {Fixture} \subseteq Nat /\ IsFiniteSet(Tests)
                               /\ Fixture \notin Tests

VARIABLES requirements,    \* metadata.test_requirements of each entry
          contracts,       \* the tests of type contract or smoke
          selection,       \* the sorted list of SelectedRegressionTest
          evidence,        \* a TestEvidence for each test that was run
          status           \* of the preparation

runVars == <<requirements, contracts, selection, evidence, status>>
allVars == <<vars, runVars>>

TestOutcome == {"passed", "failed", "skipped"}
Final == {"tests_failed", "ready_for_approval", "refused", "raised"}

RunTypeOK ==
  /\ TypeOK
  /\ requirements \in [Capabilities -> SUBSET Tests]
  /\ contracts \subseteq Tests
  /\ selection \in Seq([test : Tests \union {Fixture}, run_for_capability : Capabilities])
  /\ evidence \in Seq([test : Tests \union {Fixture}, status : TestOutcome])
  /\ status \in {"selecting", "running", "preparing"} \union Final

\* What no entry reached by the change requires plays no part, and is left empty.
RunInit ==
  /\ Init
  /\ requirements = [c \in Capabilities |-> {}]
  /\ contracts = {}
  /\ selection = <<>>
  /\ evidence = <<>>
  /\ status = "selecting"

Traverse == Next /\ UNCHANGED runVars

RequiredBy(req, paths) == UNION {req[c] : c \in paths}

\* The entries to whom tests are due, in the order include() meets them.
Ordered == <<Changed>> \o [i \in 1..Len(impacted) |-> impacted[i].path]

\* A consumer's test is run only when it is a contract or smoke test.
AnyType(t, light, c) == TRUE                                          \* mutant
Included(t, light, c) == c = Changed \/ t \in light

\* The entries that include a test, as positions in that order.
Includers(t, req, light) ==
  {i \in 1..Len(Ordered) : t \in req[Ordered[i]] /\ Included(t, light, Ordered[i])}
First(S) == CHOOSE i \in S : \A k \in S : i <= k

\* The sorted list of the tests due: the first entry that includes a test is the one it
\* runs for.
Selected(req, light, fixtures) ==
  LET ids == {t \in Tests : Includers(t, req, light) # {}} \union fixtures
      run_for(t) == IF t \in Tests THEN Ordered[First(Includers(t, req, light))] ELSE Changed
      choices == {[test |-> t, run_for_capability |-> run_for(t)] : t \in ids}
  IN {s \in [1..Cardinality(ids) -> choices] :
        \A i, k \in 1..Cardinality(ids) : i < k => s[i].test < s[k].test}

Requirements(max) ==
  {req \in [Capabilities -> SUBSET Tests] :
     /\ \A c \in Capabilities \ visited : req[c] = {}
     /\ Cardinality({x \in Capabilities \X Tests : x[2] \in req[x[1]]}) <= max}

\* A repair of a source drift brings one fixture, any other repair none.
Select ==
  /\ Done
  /\ status = "selecting"
  /\ \E fixtures \in {{}, {Fixture}} :
       \E req \in Requirements(MaxRequired - Cardinality(fixtures)) :
         \E light \in SUBSET RequiredBy(req, visited) :
           /\ requirements' = req
           /\ contracts' = light
           /\ selection' \in Selected(req, light, fixtures)
  /\ status' = "running"
  /\ UNCHANGED <<vars, evidence>>

\* A required test that no manifest has, or that does not declare the entry, fails the
\* selection, also when its type would have left it out.
Unlisted ==
  /\ Done
  /\ status = "selecting"
  /\ \E req \in Requirements(MaxRequired) :
       /\ RequiredBy(req, visited) # {}
       /\ requirements' = req
  /\ status' = "raised"
  /\ UNCHANGED <<vars, contracts, selection, evidence>>

\* What can become of a test, and the status in its evidence.
Status == [skip_reason   |-> "skipped",   \* set in the manifest: no job is started
           beyond_limits |-> "failed",    \* its bounds or its arguments: no job is started
           raised        |-> "failed",    \* the job failed, could not be started or timed out
           oversized     |-> "failed",    \* the answer, whatever it says
           pass |-> "passed", fail |-> "failed", skip |-> "skipped",
           undeclared    |-> "passed"]    \* the job ended and its answer has no known status

\* The loop goes on whatever became of a test.
RunTest ==
  /\ status = "running"
  /\ Len(evidence) < Len(selection)
  /\ \E o \in DOMAIN Status :
       evidence' = Append(evidence, [test   |-> selection[Len(evidence) + 1].test,
                                     status |-> Status[o]])
  /\ UNCHANGED <<vars, requirements, contracts, selection, status>>

EndedWith(s) == {evidence[i].test : i \in {k \in 1..Len(evidence) : evidence[k].status = s}}

\* Stricter than RegressionRunResult.passed, which lets skipped tests pass.
AllPassed == evidence # <<>> /\ \A i \in 1..Len(evidence) : evidence[i].status = "passed"

Judge ==
  /\ status = "running"
  /\ Len(evidence) = Len(selection)
  /\ status' = IF AllPassed THEN "preparing" ELSE "tests_failed"
  /\ UNCHANGED <<vars, requirements, contracts, selection, evidence>>

\* required_tests of analyse_candidate: those of the entry and of every consumer, of any type.
OwnTests == requirements[Changed]                                     \* mutant
required_tests == RequiredBy(requirements, {Changed} \union Consumer)

\* _validated_tests: each required test has a result and passed.
Prepare ==
  /\ status = "preparing"
  /\ status' = IF required_tests \subseteq EndedWith("passed")
               THEN "ready_for_approval" ELSE "refused"
  /\ UNCHANGED <<vars, requirements, contracts, selection, evidence>>

\* The policy denies the promotion, or the candidate equals the active version.
PrepareRaises ==
  /\ status = "preparing"
  /\ status' = "raised"
  /\ UNCHANGED <<vars, requirements, contracts, selection, evidence>>

RunNext == Traverse \/ Select \/ Unlisted \/ RunTest \/ Judge \/ Prepare \/ PrepareRaises
RunSpec == RunInit /\ [][RunNext]_allVars
\* One thread of one job; a test's job ends or times out.
FairRunSpec == RunSpec /\ WF_allVars(RunNext)

-----------------------------------------------------------------------------
(* Properties.                                                             *)

\* A repair reaches the approver only with a passed result of every test that the changed
\* capability or anything depending on it requires, and of its fixture, and with at least one
\* (prepare_adaptive_repair, _validated_tests); a skipped test is not enough.
ReadyIsTested ==
  status = "ready_for_approval" =>
    /\ evidence # <<>>
    /\ \A c \in Affected : requirements[c] \subseteq EndedWith("passed")
    /\ \A i \in 1..Len(selection) : selection[i].test \in EndedWith("passed")

\* The selection and the promotion disagree about one kind of test only: a repair whose
\* tests all passed is refused exactly when something that depends on the changed capability
\* requires a test that is neither contract nor smoke nor required by the capability itself.
RefusalIsExact ==
  status \in {"refused", "ready_for_approval"} =>
    (status = "refused"
       <=> \E c \in Affected \ {Changed} :
             requirements[c] \ (contracts \union requirements[Changed]) # {})

\* On every catalogue, cyclic or not, the traversal, the run and the preparation end.
Decides == <>(status \in Final)
=============================================================================
