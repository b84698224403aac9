# HermesFlow in TLA+

HermesFlow runs on Windmill: capabilities are Windmill scripts, and Python
code under `src/windmill/f` creates candidates for them, tests, promotes, rolls
back and repairs them. None of that code holds a lock: a job is a sequence of
HTTP calls (or file-system calls) to a shared store, and what makes it correct
is the order of these calls and the few compare-and-set or create-if-absent
operations the store offers. The capabilities that collect product data share a
table and a lineage; only they use transactions. The installer is run again and
again over the files it wrote before. This directory models those
jobs in TLA+, checks them with TLC on small instances, and proves with TLAPS, for
every size, every safety property that these checks confirm.

## 1. Inventory

### Components that keep state, and how they interact

| Component | Source (below `src/windmill/f`) | State | Operations |
|---|---|---|---|
| Promotion | `hermes_flow/candidate_ops/promote.py`, `prepare_promotion.py`, `promotion.flow` | version line of the active script, `candidates/<id>_promotion` variables | prepare, suspend for approval, finalize |
| Rollback | `candidate_ops/lifecycle.py` | version line, `rollbacks/<path>_<job>` variables | `rollback_capability`, `deprecate_capability` |
| Candidate creation | `candidate_ops/create.py`, `models.py` | candidate script, candidate record | `create_candidate`, `get_candidate_record` |
| Candidate diff, regression selection | `candidate_ops/diff.py`, `testing/regression.py` | none (queue and visited set of one call) | `_consumer_impact`, `analyse_candidate`, `select_regression_tests`, `run_regression_tests` |
| Scheduled health | `testing/scheduled_health.py` | `HealthState`, one `HealthFailureRecord` per failing run, schedules | `run_scheduled_health`, `reconcile_schedules` |
| Rollback recommendation and execution | `candidate_ops/rollback_recommendation.py` | `RollbackExecutionRecord` | `recommend_rollback`, `execute_approved_rollback` |
| Adaptive repair | `repair/orchestrate.py`, `generate_candidate.py`, `finalize_retry.py`, `adaptive_repair.flow` | attempt slots of a failed job | prepare, approve, finalize and retry |
| Policy evaluator | `policies/evaluator.py`, `libraries/capability/models.py` | none | `evaluate_policy` |
| Artifact store | `libraries/storage/artifacts.py` | content-addressed objects, metadata envelopes | `write`, `read`, `delete` |
| Structured Hermes invocation | `libraries/ai/invoke_hermes_structured.py` | the attempt list of one call, artifacts | one call with retries |
| Lineage | `libraries/lineage` | graph of contexts and artifacts | add, link, enumerate a chain |
| Failure inspection | `repair/inspection.py` | the context of one call while it is reduced | read job, logs and source; classify, cut to the budgets, fit the total |
| Source-drift fixtures | `repair/promote_fixture.py` | none | sanitising |
| Test runner, health report | `testing/runner.py`, `testing/health_report.py` | none | run tests, project the health state |
| Catalogue, search, result and retention models | `catalogue`, `libraries/results`, `libraries/retention` | immutable data | validation, ranking |
| Product collection workflow | `workflows/product_collection.flow` | stage of each source, the shared `LineageState` | take each source through fetch, extraction, normalization and persistence in a pool of threads; compare, report |
| Product snapshots | `capabilities/collection/product_snapshot_write.py`, `compare_product_snapshots.py` | rows of `collection.product_snapshots` | upsert a batch in one transaction, load and compare |
| Collection capabilities | `capabilities/collection/web_fetch.py`, `extract_products.py`, `normalise_products.py`, `render_product_report.py` | the attempts of one call, artifacts | fetch with retries, extract, normalize, render |
| Hermes tools, data platform, webhook | `hermes`, `data_platform`, `collection` | none | single calls |
| Deployment | `install.py` (repository root) | `.env`, `<DATA_DIR>/.env`, the stack, Windmill's workspace and secret variables | one idempotent run: plan, files, secrets, stack, Windmill, skills |

Adaptive repair is the widest composition: it inspects the failed job, asks the policy evaluator, calls
Hermes through the structured invocation (whose answers go to the artifact
store), creates a candidate, selects and runs regression tests, prepares a
promotion from the consumer impact, waits for a person, finalizes the promotion
and starts the failed job again. Scheduled health feeds the rollback
recommendation; its execution calls `rollback_capability`. The product collection
workflow calls the collection capabilities for each of its sources, and its
result names the execution context under which anybody may persist a source's
normalization again. Promotions,
rollbacks, repairs and the operators' `wmill sync push` meet at one shared
object, the active version of the script.

### Hard behaviours

* **Check, then write, over HTTP.** Between the read of the active hash and the
  write, and between the write and the read that learns its hash, anybody may
  deploy. Only Windmill's `parent_hash` check ties the write to the read.
* **Two writes, one meaning.** Script then metadata, version then provenance,
  failure record then health state, content then envelope: a job may die, be
  refused or lose its answer in between.
* **Create-if-absent as the only lock.** Candidates, provenance records,
  execution records and repair slots rely on refused creates, whose refusal
  looks much like any other error.
* **Overwriting updates.** The health state, the attempt slots and the metadata
  envelopes are overwritten unconditionally.
* **Steps that run twice.** Windmill can rerun any step of a flow with the same
  input; callers reuse an `initiating_job_id`.
* **Transactions that wait for each other.** Batches of upserts overlap; a
  statement that waits finds another row than the one its snapshot shows.
* **Sources that fail on their own.** One of several threads that share a lineage
  and a table fails at any step, also after its commit took effect.
* **A loop that must shrink what it is given.** The repair context is reduced
  until its serialization fits; a round may leave it as large as it was.
* **Runs over the remains of runs.** The installer may be killed while it writes
  a file, calls Docker and Windmill without looking at most results, and is run
  again with other arguments.
* **Derived numbers.** Run numbers, failure streaks and look-back windows are
  separate counters that must agree.

### What makes each component correct

* Promotion, rollback: nothing reaches the active version unapproved or on top
  of another version than the one it was made for; a conflict is reported if
  and only if somebody else won; provenance is about something that happened.
* Candidate creation: one script and one record per key, which belong together.
* Consumer impact: the transitive closure with shortest distances; it ends.
* Regression run: every test due to an affected capability runs once; what a
  promotion insists on has passed.
* Scheduled health: the streak and its evidence mean what the recommendation
  takes them for.
* Rollback execution: no rollback past the gates, no invented outcome.
* Adaptive repair: bounded attempts, only tested repairs, one retry.
* Failure inspection: it ends; the context says what is missing from it; the more
  specific signal decides; Hermes is asked only about whole sources that are still
  active.
* Installer: a rerun changes nothing, locks nobody out and pushes only if that
  deletes nothing; everybody who shares a key has the same one.
* Policy: never more permissive than declared, monotone in what is asked for.
* Artifact store: metadata implies content; a tombstone is final.
* Structured invocation: every attempt leaves its evidence.
* Product snapshots: a batch is written whole or not at all, and what the call
  reports of each row is what it did to it.
* Product collection: rows and reports can be traced to the responses they come
  from, whichever source fails; the status of the result is true; the run ends.

## 2. Modules

Every job is a process with a program counter; **one action is one call** to
the shared store together with the code up to the next call. Job-local values
that outlive a call are variables. Contents are model values; a version's hash
is its position in the version line. Failures are actions: a job may fail
between any two calls, a write may take effect and its answer be lost.

| Module | Models | Abstract specification |
|---|---|---|
| `Promotion` | promotion and rollback of one capability: `Prepare`, `Approve`/`Reject`, `CheckBase`, `Write`, `Reread`, `RecordPromotion`; `CheckRollback`, `Write`, `Reread`, `RecordRollback`; `DeployOutside`, `CreateCandidate`, `Fail` | `AtomicVersions`: atomic promotions and restores on an append-only line |
| `CandidateCreate` | `create_candidate`: `LookUp`, `ReturnExisting`, `CreateScript`, `CreateMetadata`, `Fail` | `WriteOnce`: a store of write-once cells |
| `ScheduledHealth` | `Load`, `RateLimit`, `Test`, `RecordFailure`, `Save`, `Crash` of health runs; `Upgrade`, `Reconcile`; `recommend_rollback` as the state function `Recommended` | |
| `RollbackExecution` | the gates, the verification and the record around a rollback of `Promotion` (INSTANCE) | |
| `AdaptiveRepair` | slots, preparation, finalizer and retry around a promotion of `Promotion` (INSTANCE) | |
| `ConsumerImpact` | the breadth-first loop of `_consumer_impact`, one round per action | the least closed set and the lengths of chains (`Affected`, `Chains`) |
| `RegressionRun` | extends `ConsumerImpact` by what a repair does with its result: `Select`, `Unlisted`, `RunTest`, `Judge`, `Prepare`, `PrepareRaises` | the tests that anything in `Affected` requires |
| `FailureInspection` | `LoadJob`, `LoadLogs`, `LoadAsset`; the rounds of `_fit_total`: `Reduce`, `DropItem`, `CannotFit`, `Fit`; `Deploy` | |
| `RepairGeneration` | extends `FailureInspection`, `PolicyEvaluator`, `StructuredInvocation` and `CandidateCreate` to the first half of a repair: `InspectFailure`, `Decide`, `CheckContext`, `Call`, `Validate`, `CreateRepair`, `Conclude`; `Ask`, `OthersCreate`, `OthersDeploy` | `WriteOnce` for its candidates |
| `Installer` | `install.py` from `Plan` to `Finish`, one action per write of a file or external call; `Kill`, `Begin`, `StartStack`, `Build` | |
| `PolicyEvaluator` | `evaluate_policy` as a state function of a request that grows | |
| `ArtifactStore` | `write`, `read` and `delete`, one action per file-system step; `Die`, `Damage` | `ArtifactLog`: atomic creation, deletion and reading |
| `StructuredInvocation` | the attempt loop and its exception handlers | |
| `SnapshotWrite` | `persist_product_snapshots`: `Connect`, `Start` and `Upsert` of each statement, `Commit`, `NoRow`, `Fail` | `AtomicBatches`: a call writes its whole batch in one step or nothing |
| `ProductCollection` | the workflow: `TakeUp`, `RetryFetch`, `KeepResponse`, `FetchFails`, `Extract`, `StoreNormalised`, `Persist` of each source; `Compare`, `StoreDataset`, `StoreReport`, `ReportFails`; `Replay` | `AtomicBatches` for its table |

`RollbackExecution` and `AdaptiveRepair` do not repeat rollback and promotion:
they take `RollbackStep`, `PromotionStep`, `DeployOutside` and `Fail` from
`Promotion` and interleave them with their own steps, so the write protocol is
the same in all three. `ProductCollection` extends `SnapshotWrite`: the call of a
source is one of its calls, and replays by others are the rest. `RepairGeneration`
composes four modules the same way: each step of the repair is a step of one of
them, guarded by the phase that calls it.

### Correspondence worth knowing

* **Windmill (external).** `scripts/create` with a parent is accepted only on
  top of the newest version; `scripts/create` without a parent and
  `variables/create` are refused if the path exists; `variables/update`
  overwrites. This is what the code relies on, and nothing more is assumed.
* **`Promotion.Write`** is the POST, its status check and the conversion of 409
  and 422 into a conflict. Every other bad status and every exception is an
  error, also when the write took effect: the action then changes the log and
  sends the job to `failed`.
* **`Promotion.Reread`** is the second GET, which takes whatever is active by
  then for the new version. `log` and `author` keep apart what was written and
  what the job believes.
* **`Promotion.CheckRollback`** takes the hash of any version, also one of another
  script (`Scripts`): the code looks it up by hash and does not look at its path.
* **`ScheduledHealth`** keeps the catalogue version and the version that the
  schedule carries in its arguments apart: a schedule keeps running with the
  old catalogue until `reconcile_schedules` is applied. `history` and
  `overlapped` are history variables.
* **`AdaptiveRepair.Reserve`** is one round of `_reserve_attempt`. A create that
  takes effect and reports an error makes the run go on to the next slot.
* **`RegressionRun`** computes twice what the code computes twice: `Selected` from
  `select_regression_tests`, `required_tests` from `analyse_candidate`. The
  requirements and types of tests are data of the catalogue and the manifest,
  chosen when `Select` reads them. `selection` is the list that the code sorts by
  test and position of the first capability that includes it (`Includers`, `First`).
  `Status` lists every way a test can end; an
  answer without a known status counts as passed. A test is an id, contract and
  smoke tests are one kind and all others the second.
* **`ArtifactStore`** names artifacts by their writes (each has a fresh id) and
  lets contents stand for their hashes, so two writes of one content share an
  object.
* **`SnapshotWrite.Start` and `Upsert`** are one `cursor.execute`. A statement
  takes its snapshot when it starts; `ON CONFLICT` then waits until no other
  transaction holds the row and works on the newest one. `seen` is what the
  snapshot showed, and all that the second `SELECT` of `_UPSERT` can return.
  PostgreSQL is external, at its default isolation; a cycle of waiting
  transactions ends with `Fail` for one of them.
* **`ProductCollection.Persist`** is a step of `SnapshotWrite` for the source.
  Products are decided by the page, so a source's batch stands for its page and is
  chosen in `Init`; extraction and normalization may still fail. An artifact is
  named by what it is, and only registered ones count: content that was stored
  but not registered is left out. The death of the whole job is left out too:
  rows committed by then stay under a trace id that no later run uses.
* **`FailureInspection`** keeps of the evidence what its code decides on: the
  bytes of each document, the number of items of each list, the classifier
  patterns that match. `BoundedSizes` is what cutting bytes and
  `decode(errors="replace")` do to a size: each remaining part of a divided
  character becomes the three bytes of U+FFFD. The serialized size is an
  envelope, the retained documents and a fixed size per item; the escapes that
  JSON adds to a document are not in it. `warnings` are the sections that could not
  be had, as `collection_warnings` names them; a failure is then classified without.
* **`RepairGeneration.OthersCreate`** runs after the repair has its candidate.
  What another creator does earlier commutes with every step of the repair, whose
  request key has a fresh trace id in it. `GenerationInit` also explores the
  questions that others ask the evaluator, apart from any repair. A patch is what
  it newly brings in and the lines it changes, which is all that
  `validate_patch` looks at.
* **`Installer`** keeps six keys of `.env` in the order of `.env.example`, so
  that a kill within `write_text` leaves a beginning of the file. Two generated
  secrets stand for all; `telegram` stands for token and allow-list. `.env.example`
  sets none of them but the uid, and the weak password is the default of
  `docker-compose.yml`. `Listed` are the assets of the kinds that the filter on the dry
  run's output knows (`Deletions`). `achieved`
  says which external calls of the run took effect; `torn` (the files a
  kill has torn), `told` and `last` are history. Docker, `wmill` and Windmill are external: `compose up`
  recreates a container whose environment changed, and a database keeps the
  password that it was initialised with.

## 3. Runs

`MC<Module>.tla` instantiates a module, `MC<Module>*.cfg` gives the constants.

| Run | Instance | Shows |
|---|---|---|
| `promotion` | 2 candidates, 2 promotion jobs, 1 rollback, 1 outside deployment; a candidate's own script as the other script | `PromotionSound`, `ConflictIsReal`, `RollbackSound`, `RecordsHappened`; the refinement of `AtomicVersions`; `ApprovalResolves` under fairness |
| `health` | 2 runners, 4 runs, 2 catalogue versions, threshold and look-back 2 | `CountIsStreak`, `EvidenceOfVersion`, `RecommendationEvidenced` without overlap; `NoInventedFailure` with it |
| `health_outage` | 1 runner, 3 runs, threshold 1, look-back 3 | violation, see below |
| `execution` | 2 executions with one initiating id, 1 outside deployment | `NeverSilent`, `RecordedOutcomeIsTrue` |
| `repair` | 2 flows, 2 slots, 2 finalizers, 1 outside deployment | `SlotsAreExclusive`, `OnlyTestedRepairs`, `RetriedOnce` |
| `generation` | evidence on both sides of every size limit and of every tie between categories; 1 retry of the model call; 5 patches; the repair and 2 other creators on 2 keys; 1 outside deployment; every request over 2 dimensions | `ContextIsHonest`, `RepairsWhatIsKnown`, `OnlyCurrentSources`, `CandidateIsEvidenced`; of the parts it is composed of `MoreIsNeverEasier`, `SuccessIsRetained`, `EvidenceIsComplete`, `RecordDescribesScript` and the refinement of `WriteOnce`; `PreparationEnds` under fairness |
| `inspection_hang` | one job with long logs of 4-byte characters, the code's own limits | violation, see below |
| `install` | 3 runs, 4 argument lists, 1 untracked asset of a listed kind | `PasswordAccepted`, `KeysAgree`, `Idempotent` |
| `regression` | every dependency graph of up to 4 edges on 4 capabilities; 2 tests and a fixture, 2 of which are required somewhere | `ImpactIsExact`, `ReadyIsTested`, `RefusalIsExact`; `Decides` under fairness |
| `artifacts` | 2 writes, 2 reads, 2 deletions, 2 contents | `MetadataHasContent`, the refinement of `ArtifactLog` |
| `collection` | 3 sources with up to 2 products, 2 workers, 1 retry, 2 replays of the first source | `RecordsAreTrue`, `LineageIsComplete`, `ResultIsHonest`, the refinement of `AtomicBatches`; `Ends` under fairness |
| `snapshot_replay` | 2 calls with at most 1 product | violation, see below |

**Bounds.** `MaxVersions`, `MaxVersion` and `MaxRuns` stop the environment, not
the jobs: a job can always write. Each is large enough for the cases the
properties are about. Two promotions and a rollback cover the race of two jobs
of one kind and of two kinds, the outside deployment can fall into every gap of
every job. Two creators race for one key beside the repair's own: one may die
between its writes and leave the other a script without metadata, or with it. One retry
lets an attempt fail in every way before one that succeeds, or both fail. In `generation` the
sizes of a repair context are scaled down (a floor of 8 bytes for 256), with
documents below, between and above floor and budget; `CharBytes` is 1
there, so the inspection ends. Three
installer runs are the first, one that is killed or has other arguments, and one
that meets what both left. They are not enough for everything: that a torn file of
the data directory is an exception to `Idempotent` shows only in a fourth run with
two argument lists, and was found when the proof got stuck; the property names it
now, and the theorem holds for any number of runs. One untracked asset suffices, since only whether there
are any that the filter lists decides. A rollback to another script needs one such script;
`execution` has one too. Four health runs give a
streak longer than the look-back and a version change within it. Four
capabilities with four dependencies hold a chain of three consumers, a cycle, a
diamond, and two paths of different length to one consumer. Two requirements let
two capabilities list one test or different ones, and leave a consumer's test out
of the selection or not; a fixture takes the place of one of them. Three sources on two workers make one wait for the others; the
two replays hold the same two rows in the same or in opposite order, with the
payloads that are there or with others, so they cover every disposition and the
cycle of waiting transactions. Two slots and two flows cover the hidden
create (one flow takes both slots) and the exhausted bound.
`CHECK_DEADLOCK FALSE` is set where all jobs may end.

**Symmetry** is used for jobs, keys, runners, flows and finalizers where no
liveness property is checked; choices between equivalent ones are made in `Init`.

**Fairness.** `Promotion.FairSpec` asks for weak fairness of each promotion
job's own next step once approved, and of a rollback that has started: Windmill
workers keep executing a job they run, and a job that dies takes the action
`Fail` instead. Approving, deploying, creating candidates and starting rollbacks
are never forced. `RegressionRun.FairRunSpec` only says that the one thread of
the job goes on; the job of a test ends or times out. `ProductCollection.CollectionSpec` says that the threads of the
pool and the function behind it keep running, and that a statement which can go
on does; a statement that waits for a replay's transaction is never forced, and
replays only start when there is a result. `FailureInspection.InspectionSpec` and
`RepairGeneration.GenerationSpec` only say that the one job of the inspection or
repair goes on; deployments and other creators are never forced. The installer
has no fairness: it may be killed anywhere. A job that is killed is no run of
this specification.

### Divergences between code and documentation

* `health_outage`. `_recent_failure_records` looks at the last
  `min(consecutive_failures, lookback)` **run numbers**. A skipped run uses up a
  run number without being a failure, so failures of the streak drop out of the
  window; with no record left the streak counts as "not transient", and a
  rollback is recommended for an outage.
* `snapshot_replay`. A replay whose statement starts before the first writing of
  its rows commits waits, finds its own payload, updates nothing, and its second
  `SELECT` does not see the row. `fetchone()` returns `None` and unpacking it
  raises, where `docs/product-snapshots.md` promises `unchanged`.
* `inspection_hang`. Cutting multi-byte text and decoding it with replacement
  characters can give more bytes than the limit asked for. `_fit_total` reduces a
  document while more than 256 bytes of it are retained, to no fewer than 256, and so may go on
  with the same document for ever, where `docs/failure-inspection.md` promises
  that the reduction goes on "until the exact serialized-size check passes".

Others were found while modelling and are visible in the modules; no property of a
run can ask for what the documentation says in these places, so the properties say
what does hold.

* `Promotion.CheckRollback`: `rollback_capability` publishes the content of whatever
  version `restore_version` names, also that of another script (`lifecycle.py:150`),
  where `docs/rollback-recommendation.md:58-60` and the tests speak of the capability's
  own history. `RollbackSound` says that it is the version asked for.
* `ScheduledHealth.Window` is no longer than the look-back, whatever the length of the
  streak: a defect followed by as many outages is out of sight, and the recommendation
  is withheld for a streak that `docs/rollback-recommendation.md:28-30` calls "evidence
  of a genuine regression". `RecommendationEvidenced` speaks of the runs it can see.
* `FailureInspection.Category`: `classify_failure` takes the category with most matching
  patterns and uses the order of the classifiers only for ties (`inspection.py:197`). A
  `KeyError` and its traceback outweigh one signal of a denial or an outage, to which
  `docs/failure-inspection.md:28-30` gives precedence. `RepairsWhatIsKnown` leaves open
  which category wins.
* `PolicyEvaluator.Outcome`: the destructive rule returns before the limits are looked
  at (`evaluator.py:147`), so a request that is denied becomes `approval_required` when it
  is flagged destructive, although line 104 says of the flag that it "never de-escalates".
  `MoreIsNeverEasier` holds with this one exception.
* `Installer.DryRun`: a line of the dry run's output is a deletion only if it names one of
  the kinds at `install.py:474`; an item of another kind is deleted by the push that
  follows. A dry run that fails reads as one without deletions (its return code is not
  looked at), and an asset may be built between the dry run and the push. The comment
  above it promises to refuse "if anything would be removed"; no property is claimed.

Smaller ones: `Reread` may record a later version as the promoted one (the
invariant `RecordsHappened` states what does hold). `ReturnExisting` raises
"inconsistent state" while another job is between its two writes.
`RollbackExecution.Persist` keeps the first outcome under an initiating id, and
`Verify` tests whatever is active by then. `AdaptiveRepair.Persist` overwrites a
terminal status if the finalizer is run again. `StructuredInvocation.Accept`
sets the output before it is retained, so a failed result may carry one. A repair whose tests
all passed is refused when a consumer lists a test that is neither contract nor
smoke: `select_regression_tests` leaves it out and `_validated_tests` insists on
it, where `docs/adaptive-repair-retry.md` lets the preparation follow the selected
tests (`RefusalIsExact` says exactly when). Overlapping deletions replace each other's
tombstones and return different ones (`ArtifactStore.StoreTombstone`). A source
whose commit took effect without an answer is reported as failed and is in the
report all the same (the last conjunct of `ResultIsHonest`). Stating `total_bytes` may push a context over its limit and fail an inspection that could
have been reduced further (`Fit`).

Of the installer: `--env WM_DB_PASSWORD=windmill` counts
as missing and is replaced by a new secret on every run (the exception in
`Idempotent`). A kill that tears the file of the data directory loses its other keys,
and a later run only sets those it was given (the other exception). A stack first started with the weak default of `docker-compose.yml`, or a
kill that tears `.env`, leaves file and database with different passwords (the
exceptions in `PasswordAccepted`). A rerun with a new `--api-key` restarts Hermes
only on the way of something else, such as memory or Telegram (`KeysAgree` asks for
agreement with the data directory only after a restart).

## 4. Proofs

Every invariant of the passing runs, every action property and every refinement is
a theorem, for every value of the constants that the named assumptions of the
modules allow. One proof module belongs to each component that others build on, and
a composition reuses the theorems of its parts instead of repeating them.

### Promotion, rollback and repair of a version

`PromotionProofs` proves, for every set of candidates, jobs and ids, every
number of versions and with outside deployments at any time:

* `TypeCorrect`, `PromotionsAreSound`, `ConflictsAreReal`, `RollbacksAreSound`,
  `RecordsAreTrue` for the invariants of the run `promotion`;
* `Refinement`: `Spec => ImplementsAtomicVersions`.

Assumptions: `JobsAssumption` (the two kinds of jobs are disjoint, and the
outside author is none of them), `ScriptsAssumption` (versions of other scripts are not
mistaken for positions in the line), `BoundAssumption`, `NoneAssumption`.

The properties are not inductive by themselves. That a promoted version directly
follows its base holds because the job that is about to write *remembers* the
hash it checked and Windmill compares it; `Inv` therefore adds what a program
counter implies about the remembered values:

* `AuthorsWrote`: who is the author of a version is past its write;
* `Bounded`: base versions and remembered hashes name existing versions;
* `PreparedPinned`: a prepared promotion holds its candidate's base version;
* `CheckedInv`: a job about to write has a named approval and a remembered hash
  equal to the base version (a rollback: an earlier version of the path, or one of another script);
* `WrittenInv`: a job past its write owns the version after the remembered hash.

`StepInv` has one step per action; the two that append to the log go through
`GrownByAppend`, which says once what appending does to both sequences. The
refinement maps `Write` to an atomic promotion, restore or stutter and
everything but `CreateCandidate` and `DeployOutside` to a stutter.

`RollbackExecutionProofs` first shows that every step around a rollback is a step
or a stutter of `Promotion` (`ExecutionIsARollback`), so that `Promotion`'s own
invariant holds there. On top of it `RollbacksAreGated` and `OutcomesAreTrue` prove
`NeverSilent` and `RecordedOutcomeIsTrue` for any number of executions. Three
invariants carry them: `OneWrite` (who wrote a version, and that each execution
writes at most one), `GatesHeld` (what each phase has passed) and
`RecordsHaveAuthors` (a record names an execution that ended so).

`AdaptiveRepairProofs` proves `SlotsAreNeverShared`, `RetriesHappenOnce` and
`RepairsAreTested` for any number of flows and finalizers and as many attempts as
the code can be configured for (`MaxAttempts` is 1 to 3). They rest on what
`PromotionProofs` says about appending to a version line and on `CandidatesPinned`
(a candidate is based on the version that was inspected, and a repair is ready only
with its tests passed), `SlotsOwned` (a run past its reservation is the one on record
in the slot it holds; a create that reported an error may have left it another,
with which nobody goes on), `FinalizersApproved` (a finalizer works on a ready
repair, and one that is done has written) and `RetriesPromoted` (one retry at most,
by a finalizer that promoted).

`ScheduledHealthProofs` has to tell two worlds apart, because the health state is
overwritten without a check. `Numbered` and `NothingInvented` hold however runs
overlap and give `FailuresAreReal`. The rest holds as long as no run has overlapped
another, and is proved as the implication from `~overlapped` to `Sequential`: one
run is under way (`Alone`), what was saved last is what is there (`StateIsLast`),
versions never go back (`VersionsGrow`), each failing run left its record and any
other record is of a run that died before its number was saved (`RecordsFit`), and
the run in progress continues from there (`RunContinues`). `CountsAreStreaks`,
`EvidenceIsCurrent` and `RecommendationsAreEvidenced` follow. The last speaks of the
runs a recommendation can see (`SeenRuns`), which is less than the streak that the
documentation speaks of: skipped runs and a streak longer than the look-back are the
case in `health_outage` and in section 3. `FailuresAreReal` bounds the count only;
failures that an overlap loses are not counted.

### The first half of a repair

`RepairPreparationProofs` proves the parts of the preparation and then their
composition.

* *Policy:* `DeclaredIsAFloor` and `MoreNeverHelps`, for every set of dimensions and
  range of amounts; the step that matters is `ExceedsIsMonotone`. The exception of
  `MoreIsNeverEasier`, a denial that the destructive flag softens, is part of the theorem.
* *Model call:* `SuccessesAreRetained` and `EvidenceIsKept`, for every `max_retries`
  that the function accepts. The invariant adds which rounds are on record
  (`RoundsRecorded`), what each verdict rests on (`VerdictsRetained`) and what an
  accepted answer has left behind (`AcceptedInv`).
* *Candidates:* `RecordsDescribeScripts`, `AnswersDoAgree` and `CreateRefinement`
  (a write-once cell) for any number of jobs and keys. `Progress` says that between
  its two writes a job owns the script and nobody has stored metadata; before them
  the script is not its own.
* *Inspection:* `InspectionInv` (`WholeOrFlagged`, `Stated`, `Fits`, `Warned`) says of
  every round of the reduction what the context says of itself in the end, and what
  was classified if nothing is warned of.
* *Composition:* `PartsRun` shows that every step of a repair is a step or a stutter
  of each part. `GenerationInv` adds which phase of a part goes with which phase of
  the repair (`InOrder`), what asking Hermes rests on (`Justified`), that it is about
  the whole text of one version (`Sourced`) and that a
  candidate comes from a stored answer with an acceptable patch (`Validated`). From
  these: `ContextsAreHonest`, `SourcesAreCurrent`, `RepairsRestOnWhatIsKnown`,
  `CandidatesAreEvidenced`. The source is current at the check that precedes the
  requests; a version deployed after it is found by the promotion of the candidate.
* *Consumer impact:* `ImpactsAreExact` says of the breadth-first loop, on every
  finite catalogue with or without cycles, that it finds exactly the consumers that
  `Affected` defines, each at the length of its shortest chain. The queue is sorted
  and spans at most two distances (`QueueInv`); every consumer comes with the one
  before it on its chain (`ViaInv`); whoever is one step behind a capability that
  has left the queue is known, no farther away (`FrontierInv`). A shorter chain
  would have a first capability that was not reached in time
  (`NoShorterChain`); that it has a first one is the lemma `Least`, proved by counting
  and not by an induction theorem.
* *Regression run:* `RunInv` adds what `Select`, the finished tests and the judgement
  leave behind (`SelectionInv`, `RanInv`, `JudgedInv`), for `RunImpactsAreExact`,
  `ReadyRepairsAreTested` and `RefusalsAreExact`. Assumptions: the catalogue and the
  tests are finite sets of numbers, by which the code's lists are sorted.

### Artifacts, products and the installer

`ArtifactStoreProofs` proves `MetadataIsBacked` and `Refinement`
(the file operations implement `ArtifactLog`) for any number of calls and
contents. Its invariant adds `ContentFirst` (a write that has seen or stored its
object leaves one behind), `MetadataLast` (metadata exists exactly from the
moment the write returns) and `TargetsExist`. Assumptions: calls of different
kinds are different (`CallsAssumption`, `NamesAssumption`).

`ProductCollectionProofs` starts with the calls of `SnapshotWrite`:
`DispositionsAreTrue` and `Refinement` (transactions of upserts implement
`AtomicBatches`) for any number of overlapping calls, batches of any length and any
keys and payloads. The invariant adds that only open
transactions hold rows (`HoldersAreOpen`), that a call holds exactly the rows of
the items it has executed and finds in every row what these items leave there
(`StagedInv`), and that a statement executes an item that is left
(`ExecutingInv`). `EndInv` says once what the end of a transaction does to the
others; `UpsertInv` carries the argument over the batch, one item at a time.
`CollectionRuns` shows that the workflow only makes such calls, so all of this holds
inside it. `CollectionInv` then relates the stage of a source to its call and to the
lineage (`StagesInv`), its batch to its own keys (`PagesInv`, from `PagesAssumption`:
a page holds products of its source only), and keeps what the comparison saw
(`ComparedInv`); replays wait for a result (`ReplaysInv`). `LineageCompletes` and
`ResultsAreHonest` follow, for any number of sources, workers, retries and replays.

`InstallerProofs` proves the three properties of `install` for every set of argument
lists and assets and any number of runs and kills.

* `RerunsKeepThePassword`: `PasswordInv` adds that nothing has been started from a
  file with a password that is not there: without `.env` a database can only have the
  default. `EnsureDbPassword` writes only over a missing or weak password, which is then
  also all that a database can have.
* `SharersAgree`: `KeysInv` follows each key from `.env` to Hermes and to Windmill,
  with what a run has achieved so far.
* `RerunsAreIdempotent`: `ProgressInv` says what a run has written by each step (the
  sets `Past...` name the steps behind a write). `SettledInv` says what a rerun with
  the arguments of the last completed run finds: all that it would write to `.env`,
  and a data directory that lacks at most a line which it writes again.

### Left to TLC

Liveness (`ApprovalResolves`, `Decides`, `Ends`, `PreparationEnds`) needs fairness
and ENABLED, which the prover does not handle; what is checked of it is checked on
the instances of section 3. The three runs that expect a violation (`InspectionEnds`,
`NoRollbackForOutage`, `ReplayIsUnchanged`) state what does not hold. `AnswersAgree`
and `NeverMorePermissive` are proved and checked by no run.

## 5. Not modelled, and the plan

Not modelled: parsing, rendering and validation of documents (the bodies of the
collection capabilities, redaction, fixtures, catalogue validation), single HTTP
calls (Hermes tools, webhook, data platform). Their verdicts are
inputs: a policy denial, a rejected patch, a failed test, a page that cannot be
parsed are nondeterministic choices. The preview mode of
`persist_product_snapshots` writes nothing and is left out.
`deprecate_capability` only returns an edited catalogue and writes one record.
The validators of `CandidateRecord` are abstracted to a call that fails. Of
`install.py` the values of the MLX, Hindsight, Discord and LAN settings, `chown`,
model pulls, the MCP registration, the locks that `generate-metadata` may empty,
the copied skills and Windows are left out; `install.sh` and the compose files
are external. The version inspected may be newer than the one the job failed on,
and a candidate without a named `base_version` may have been written for an older
one than it records: neither is visible to the code, and both are allowed.

Order of work, most important first; the first four steps are done:

1. The version line: `Promotion`, `AtomicVersions`, with proofs.
2. What creates, judges and repairs versions: `CandidateCreate`,
   `ScheduledHealth`, `RollbackExecution`, `AdaptiveRepair`, `ConsumerImpact`,
   `RegressionRun`, `PolicyEvaluator`, `ArtifactStore`, `StructuredInvocation`.
3. The product collection workflow and its snapshots: `ProductCollection`,
   `SnapshotWrite`, `AtomicBatches`, with proofs.
4. What surrounds them: `FailureInspection`, `RepairGeneration`, `Installer`, with
   proofs.
5. To extend: the version that a retry runs (`finalize_retry.py:170` runs the
   path, not the promoted hash) in `AdaptiveRepair`; schedule creation and
   deletion by `reconcile_schedules`; the jobs of tests in `RegressionRun`.
6. To add: the sanitiser of fixtures; the enumeration of a chain over the lineage graph; the health report as a reader of `ScheduledHealth`.
7. To prove: nothing is left of what the passing runs check, liveness aside. Each
   extension of items 5 and 6 needs its proof; and atomic specifications of
   `AdaptiveRepair` (one retry per promoted attempt) and of a health run without
   overlap are worth stating, with the refinement from the invariants above.
