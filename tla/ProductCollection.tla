------------------------- MODULE ProductCollection --------------------------
(* The product collection workflow (f/workflows/product_collection.flow): a  *)
(* pool of workers takes each source through fetch, extraction,              *)
(* normalization and persistence, each source on its own; then the persisted *)
(* rows of all sources, failed ones included, are compared and reported.     *)
(* Persistence is SnapshotWrite, one call for each source; the other calls   *)
(* are replays of a source's persistence with its retained normalization,    *)
(* which its result makes possible.                                          *)
(*                                                                           *)
(* Artifacts are named by what they are; extraction decides which products   *)
(* are persisted, so a source's batch stands for what its page holds.        *)
EXTENDS SnapshotWrite, FiniteSets

CONSTANTS NumSources,       \* sources are numbered in the order of the input
          Products,         \* normalized products of a source
          MaxConcurrency,   \* workers of the pool
          MaxRetries        \* retries of web_fetch

Sources == 1..NumSources
Replays == Calls \ Sources

ASSUME PoolAssumption == NumSources \in Nat \ {0} /\ MaxConcurrency \in Nat \ {0}
ASSUME RetriesAssumption == MaxRetries \in Nat
ASSUME CallsAssumption == Sources \subseteq Calls /\ Keys = Sources \X Products
ASSUME PagesAssumption ==
  \A s \in Sources : \A page \in Given[s] : \A i \in 1..Len(page) : page[i].key[1] = s

VARIABLES
  stage,     \* what comes next for each source, or its SourceStatus
  attempt,   \* attempt_number of a source's web_fetch, 1 when it is not running
  lineage,   \* artifacts registered in the LineageState that all sources share
  covered,   \* sources of whose rows the comparison consists
  warned,    \* whether the comparison has warnings
  status     \* phase of the workflow, then the status of its result

resultVars == <<covered, warned, status>>
sourceVars == <<stage, attempt>>
collectionVars == <<vars, stage, attempt, lineage, resultVars>>

Ended == {"success", "empty", "failed"}
ActiveForGood == {"fetching", "fetched", "extracted", "normalised", "failed"} \* mutant
Active == {"fetching", "fetched", "extracted", "normalised"}

Raw(s) == [kind |-> "raw", source |-> s]
Normalised(s) == [kind |-> "normalised", source |-> s]
Dataset == [kind |-> "dataset", source |-> 0]
Report == [kind |-> "report", source |-> 0]
Artifacts == {Dataset, Report} \union {Raw(s) : s \in Sources} \union {Normalised(s) : s \in Sources}

\* derived_from of each artifact.
Inputs(a) ==
  CASE a.kind = "raw"        -> {}
    [] a.kind = "normalised" -> {Raw(a.source)}
    [] a.kind = "dataset"    -> {Raw(s) : s \in covered}
    [] a.kind = "report"     -> {Dataset}

CollectionTypeOK ==
  /\ TypeOK
  /\ stage \in [Sources -> {"queued"} \union Active \union Ended]
  /\ attempt \in [Sources -> 1..(MaxRetries + 1)]
  /\ lineage \subseteq Artifacts
  /\ covered \subseteq Sources
  /\ warned \in BOOLEAN
  /\ status \in {"collecting", "compared", "reporting", "success", "partial", "failure"}

CollectionInit ==
  /\ Init
  /\ stage = [s \in Sources |-> "queued"]
  /\ attempt = [s \in Sources |-> 1]
  /\ lineage = {}
  /\ covered = {}
  /\ warned = FALSE
  /\ status = "collecting"

Reach(s, next) == stage' = [stage EXCEPT ![s] = next]

\* write_artifact: the inputs must be registered; the content goes to the artifact
\* store, then the reference is registered.  If it raises, nothing is registered.
WriteArtifact(a) ==
  /\ Inputs(a) \subseteq lineage
  /\ lineage' = lineage \union {a}

-----------------------------------------------------------------------------
\* The sources.

Workers == Cardinality({s \in Sources : stage[s] \in Active})

\* A worker of the pool takes the source that has waited longest.
TakeUp(s) ==
  /\ stage[s] = "queued"
  /\ \A t \in 1..(s - 1) : stage[t] # "queued"
  /\ Workers < MaxConcurrency
  /\ Reach(s, "fetching")
  /\ UNCHANGED <<vars, attempt, lineage, resultVars>>

MayRetry(s) == attempt[s] <= MaxRetries

\* An attempt of web_fetch times out, loses its connection or gets a retryable
\* status; the last attempt is not repeated.
RetryFetch(s) ==
  /\ stage[s] = "fetching"
  /\ MayRetry(s)
  /\ attempt' = [attempt EXCEPT ![s] = @ + 1]
  /\ UNCHANGED <<vars, stage, lineage, resultVars>>

\* A response is retained whatever its status; only a success goes on.
KeepResponse(s) ==
  /\ stage[s] = "fetching"
  /\ WriteArtifact(Raw(s))
  /\ attempt' = [attempt EXCEPT ![s] = 1]
  /\ Reach(s, "fetched") \/ Reach(s, "failed")
  /\ UNCHANGED <<vars, resultVars>>

\* A policy violation, an oversized response, the end of the attempts, or a raw
\* artifact that could not be written.
FetchFails(s) ==
  /\ stage[s] = "fetching"
  /\ attempt' = [attempt EXCEPT ![s] = 1]
  /\ Reach(s, "failed")
  /\ UNCHANGED <<vars, lineage, resultVars>>

\* extract_products and normalise_products read the raw artifact; either may raise.
Extract(s) ==
  /\ stage[s] = "fetched"
  /\ Reach(s, "extracted") \/ Reach(s, "failed")
  /\ UNCHANGED <<vars, attempt, lineage, resultVars>>

PersistAnyway(s) ==                                                \* mutant
  /\ stage[s] = "extracted"
  /\ WriteArtifact(Normalised(s)) \/ UNCHANGED lineage
  /\ Reach(s, "normalised")
  /\ UNCHANGED <<vars, attempt, resultVars>>

\* A failed write ends the source before anything is persisted.
StoreNormalised(s) ==
  /\ stage[s] = "extracted"
  /\ \/ WriteArtifact(Normalised(s)) /\ Reach(s, "normalised")
     \/ UNCHANGED lineage /\ Reach(s, "failed")
  /\ UNCHANGED <<vars, attempt, resultVars>>

\* The SourceStatus that the outcome of the persister leads to.
Result(s, outcome) ==
  CASE outcome \in {"failed", "raised"} -> "failed"
    [] outcome = "persisted"            -> IF batch[s] = << >> THEN "empty" ELSE "success"
    [] OTHER                            -> "normalised"

\* A step of persist_product_snapshots for the source.
Persist(s) ==
  /\ stage[s] = "normalised"
  /\ Step(s)
  /\ Reach(s, Result(s, pc'[s]))
  /\ UNCHANGED <<attempt, lineage, resultVars>>

SourceStep(s) ==
  \/ TakeUp(s) \/ RetryFetch(s) \/ KeepResponse(s) \/ FetchFails(s)
  \/ Extract(s) \/ StoreNormalised(s) \/ Persist(s)

-----------------------------------------------------------------------------
\* The rest of the workflow.

AllEnded == \A s \in Sources : stage[s] \in Ended

HasRows(s) == \E p \in Products : rows[<<s, p>>] # None

\* compare_from_database asks for every source.  A source without rows makes a
\* warning; so may duplicates, missing prices and mixed currencies.
Compare ==
  /\ status = "collecting" /\ AllEnded
  /\ covered' = {s \in Sources : HasRows(s)}
  /\ warned' \in {TRUE, covered' # Sources}
  /\ status' = "compared"
  /\ UNCHANGED <<vars, sourceVars, lineage>>

\* The artifacts of the covered sources become the inputs of the dataset;
\* _source_artifacts raises if one of them is not in the lineage.
StoreDataset ==
  /\ status = "compared"
  /\ WriteArtifact(Dataset)
  /\ status' = "reporting"
  /\ UNCHANGED <<vars, sourceVars, covered, warned>>

StatusOfRows(failed) ==                                            \* mutant
  IF failed = Sources THEN "failure" ELSE IF warned THEN "partial" ELSE "success"
StatusFor(failed) ==
  IF failed = Sources THEN "failure"
  ELSE IF failed # {} \/ warned THEN "partial"
  ELSE "success"

StoreReport ==
  /\ status = "reporting"
  /\ WriteArtifact(Report)
  /\ status' = StatusFor({s \in Sources : stage[s] = "failed"})
  /\ UNCHANGED <<vars, sourceVars, covered, warned>>

\* The comparison, the dataset or the report fails: the result is a failure that
\* keeps the results of the sources.
ReportFails ==
  /\ \/ status = "collecting" /\ AllEnded
     \/ status \in {"compared", "reporting"}
  /\ status' = "failure"
  /\ UNCHANGED <<vars, sourceVars, lineage, covered, warned>>

WorkflowStep == Compare \/ StoreDataset \/ StoreReport \/ ReportFails

Done == status \in {"success", "partial", "failure"}

\* Once there is a result, somebody persists a retained normalization again,
\* under the execution context that the result names.
Replay(c) ==
  /\ Done
  /\ \A i \in 1..Len(batch[c]) : Normalised(batch[c][i].key[1]) \in lineage
  /\ Step(c)
  /\ UNCHANGED <<sourceVars, lineage, resultVars>>

CollectionNext ==
  \/ WorkflowStep
  \/ \E s \in Sources : SourceStep(s)
  \/ \E c \in Replays : Replay(c)

\* The workers and the workflow keep going while the job runs.
Fairness ==
  /\ WF_collectionVars(WorkflowStep)
  /\ \A s \in Sources : WF_collectionVars(SourceStep(s))

CollectionSpec == CollectionInit /\ [][CollectionNext]_collectionVars /\ Fairness

-----------------------------------------------------------------------------
\* Whatever fails and in whatever order, rows never exist without the evidence
\* they were made from: the source of every row has its response and its
\* normalization in the lineage, and every registered artifact has registered
\* inputs, so that the chain of the report ends in responses (_process_source,
\* record_artifact).
LineageIsComplete ==
  /\ \A k \in Keys : rows[k] # None => {Raw(k[1]), Normalised(k[1])} \subseteq lineage
  /\ \A a \in lineage : Inputs(a) \subseteq lineage

\* What a result claims about sources holds of the table and of the report.  A
\* source that succeeded has every product persisted and its response among the
\* inputs of the dataset; a success leaves nobody out; a source that is in the
\* report but did not succeed is one whose commit was not confirmed.
ResultIsHonest ==
  Done =>
    /\ \A s \in Sources : stage[s] = "success" =>
         \A i \in 1..Len(batch[s]) : rows[batch[s][i].key] # None
    /\ status # "failure" =>
         /\ Report \in lineage
         /\ {Raw(s) : s \in {t \in Sources : stage[t] = "success"}} \subseteq Inputs(Dataset)
         /\ \E s \in Sources : stage[s] # "failed"
    /\ status = "success" => \A s \in Sources : stage[s] = "success" /\ Raw(s) \in Inputs(Dataset)
    /\ \A s \in covered : stage[s] # "success" => stage[s] = "failed" /\ pc[s] = "failed"

\* A source that fails does not hold up its peers or the workflow: the run ends.
Ends == <>Done
=============================================================================
