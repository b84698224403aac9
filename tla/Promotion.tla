----------------------------- MODULE Promotion ------------------------------
(***************************************************************************)
(* Promotion and rollback of one active capability by concurrent Windmill  *)
(* jobs (f/hermes_flow/candidate_ops: promote.py, lifecycle.py and         *)
(* promotion.flow).  A job reads the active hash, writes a new version     *)
(* with that hash as parent, reads the active hash again to learn which    *)
(* version it made, and stores a provenance variable; every one of these   *)
(* is a separate HTTP call to Windmill, and other jobs, operators and      *)
(* failures come in between.                                               *)
(*                                                                         *)
(* Windmill is external: the versions of a script path form one line, a    *)
(* version's hash stands here for its position in that line, a create with *)
(* a parent that is not the newest version is refused, and creating a      *)
(* variable that exists is refused.                                        *)
(***************************************************************************)
EXTENDS Naturals, Sequences

CONSTANTS Candidates,      \* candidates whose source_path is the capability
          PromotionJobs,   \* jobs that prepare and finalize one promotion each
          RollbackJobs,    \* jobs that run rollback_capability once each
          InitiatingIds,   \* values callers pass as initiating_job_id
          Original,        \* content of version 1
          Edited,          \* content deployed outside these jobs (wmill sync push)
          Scripts,         \* versions of other script paths, each named by its content
          Outside,         \* author of versions no job wrote
          None,            \* an absent variable
          MaxVersions      \* bound: no outside deployment at this length

Jobs == PromotionJobs \union RollbackJobs
Contents == Candidates \union {Original, Edited} \union Scripts

ASSUME JobsAssumption == /\ PromotionJobs \intersect RollbackJobs = {}
                         /\ Outside \notin Jobs
ASSUME ScriptsAssumption == \A s \in Scripts : s \notin Nat
ASSUME BoundAssumption == MaxVersions \in Nat
ASSUME NoneAssumption == None \notin [promoted : Nat, target : Nat]

VARIABLES
  log,               \* contents of the active path's versions; hash v is log[v]
  author,            \* history variable: who wrote each version
  base,              \* base_version of each candidate record, 0 if there is none
  promotionRecord,   \* the variables candidates/<id>_promotion
  rollbackRecord,    \* the variables rollbacks/<path>_<initiating_job_id>
  pc,                \* where each job is
  prepared,          \* what prepare_promotion returned: candidate and base_version
  approval,          \* what came out of the suspend step
  request,           \* arguments of rollback_capability
  current,           \* current_hash, as read by the job
  reread             \* promoted_hash / rollback_hash, as read after the write

vars == <<log, author, base, promotionRecord, rollbackRecord, pc, prepared,
          approval, request, current, reread>>
versionVars == <<log, author>>
recordVars == <<promotionRecord, rollbackRecord>>
argumentVars == <<prepared, approval, request>>

Active == Len(log)

Running == {"checked", "written", "reread"}
Stopped == {"done", "conflict", "failed", "rejected"}
Steps == {"start", "suspended", "approved"} \union Running \union Stopped

Record == [promoted : Nat, target : Nat]

TypeOK ==
  /\ log \in Seq(Contents)
  /\ author \in Seq(Jobs \union {Outside})
  /\ Len(author) = Len(log)
  /\ Len(log) >= 1
  /\ base \in [Candidates -> Nat]
  /\ promotionRecord \in [Candidates -> Record \union {None}]
  /\ rollbackRecord \in [InitiatingIds -> Record \union {None}]
  /\ pc \in [Jobs -> Steps]
  /\ prepared \in [PromotionJobs -> [candidate : Candidates, base : Nat]]
  /\ approval \in [PromotionJobs -> {"none", "granted", "unattributed"}]
  /\ request \in [RollbackJobs -> [restore : Nat \union Scripts, expected : Nat,
                                id : InitiatingIds]]
  /\ current \in [Jobs -> Nat]
  /\ reread \in [Jobs -> Nat]

Init ==
  /\ log = <<Original>>
  /\ author = <<Outside>>
  /\ base = [c \in Candidates |-> 0]
  /\ promotionRecord = [c \in Candidates |-> None]
  /\ rollbackRecord = [i \in InitiatingIds |-> None]
  /\ pc = [j \in Jobs |-> "start"]
  /\ prepared \in [PromotionJobs -> [candidate : Candidates, base : {0}]]
  /\ approval = [j \in PromotionJobs |-> "none"]
  /\ request \in [RollbackJobs -> [restore : {0}, expected : {0}, id : InitiatingIds]]
  /\ current = [j \in Jobs |-> 0]
  /\ reread = [j \in Jobs |-> 0]

GoTo(j, step) == pc' = [pc EXCEPT ![j] = step]

-----------------------------------------------------------------------------
(* The environment.                                                        *)

\* create_candidate stores the record of a new candidate.  Its base_version was
\* read, or handed over by a caller who read it, at some earlier moment.
CreateCandidate(c) ==
  /\ base[c] = 0
  /\ \E v \in 1..Active : base' = [base EXCEPT ![c] = v]
  /\ UNCHANGED <<versionVars, recordVars, pc, argumentVars, current, reread>>

\* A version deployed by neither kind of job.
DeployOutside ==
  /\ Active < MaxVersions
  /\ log' = Append(log, Edited)
  /\ author' = Append(author, Outside)
  /\ UNCHANGED <<base, recordVars, pc, argumentVars, current, reread>>

-----------------------------------------------------------------------------
(* Promotion: prepare, suspend for approval, finalize.                     *)

\* prepare_promotion pins the candidate's record.  It goes on only if there is
\* something to promote; denied policy and missing or failed tests end the job
\* as any other error does (Fail).
Prepare(j) ==
  LET c == prepared[j].candidate IN
  /\ pc[j] = "start"
  /\ base[c] # 0
  /\ log[Active] # c
  /\ prepared' = [prepared EXCEPT ![j].base = base[c]]
  /\ GoTo(j, "suspended")
  /\ UNCHANGED <<versionVars, base, recordVars, approval, request, current, reread>>

\* The suspend step resumes with an approver, or, when the finalizer is run
\* without the flow's approver list, with none.
Approve(j) ==
  /\ pc[j] = "suspended"
  /\ \E a \in {"granted", "unattributed"} : approval' = [approval EXCEPT ![j] = a]
  /\ GoTo(j, "approved")
  /\ UNCHANGED <<versionVars, base, recordVars, prepared, request, current, reread>>

\* Rejection or cancellation: the finalizer never runs.
Reject(j) ==
  /\ pc[j] = "suspended"
  /\ GoTo(j, "rejected")
  /\ UNCHANGED <<versionVars, base, recordVars, argumentVars, current, reread>>

BaseIgnored(j) == TRUE                                             \* mutant
BaseInverted(j) == Active # prepared[j].base                       \* mutant
StillOnBase(j) == Active = prepared[j].base

\* finalize_promotion up to its first write: approval, then the base version.
CheckBase(j) ==
  /\ pc[j] = "approved"
  /\ \/ /\ approval[j] = "unattributed"
        /\ GoTo(j, "failed")
        /\ UNCHANGED current
     \/ /\ approval[j] = "granted"
        /\ ~StillOnBase(j)
        /\ GoTo(j, "conflict")
        /\ UNCHANGED current
     \/ /\ approval[j] = "granted"
        /\ StillOnBase(j)
        /\ current' = [current EXCEPT ![j] = Active]
        /\ GoTo(j, "checked")
  /\ UNCHANGED <<versionVars, base, recordVars, argumentVars, reread>>

-----------------------------------------------------------------------------
(* Rollback: the checks that precede the write.                            *)

ExpectedIgnored(expected) == TRUE                                  \* mutant
ExpectedMatches(expected) == expected \in {0, Active}

\* scripts/get/h/<hash> finds a version of any path.
Version(hash) == IF hash \in Scripts THEN hash ELSE log[hash]

\* rollback_capability reads the active hash and compares it with the expected
\* one if the caller named one (0: not named).  The version to restore may be one
\* of any script: its path is never compared with the capability's.  It exists and
\* never changes, so reading its content is not a step of its own.
CheckRollback(j) ==
  /\ pc[j] = "start"
  /\ \E restore \in (1..Active) \union Scripts, expected \in 0..Active :
       /\ request' = [request EXCEPT ![j] =
                        [restore |-> restore, expected |-> expected, id |-> request[j].id]]
       /\ \/ /\ ~ExpectedMatches(expected)
             /\ GoTo(j, "conflict")
             /\ UNCHANGED current
          \/ /\ ExpectedMatches(expected)
             /\ current' = [current EXCEPT ![j] = Active]
             /\ GoTo(j, "checked")
  /\ UNCHANGED <<versionVars, base, recordVars, prepared, approval, reread>>

-----------------------------------------------------------------------------
(* What both kinds of job do once their checks have passed.                *)

Payload(j) == IF j \in PromotionJobs THEN prepared[j].candidate
                                     ELSE Version(request[j].restore)

LatestHash(j) == Active                                            \* mutant
ParentHash(j) == current[j]

\* A failed call is an error; only status 409 or 422 is a conflict.
LostIsConflict == "conflict"                                       \* mutant
LostAnswer == "failed"

\* POST scripts/create.  Windmill accepts it only on top of the newest version.
Write(j) ==
  /\ pc[j] = "checked"
  /\ IF ParentHash(j) = Active
     THEN /\ log' = Append(log, Payload(j))
          /\ author' = Append(author, j)
          /\ \/ GoTo(j, "written")
             \/ GoTo(j, LostAnswer)    \* written, but the answer was lost
     ELSE /\ GoTo(j, "conflict")
          /\ UNCHANGED versionVars
  /\ UNCHANGED <<base, recordVars, argumentVars, current, reread>>

\* The active hash is read again; whatever it is now is taken for the new version.
Reread(j) ==
  /\ pc[j] = "written"
  /\ reread' = [reread EXCEPT ![j] = Active]
  /\ GoTo(j, IF Active = current[j] THEN "failed" ELSE "reread")
  /\ UNCHANGED <<versionVars, base, recordVars, argumentVars, current>>

TargetReread(j) == [promoted |-> reread[j], target |-> reread[j] - 1]   \* mutant
Provenance(j) == [promoted |-> reread[j], target |-> current[j]]

\* POST variables/create of the provenance record, refused if it exists.
RecordPromotion(j) ==
  LET c == prepared[j].candidate IN
  /\ pc[j] = "reread"
  /\ IF promotionRecord[c] = None
     THEN /\ promotionRecord' = [promotionRecord EXCEPT ![c] = Provenance(j)]
          /\ GoTo(j, "done")
     ELSE /\ GoTo(j, "failed")
          /\ UNCHANGED promotionRecord
  /\ UNCHANGED <<versionVars, base, rollbackRecord, argumentVars, current, reread>>

RecordRollback(j) ==
  LET i == request[j].id IN
  /\ pc[j] = "reread"
  /\ IF rollbackRecord[i] = None
     THEN /\ rollbackRecord' = [rollbackRecord EXCEPT ![i] = Provenance(j)]
          /\ GoTo(j, "done")
     ELSE /\ GoTo(j, "failed")
          /\ UNCHANGED rollbackRecord
  /\ UNCHANGED <<versionVars, base, promotionRecord, argumentVars, current, reread>>

\* An HTTP error, an exception or the death of the job, between any two calls.
Fail(j) ==
  /\ pc[j] \notin Stopped \union {"suspended"}
  /\ GoTo(j, "failed")
  /\ UNCHANGED <<versionVars, base, recordVars, argumentVars, current, reread>>

-----------------------------------------------------------------------------
PromotionStep(j) == CheckBase(j) \/ Write(j) \/ Reread(j) \/ RecordPromotion(j)
RollbackStep(j) == CheckRollback(j) \/ Write(j) \/ Reread(j) \/ RecordRollback(j)

Next ==
  \/ \E c \in Candidates : CreateCandidate(c)
  \/ DeployOutside
  \/ \E j \in PromotionJobs : Prepare(j) \/ Approve(j) \/ Reject(j) \/ PromotionStep(j)
  \/ \E j \in RollbackJobs : RollbackStep(j)
  \/ \E j \in Jobs : Fail(j)

Spec == Init /\ [][Next]_vars

\* A worker that runs a job keeps executing it.  Nobody is obliged to approve, to
\* deploy, to create a candidate or to start a rollback.
Fairness == /\ \A j \in PromotionJobs : WF_vars(PromotionStep(j))
            /\ \A j \in RollbackJobs : WF_vars(pc[j] # "start" /\ RollbackStep(j))
FairSpec == Spec /\ Fairness
-----------------------------------------------------------------------------
(* Properties.                                                             *)

\* Every version a promotion wrote was approved by a named person, carries the
\* candidate's content and directly follows the version that candidate was
\* derived from.  As a base version is followed by one version only, a candidate
\* is promoted at most once and two candidates of one base are never both
\* promoted (finalize_promotion: base check plus parent_hash).
PromotionSound ==
  \A v \in 1..Len(log) : author[v] \in PromotionJobs =>
    LET j == author[v] IN /\ approval[j] = "granted"
                          /\ log[v] = prepared[j].candidate
                          /\ prepared[j].base = v - 1
                          /\ base[log[v]] = v - 1

\* A job that reports a conflict wrote nothing, and the version it relied on has
\* been superseded by somebody else: no conflict is spurious and no conflict hides
\* a write (PromotionConflict in both modules).
ConflictIsReal ==
  \A j \in Jobs : pc[j] = "conflict" =>
    /\ \A v \in 1..Len(log) : author[v] # j
    /\ IF j \in PromotionJobs
       THEN prepared[j].base < Active
       ELSE \/ request[j].expected \in 1..(Active - 1)
            \/ current[j] \in 1..(Active - 1)

\* Every version a rollback wrote carries the content of the version it was asked to
\* restore, an earlier one of the path or one of another script, and, if the caller
\* named the version being rolled back, directly follows that one: no rollback
\* publishes anything it was not asked for, or on top of a version its caller did
\* not mean (rollback_capability).
RollbackSound ==
  \A v \in 1..Len(log) : author[v] \in RollbackJobs =>
    LET j == author[v] IN /\ request[j].restore \in 1..(v - 1) \union Scripts
                          /\ log[v] = Version(request[j].restore)
                          /\ request[j].expected \in {0, v - 1}

\* A stored provenance record is never invented: the version after its rollback
\* target was written by a promotion of that candidate (by a rollback carrying that
\* initiating_job_id), and the version it names is not older than that one.
RecordsHappened ==
  /\ \A c \in Candidates : promotionRecord[c] # None =>
       LET r == promotionRecord[c] IN
       /\ r.target = base[c]
       /\ r.promoted \in (r.target + 1)..Active
       /\ log[r.target + 1] = c
       /\ author[r.target + 1] \in PromotionJobs
  /\ \A i \in InitiatingIds : rollbackRecord[i] # None =>
       LET r == rollbackRecord[i] IN
       /\ r.promoted \in (r.target + 1)..Active
       /\ author[r.target + 1] \in RollbackJobs
       /\ request[author[r.target + 1]].id = i

\* The jobs' separate reads and writes are indistinguishable from atomic promotions
\* and restores on an append-only history.
Promoted == {log[v] : v \in {u \in 1..Len(log) : author[u] \in PromotionJobs}}
Atomic == INSTANCE AtomicVersions WITH promoted <- Promoted
ImplementsAtomicVersions == Atomic!Spec

\* Optimistic concurrency does not starve everybody: once a promotion is approved,
\* its base version gets a successor, its own or a competitor's, unless the job
\* itself fails.
ApprovalResolves ==
  \A j \in PromotionJobs :
    pc[j] = "approved" ~> (pc[j] = "failed" \/ prepared[j].base < Active)
=============================================================================
