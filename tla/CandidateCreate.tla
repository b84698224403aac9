-------------------------- MODULE CandidateCreate ---------------------------
(* create_candidate (f/hermes_flow/candidate_ops/create.py) run by several   *)
(* jobs.  A request key determines the candidate's script path and its       *)
(* metadata variable; the job looks for the script, then creates the script, *)
(* then creates the variable, in separate HTTP calls that other jobs and     *)
(* failures come between.  Contents and records are represented by the job   *)
(* that supplied them.                                                       *)
(*                                                                           *)
(* Windmill is external: scripts/create without a parent and                 *)
(* variables/create are refused when the path exists.                        *)

CONSTANTS Creators,   \* jobs that run create_candidate once each
          Keys,       \* request keys (equivalently candidate ids)
          None        \* nothing there

ASSUME NoneIsNoCreator == None \notin Creators

VARIABLES
  key,        \* the request_key each job was called with
  script,     \* who created the script of each candidate
  metadata,   \* whose CandidateRecord is stored for each candidate
  pc,         \* where each job is
  answer      \* whose record each job returned

createVars == <<key, script, metadata, pc, answer>>

Stopped == {"created", "existing", "inconsistent", "error"}
Steps == {"start", "found", "absent", "written"} \union Stopped

CreateTypeOK ==
  /\ key \in [Creators -> Keys]
  /\ script \in [Keys -> Creators \union {None}]
  /\ metadata \in [Keys -> Creators \union {None}]
  /\ pc \in [Creators -> Steps]
  /\ answer \in [Creators -> Creators \union {None}]

CreateInit ==
  /\ key \in [Creators -> Keys]
  /\ script = [k \in Keys |-> None]
  /\ metadata = [k \in Keys |-> None]
  /\ pc = [j \in Creators |-> "start"]
  /\ answer = [j \in Creators |-> None]

GoTo(j, step) == pc' = [pc EXCEPT ![j] = step]
Answer(j, record) == answer' = [answer EXCEPT ![j] = record]

\* GET scripts/get.  Only status 200 counts as found: a refused or failing read
\* looks like a candidate that does not exist.
LookUp(j) ==
  /\ pc[j] = "start"
  /\ \/ script[key[j]] # None /\ GoTo(j, "found")
     \/ GoTo(j, "absent")
  /\ UNCHANGED <<key, script, metadata, answer>>

ReturnOwn(j) == j                                                  \* mutant
ExistingRecord(j) == metadata[key[j]]

\* The script exists: GET its metadata and return it, or raise "inconsistent
\* state" if it is not there or cannot be read.
ReturnExisting(j) ==
  /\ pc[j] = "found"
  /\ \/ /\ metadata[key[j]] # None
        /\ Answer(j, ExistingRecord(j))
        /\ GoTo(j, "existing")
     \/ /\ GoTo(j, "inconsistent")
        /\ UNCHANGED answer
  /\ UNCHANGED <<key, script, metadata>>

RefusalIgnored == "written"                                        \* mutant
Refused == "error"

\* POST scripts/create: refused if the path exists.  The answer of a create that
\* took effect may be lost.
CreateScript(j) ==
  /\ pc[j] = "absent"
  /\ IF script[key[j]] = None
     THEN /\ script' = [script EXCEPT ![key[j]] = j]
          /\ GoTo(j, "written") \/ GoTo(j, "error")
     ELSE /\ GoTo(j, Refused)
          /\ UNCHANGED script
  /\ UNCHANGED <<key, metadata, answer>>

\* POST variables/create: refused if the variable exists.
CreateMetadata(j) ==
  /\ pc[j] = "written"
  /\ IF metadata[key[j]] = None
     THEN /\ metadata' = [metadata EXCEPT ![key[j]] = j]
          /\ \/ Answer(j, j) /\ GoTo(j, "created")
             \/ GoTo(j, "error") /\ UNCHANGED answer
     ELSE /\ GoTo(j, "error")
          /\ UNCHANGED <<metadata, answer>>
  /\ UNCHANGED <<key, script>>

\* An error or the death of the job before its next call: an unreadable source
\* script, an incomplete record, a timeout, a killed worker.
Fail(j) ==
  /\ pc[j] \notin Stopped
  /\ GoTo(j, "error")
  /\ UNCHANGED <<key, script, metadata, answer>>

Create(j) == LookUp(j) \/ ReturnExisting(j) \/ CreateScript(j) \/ CreateMetadata(j)

CreateNext == \E j \in Creators : Create(j) \/ Fail(j)

CreateSpec == CreateInit /\ [][CreateNext]_createVars

-----------------------------------------------------------------------------
(* Properties.                                                             *)

\* The record stored for a candidate is the record of the job that created its
\* script: nobody's metadata is ever attached to somebody else's code
\* (create_candidate's two writes are ordered, and both refuse to overwrite).
RecordDescribesScript ==
  \A k \in Keys : metadata[k] # None => metadata[k] = script[k]

\* Of all the jobs with one request key at most one believes that it created the
\* candidate, and every job that returned a record returned the stored one.
AnswersAgree ==
  \A j \in Creators :
    /\ answer[j] # None => answer[j] = metadata[key[j]]
    /\ pc[j] = "created" => script[key[j]] = j

\* Creating a candidate in two racing HTTP calls looks to every caller like filling
\* a write-once cell.
Cell == INSTANCE WriteOnce WITH Callers <- Creators, Cells <- Keys, cell <- key,
                                stored <- metadata, told <- answer
ImplementsWriteOnce == Cell!Spec
=============================================================================
