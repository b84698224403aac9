------------------------- MODULE RepairGeneration --------------------------
(* The first half of prepare_adaptive_repair                                 *)
(* (f/hermes_flow/repair/orchestrate.py) with generate_repair_candidate      *)
(* (generate_candidate.py): a repair inspects the failed job, asks the       *)
(* policy, checks that the context is complete and current, has Hermes write *)
(* a patch, validates it and creates the candidate, while other jobs create  *)
(* candidates and deploy versions.  The second half is AdaptiveRepair.       *)
(*                                                                           *)
(* It composes FailureInspection, PolicyEvaluator, StructuredInvocation and  *)
(* CandidateCreate.                                                          *)
EXTENDS FailureInspection, PolicyEvaluator, StructuredInvocation, CandidateCreate
LOCAL INSTANCE FiniteSetsExt

CONSTANTS Repairer,     \* the Creator that is the repair job
          RepairKey,    \* its request key
          Repaired,     \* bound: metadata of the capabilities whose jobs fail
          Patches,      \* bound: patches that Hermes proposes
          MaxChanged    \* max_changed_lines

ASSUME GenerationAssumption ==
  Repairer \in Creators /\ RepairKey \in Keys /\ MaxChanged \in Nat \ {0}

VARIABLES phase,        \* where the preparation is
          patch         \* the proposal taken from Hermes, None before there is one

generationVars ==
  <<phase, patch, inspectionVars, policyVars, callVars, createVars>>

Ends == {"policy_denied", "generation_rejected", "candidate_created", "raised"}

\* The job's request key has a fresh trace id in it: nobody else has it.  Before any
\* repair the same evaluator answers everybody else ("asking"); evaluate_policy reads
\* nothing that the others write, so those requests are explored on their own.
GenerationInit ==
  /\ PolicyInit
  /\ \/ phase = "asking" /\ failed = CHOOSE e \in Evidence : TRUE
     \/ phase = "inspecting" /\ action = "modify_candidate" /\ capability \in Repaired
  /\ InspectionInit /\ CallInit /\ CreateInit
  /\ \A j \in Creators : key[j] = RepairKey <=> j = Repairer
  /\ patch = None

MovesTo(p) == phase' = p

Ask ==
  /\ phase = "asking"
  /\ PolicyNext
  /\ UNCHANGED <<phase, patch, inspectionVars, callVars, createVars>>

\* inspect_failure_from_windmill.
InspectFailure ==
  /\ phase = "inspecting"
  /\ Inspect
  /\ UNCHANGED <<phase, patch, policyVars, callVars, createVars>>

Repairable == {"source_drift", "code_defect", "dependency"}

\* An inspection that raises ends the preparation.  A level of approval_required does
\* not: only a denial stops the generation.
Decide ==
  /\ phase = "inspecting"
  /\ \/ inspection = "error" /\ MovesTo("raised")
     \/ /\ inspection = "returned"
        /\ MovesTo(IF Category \in Repairable /\ Outcome # "denied" THEN "checking"
                   ELSE "policy_denied")
  /\ UNCHANGED <<patch, inspectionVars, policyVars, callVars, createVars>>

\* What generate_repair_candidate demands of the context, and of the active source when
\* it reads it again.
Complete == /\ ~failed.flow
            /\ ~document["code"].truncated
            /\ ~failed.redacted
            /\ hash # 0
            /\ capability # Unspecified
AnyVersion == TRUE                                                    \* mutant
SameVersion == live = hash

\* The checks, then GET scripts/get, which may fail.
CheckContext ==
  /\ phase = "checking"
  /\ \/ Complete /\ SameVersion /\ MovesTo("calling")
     \/ MovesTo("raised")
  /\ UNCHANGED <<patch, inspectionVars, policyVars, callVars, createVars>>

Call ==
  /\ phase = "calling"
  /\ CallNext
  /\ UNCHANGED <<phase, patch, inspectionVars, policyVars, createVars>>

-----------------------------------------------------------------------------
(* validate_patch.  A patch is what it newly brings in and the lines it       *)
(* changes.                                                                  *)

Effects == {"network", "database", "filesystem"}
\* No change at all, redacted or credential-shaped text, unparsable source, credential
\* literals, third-party imports, process modules, unsafe calls.
NeverAllowed == {"unchanged", "secret", "unparsable", "credential", "third_party",
                 "process", "unsafe_call"}

\* At most 35 % of the lines, rounded up, but no fewer than ten.
AllowedLines(n) == Min({MaxChanged, Max({10, (35 * n + 99) \div 100})})

ASSUME PatchAssumption == \A p \in Patches : p.brings \subseteq Effects \union NeverAllowed

LinesOnly(p) == p.lines <= AllowedLines(failed.lines)                 \* mutant
Acceptable(p) == /\ p.brings \intersect NeverAllowed = {}
                 /\ p.brings \intersect Effects \subseteq failed.declared
                 /\ p.lines <= AllowedLines(failed.lines)

\* The parsed output becomes a proposal, which may be of another shape still.
Validate ==
  /\ phase = "calling"
  /\ Ended
  /\ \/ /\ success
        /\ patch' \in {p \in Patches : Acceptable(p)}
        /\ MovesTo("creating")
     \/ /\ ~success \/ \E p \in Patches : ~Acceptable(p)
        /\ MovesTo("generation_rejected")
        /\ UNCHANGED patch
  /\ UNCHANGED <<inspectionVars, policyVars, callVars, createVars>>

\* create_candidate, its base the version inspected.
CreateRepair ==
  /\ phase = "creating"
  /\ Create(Repairer) \/ Fail(Repairer)
  /\ UNCHANGED <<phase, patch, inspectionVars, policyVars, callVars>>

Conclude ==
  /\ phase = "creating"
  /\ pc[Repairer] \in Stopped
  /\ MovesTo(IF pc[Repairer] \in {"created", "existing"} THEN "candidate_created"
             ELSE "raised")
  /\ UNCHANGED <<patch, inspectionVars, policyVars, callVars, createVars>>

Repair == \/ InspectFailure \/ Decide \/ CheckContext \/ Call
          \/ Validate \/ CreateRepair \/ Conclude

\* Everybody else.  What the other creators do before the repair is over commutes with
\* all its steps, which read and write nothing of theirs: it is explored after them.
OthersCreate ==
  /\ phase = "candidate_created"
  /\ \E j \in Creators \ {Repairer} : Create(j) \/ Fail(j)
  /\ UNCHANGED <<phase, patch, inspectionVars, policyVars, callVars>>

OthersDeploy ==
  /\ phase \notin {"asking"} \union Ends
  /\ Deploy
  /\ UNCHANGED <<phase, patch, policyVars, callVars, createVars>>

GenerationNext == Ask \/ Repair \/ OthersCreate \/ OthersDeploy

GenerationSpec == /\ GenerationInit
                  /\ [][GenerationNext]_generationVars
                  /\ WF_generationVars(Repair)

-----------------------------------------------------------------------------
(* Properties.                                                             *)

\* A request to Hermes has been made.
Asked == stage # "request" \/ attempt > 1

\* "Missing, redacted, truncated, or stale source fails before a model request": the
\* source of the first request, and of every repetition of it, is the whole text of the
\* one version that was still active at the check before them, although versions are
\* deployed while the context is gathered and reduced to its limit.  A version deployed
\* after the check is not seen here; the promotion of the candidate finds it.
OnlyCurrentSources ==
  [][/\ phase # "calling" /\ phase' = "calling" => hash = live /\ ~Asked
     /\ Asked' /\ ~Asked => phase = "calling"
     /\ Asked' => hash' # 0 /\ Retained("code")' = failed'.size["code"]
     /\ Asked => hash' = hash]_generationVars

\* Hermes is asked to repair a failure only for a repairable pattern in what was read of
\* it, and only with its active code; and unless the context says that the logs could not
\* be had, what was classified is all that the job recorded ("If job logs or active code
\* are unavailable, the context ... records a collection warning").
RepairsWhatIsKnown ==
  Asked =>
    /\ \E p \in matched : p[1] \in Repairable
    /\ "code" \notin warnings
    /\ "logs" \notin warnings =>
         /\ matched = failed.summary \union failed.logged
         /\ document["logs"].original = failed.size["logs"]

\* A repair candidate is written only with the evidence of where it comes from: the
\* reply it was taken from is stored raw and parsed, what it patches is the whole text of
\* the version inspected, and the patch brings in nothing undeclared and is small enough.
CandidateIsEvidenced ==
  script[key[Repairer]] = Repairer =>
    /\ {[kind |-> k, attempt |-> parsed] : k \in {"raw_response", "parsed_output"}} \subseteq retained
    /\ hash # 0 /\ Retained("code") = failed.size["code"]
    /\ patch.brings \subseteq failed.declared \intersect Effects
    /\ patch.lines <= AllowedLines(failed.lines)
    /\ action = "modify_candidate" /\ Outcome # "denied"

\* Every preparation ends: reducing the context, the attempts and the calls all do.
PreparationEnds == phase = "inspecting" ~> phase \in Ends
=============================================================================
