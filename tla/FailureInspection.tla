------------------------- MODULE FailureInspection --------------------------
(* inspect_failure_from_windmill (f/hermes_flow/repair/inspection.py): three *)
(* reads of Windmill, with other deployments between them, and then the      *)
(* repair context built from what they returned: documents cut to their      *)
(* budgets, lists cut to theirs, the failure classified, and the whole       *)
(* reduced until its serialization fits max_total_bytes.                     *)
(*                                                                           *)
(* Sizes are bytes.  A document is the size of what it retains of a text:   *)
(* which bytes a cut falls on is left open, within what the width of the     *)
(* text's characters allows.  A version of the active capability is its      *)
(* position in the version line.                                             *)
EXTENDS Naturals, Sequences, FiniteSets
LOCAL INSTANCE FiniteSetsExt

CONSTANTS
  Evidence,       \* what the failed job and its records can show (see Init)
  CharBytes,      \* width of the widest character in the job's texts: 1 for ASCII
  MaxTotalBytes,  \* max_total_bytes
  SectionBytes,   \* max_code_bytes, max_input_bytes and max_log_bytes
  MaxItems,       \* max_artifacts, max_dependencies and max_test_evidence
  Floor,          \* documents of at most this size are not reduced: 256
  MarkerBytes,    \* size of the truncation marker: 29
  ItemBytes,      \* serialized size of a list item
  DigitBytes,     \* by how much stating total_bytes enlarges the context
  MaxDeployed     \* bound: no outside deployment at this version

ASSUME InspectionAssumption ==
  /\ {MaxTotalBytes, SectionBytes, MaxItems, Floor, MarkerBytes, ItemBytes, DigitBytes} \subseteq Nat
  /\ CharBytes \in {1, 3, 4}         \* U+FFFD, that replaces what is cut, has 3
  /\ MarkerBytes < Floor /\ Floor <= SectionBytes

VARIABLES
  live,           \* active version
  failed,         \* the failed job's evidence
  inspection,     \* how far the inspection is
  matched,        \* classifier patterns found in failure summary and logs
  document,       \* code, inputs and logs
  kept,           \* items in each list
  omitted,        \* omitted_artifacts, omitted_dependencies, omitted_test_evidence
  truncated,      \* truncated_sections
  warnings,       \* collection_warnings: the sections that could not be had
  hash            \* windmill_hash: the version inspected, 0 if it is unavailable

capabilityVars == <<live>>
contextVars == <<matched, document, kept, omitted, truncated, warnings, hash>>
inspectionVars == <<live, failed, inspection, contextVars>>

Sections == {"logs", "code", "inputs"}
Lists == {"tests", "dependencies", "artifacts"}

-----------------------------------------------------------------------------
(* Documents.                                                              *)

\* The parts of the character that a cut divides: it keeps some bytes and loses some.
Kept == 1..(CharBytes - 1)
Replacement == 3                      \* bytes of U+FFFD

\* Sizes of _bounded_document's content: head and tail of a text that is too long, a
\* marker between them, max bytes in all; then decode(errors="replace") makes one
\* U+FFFD of what is left of a character cut at the end of the head, and one of each
\* byte left of a character cut at the start of the tail.
BoundedSizes(size, max) ==
  IF size <= max THEN {size}
  ELSE {max + head + tail : head \in {0} \union {Replacement - n : n \in Kept},
                            tail \in {0} \union {(Replacement - 1) * n : n \in Kept}}

Documents(size) ==
  {[original |-> size, retained |-> n, truncated |-> size > SectionBytes] :
     n \in BoundedSizes(size, SectionBytes)}

-----------------------------------------------------------------------------
(* classify_failure.                                                       *)

\* _CLASSIFIERS, the most specific category first, and the patterns of each.
Classifiers == <<"policy", "input", "source_drift", "dependency", "infrastructure", "code_defect">>
Patterns(category) == 1..(IF category = "infrastructure" THEN 3 ELSE 2)
Reasons == {p \in {Classifiers[c] : c \in 1..Len(Classifiers)} \X (1..3) : p[2] \in Patterns(p[1])}
ASSUME EvidenceAssumption ==
  \A e \in Evidence : /\ e.size \in [Sections -> Nat] /\ e.found \in [Lists -> Nat]
                      /\ e.inline \in BOOLEAN
                      /\ e.summary \union e.logged \subseteq Reasons

Count(category) == Cardinality({p \in matched : p[1] = category})

FirstOfMost(c, d) == Count(Classifiers[c]) > Count(Classifiers[d]) \/ c <= d

\* The category with most reasons; the classifiers' order only breaks ties.
Category ==
  IF matched = {} THEN "unknown"
  ELSE Classifiers[CHOOSE c \in 1..Len(Classifiers) :
         \A d \in 1..Len(Classifiers) :
           Count(Classifiers[c]) >= Count(Classifiers[d]) /\ FirstOfMost(c, d)]

-----------------------------------------------------------------------------
(* The calls.                                                              *)

\* Empty: what the context holds before it is built.
NoDocument == [original |-> 0, retained |-> 0, truncated |-> FALSE]

\* Evidence: the size of each section, the items found for each list, the bytes of all
\* the rest of the context, the patterns in the failure summary and in the logs, whether
\* the logs come with the job and whether the job succeeded.
InspectionInit ==
  /\ live = 1
  /\ failed \in Evidence
  /\ inspection = "job"
  /\ matched = {}
  /\ document = [s \in Sections |-> NoDocument]
  /\ kept = [l \in Lists |-> 0]
  /\ omitted = [l \in Lists |-> 0]
  /\ truncated = {}
  /\ warnings = {}
  /\ hash = 0

InspectionGoesTo(s) == inspection' = s

\* GET jobs_u/get: the job must load and name its path.
LoadJob ==
  /\ inspection = "job"
  /\ InspectionGoesTo("logs") \/ InspectionGoesTo("error")
  /\ UNCHANGED <<live, failed, contextVars>>

Unwarned(what, available) == warnings                                 \* mutant
Warning(what, available) == IF available THEN warnings ELSE warnings \union {what}

\* The job's own logs, or GET jobs_u/get_logs; unavailable logs are only a warning.
LoadLogs ==
  /\ inspection = "logs"
  /\ \E available \in {TRUE, failed.inline} :
       /\ \E logs \in Documents(IF available THEN failed.size["logs"] ELSE 0) :
            document' = [document EXCEPT !["logs"] = logs]
       /\ matched' = failed.summary \union (IF available THEN failed.logged ELSE {})
       /\ warnings' = Warning("logs", available)
  /\ InspectionGoesTo("asset")
  /\ UNCHANGED <<live, failed, kept, omitted, truncated, hash>>

NoteBytes == 1                        \* [active code unavailable]

\* GET the active script or flow; an unavailable one is replaced by a note without a
\* hash.  Then build_repair_context: only failed jobs are inspected.
LoadAsset ==
  LET n == [l \in Lists |-> Min({failed.found[l], MaxItems})] IN
  /\ inspection = "asset"
  /\ \E available \in BOOLEAN :
       /\ \E code \in Documents(IF available THEN failed.size["code"] ELSE NoteBytes),
             inputs \in Documents(failed.size["inputs"]) :
            document' = [document EXCEPT !["code"] = code, !["inputs"] = inputs]
       /\ warnings' = Warning("code", available)
       /\ hash' = IF available THEN live ELSE 0
  /\ kept' = n
  /\ omitted' = [l \in Lists |-> failed.found[l] - n[l]]
  /\ truncated' = {s \in Sections : document'[s].truncated}
  /\ InspectionGoesTo(IF failed.success THEN "error" ELSE "fitting")
  /\ UNCHANGED <<live, failed, matched>>

-----------------------------------------------------------------------------
(* _fit_total, one round of its loop per action.                           *)

Retained(s) == document[s].retained
Bytes(documents, lists) == MapThenSumSet(LAMBDA s : documents[s].retained, Sections)
                             + MapThenSumSet(LAMBDA l : ItemBytes * lists[l], Lists)
Size == failed.envelope + Bytes(document, kept)
TooLarge == inspection = "fitting" /\ Size > MaxTotalBytes

StillReducible == {s \in Sections : Retained(s) >= Floor}             \* mutant
Reducible == {s \in Sections : Retained(s) > Floor}
Rank(s) == CASE s = "logs" -> 1 [] s = "code" -> 2 [] s = "inputs" -> 3
IsLargest(s) ==
  \A t \in Reducible : Retained(s) > Retained(t) \/ (Retained(s) = Retained(t) /\ Rank(s) <= Rank(t))

Halved(d) ==
  {[d EXCEPT !.retained = n] :
     n \in BoundedSizes(d.retained, Max({Floor, d.retained \div 2}))}
HalfUnflagged(d) == Halved(d)                                         \* mutant
Half(d) == {[half EXCEPT !.truncated = TRUE] : half \in Halved(d)}

\* The largest reducible document is halved, but not below the floor.
Reduce ==
  /\ TooLarge
  /\ \E s \in Reducible :
       /\ IsLargest(s)
       /\ \E half \in Half(document[s]) : document' = [document EXCEPT ![s] = half]
       /\ truncated' = truncated \union {s}
  /\ UNCHANGED <<live, failed, inspection, matched, kept, omitted, warnings, hash>>

\* The list that loses its last item: tests first, artifacts last.
Shortened == CHOOSE l \in Lists :
  /\ kept[l] > 0
  /\ l = "dependencies" => kept["tests"] = 0
  /\ l = "artifacts" => kept["tests"] = 0 /\ kept["dependencies"] = 0

DropItem ==
  /\ TooLarge
  /\ Reducible = {}
  /\ \E l \in Lists : kept[l] > 0
  /\ kept' = [kept EXCEPT ![Shortened] = @ - 1]
  /\ omitted' = [omitted EXCEPT ![Shortened] = @ + 1]
  /\ UNCHANGED <<live, failed, inspection, matched, document, truncated, warnings, hash>>

CannotFit ==
  /\ TooLarge
  /\ Reducible = {}
  /\ \A l \in Lists : kept[l] = 0
  /\ InspectionGoesTo("error")
  /\ UNCHANGED <<live, failed, contextVars>>

StillFits == Size + DigitBytes <= MaxTotalBytes

\* total_bytes is stated at last, and stating it may be what exceeds the limit.
Fit ==
  /\ inspection = "fitting"
  /\ Size <= MaxTotalBytes
  /\ InspectionGoesTo(IF StillFits THEN "returned" ELSE "error")
  /\ UNCHANGED <<live, failed, contextVars>>

Inspect == \/ LoadJob \/ LoadLogs \/ LoadAsset
           \/ Reduce \/ DropItem \/ CannotFit \/ Fit

\* A promotion, a rollback or an operator replaces the active version.
Deploy ==
  /\ live < MaxDeployed
  /\ live' = live + 1
  /\ UNCHANGED <<failed, inspection, contextVars>>

InspectionSpec == /\ InspectionInit
                  /\ [][Inspect \/ Deploy]_inspectionVars
                  /\ WF_inspectionVars(Inspect)

-----------------------------------------------------------------------------
(* Properties.                                                             *)

\* A returned context fits its limit with total_bytes stated, and says of everything
\* that is missing from it that it is missing: a section is named as truncated if and
\* only if its document is not the whole text, and what a list lost is counted
\* ("records every omission").
ContextIsHonest ==
  inspection = "returned" =>
    /\ Size + DigitBytes <= MaxTotalBytes
    /\ \A s \in Sections :
         /\ document[s].truncated <=> s \in truncated
         /\ ~document[s].truncated => Retained(s) = document[s].original
    /\ \A l \in Lists : kept[l] + omitted[l] = failed.found[l]

\* Every inspection comes to an end: the reduction of an oversized context reaches the
\* limit or runs out of things to reduce.
InspectionEnds == <>(inspection \in {"returned", "error"})
=============================================================================
