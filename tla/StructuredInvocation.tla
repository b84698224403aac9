------------------------ MODULE StructuredInvocation ------------------------
(* One call of invoke_hermes_structured                                      *)
(* (f/libraries/ai/invoke_hermes_structured.py): up to max_retries + 1       *)
(* requests to Hermes, each reply stored as an artifact, parsed and          *)
(* validated, and the accepted one stored as well.  An exception anywhere in *)
(* a round is caught by the handler around it and only ends the round.       *)
(* Answers are represented by the number of their attempt.                   *)
EXTENDS Naturals, Sequences

CONSTANT MaxRetries     \* max_retries

ASSUME RetriesAssumption == MaxRetries \in 0..10

VARIABLES
  attempt,    \* attempt_number
  stage,      \* how far the current round is
  reply,      \* what the reply of the current round is worth
  records,    \* attempts: the list of InvocationAttempt
  retained,   \* the raw_response and parsed_output artifacts written
  parsed,     \* parsed_output: the attempt it comes from, 0 for None
  success

callVars == <<attempt, stage, reply, records, retained, parsed, success>>

Attempts == 1..(MaxRetries + 1)
Statuses == {"request_failed", "validation_failed", "passed"}
Artifacts == [kind : {"raw_response", "parsed_output"}, attempt : Attempts]

CallTypeOK ==
  /\ attempt \in Attempts
  /\ stage \in {"request", "answered", "retained", "accepted", "ended"}
  /\ reply \in {"none", "valid", "invalid", "unparsable"}
  /\ records \in Seq([attempt : Attempts, status : Statuses])
  /\ retained \subseteq Artifacts
  /\ parsed \in {0} \union Attempts
  /\ success \in BOOLEAN

\* The prompt, the conversation and the input are stored by now.
CallInit ==
  /\ attempt = 1
  /\ stage = "request"
  /\ reply = "none"
  /\ records = <<>>
  /\ retained = {}
  /\ parsed = 0
  /\ success = FALSE

BudgetLeft(n) == n <= MaxRetries

\* The loop goes on with the next attempt, or ends without success.
NextRound ==
  /\ reply' = "none"
  /\ IF BudgetLeft(attempt)
     THEN attempt' = attempt + 1 /\ stage' = "request"
     ELSE UNCHANGED attempt /\ stage' = "ended"

Record(status) == records' = Append(records, [attempt |-> attempt, status |-> status])
Retain(kind) == retained' = retained \union {[kind |-> kind, attempt |-> attempt]}

\* Hermes answers.
Request ==
  /\ stage = "request"
  /\ reply' \in {"valid", "invalid", "unparsable"}
  /\ stage' = "answered"
  /\ UNCHANGED <<attempt, records, retained, parsed, success>>

\* The raw reply is stored whatever it is worth.
RetainRaw ==
  /\ stage = "answered"
  /\ Retain("raw_response")
  /\ stage' = "retained"
  /\ UNCHANGED <<attempt, reply, records, parsed, success>>

Unrecorded == records' = records                                      \* mutant
RecordInvalid == Record("validation_failed")

\* No JSON, or JSON that does not match the schema.
Refuse ==
  /\ stage = "retained"
  /\ reply \in {"invalid", "unparsable"}
  /\ RecordInvalid
  /\ NextRound
  /\ UNCHANGED <<retained, parsed, success>>

FirstAccepted == IF parsed = 0 THEN attempt ELSE parsed               \* mutant
Accepted == attempt

\* The reply is taken and recorded as passed before it is stored.
Accept ==
  /\ stage = "retained"
  /\ reply = "valid"
  /\ parsed' = Accepted
  /\ Record("passed")
  /\ stage' = "accepted"
  /\ UNCHANGED <<attempt, reply, retained, success>>

RetainParsed ==
  /\ stage = "accepted"
  /\ Retain("parsed_output")
  /\ success' = TRUE
  /\ stage' = "ended"
  /\ UNCHANGED <<attempt, reply, records, parsed>>

\* The request fails, an artifact cannot be written, or the validator gives up.
Raise ==
  /\ stage # "ended"
  /\ Record("request_failed")
  /\ NextRound
  /\ UNCHANGED <<retained, parsed, success>>

CallNext == Request \/ RetainRaw \/ Refuse \/ Accept \/ RetainParsed \/ Raise
CallSpec == CallInit /\ [][CallNext]_callVars

-----------------------------------------------------------------------------
(* Properties.                                                             *)

Ended == stage = "ended"

\* A successful result carries the reply of its last attempt, also when an earlier
\* reply was accepted and could not be stored; that reply is retained raw and parsed
\* and is the last one on record.
SuccessIsRetained ==
  Ended /\ success =>
    /\ parsed = attempt
    /\ {[kind |-> k, attempt |-> parsed] : k \in {"raw_response", "parsed_output"}} \subseteq retained
    /\ records[Len(records)] = [attempt |-> parsed, status |-> "passed"]

\* Per-attempt evidence: when the call returns, every attempt is on record, every
\* verdict on a reply has that reply's artifact, and a failure used up the budget.
EvidenceIsComplete ==
  Ended =>
    /\ {records[i].attempt : i \in 1..Len(records)} = 1..attempt
    /\ \A i \in 1..Len(records) : records[i].status # "request_failed" =>
         [kind |-> "raw_response", attempt |-> records[i].attempt] \in retained
    /\ ~success => attempt = MaxRetries + 1
=============================================================================
