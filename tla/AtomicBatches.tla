--------------------------- MODULE AtomicBatches ----------------------------
(* What persist_product_snapshots promises: a call writes its whole batch to *)
(* the table in one step or leaves the table alone, and it writes it once.   *)
EXTENDS Naturals, Sequences
CONSTANTS Calls, Keys, Payloads, None
VARIABLES batch,     \* the products each call is given, in order
          rows,      \* the committed payload of each key
          outcome    \* what each caller is told

vars == <<batch, rows, outcome>>

\* The value v that the first n items leave in the row of key k: that of the last
\* of them for the key, or what was there.
Leaves(table, items, n, k, v) ==
  \/ v = table[k] /\ \A i \in 1..n : items[i].key # k
  \/ \E i \in 1..n : /\ items[i] = [key |-> k, payload |-> v]
                    /\ \A j \in (i + 1)..n : items[j].key # k

Init ==
  /\ batch \in [Calls -> Seq([key : Keys, payload : Payloads])]
  /\ rows = [k \in Keys |-> None]
  /\ outcome = [c \in Calls |-> "pending"]

\* A call may be told that it failed although it took effect: its answer was lost.
Apply(c) ==
  /\ outcome[c] = "pending"
  /\ rows' \in [Keys -> Payloads \union {None}]
  /\ \A k \in Keys : Leaves(rows, batch[c], Len(batch[c]), k, rows'[k])
  /\ \E told \in {"persisted", "failed"} : outcome' = [outcome EXCEPT ![c] = told]
  /\ UNCHANGED batch

Reject(c) ==
  /\ outcome[c] = "pending"
  /\ outcome' = [outcome EXCEPT ![c] = "failed"]
  /\ UNCHANGED <<batch, rows>>

Next == \E c \in Calls : Apply(c) \/ Reject(c)
Spec == Init /\ [][Next]_vars
=============================================================================
