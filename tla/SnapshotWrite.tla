--------------------------- MODULE SnapshotWrite ----------------------------
(* persist_product_snapshots                                                 *)
(* (f/capabilities/collection/product_snapshot_write.py) run by several      *)
(* callers against collection.product_snapshots.  A call upserts its         *)
(* products one statement after the other in one transaction.                *)
(*                                                                           *)
(* PostgreSQL is external, at its default isolation (read committed): a      *)
(* statement reads the rows committed when it starts and its transaction's   *)
(* own; ON CONFLICT waits for the transaction that holds the row, looks at   *)
(* the newest row and locks it, whether or not it is then updated.  A cycle  *)
(* of waiting transactions is broken by failing one of them.                 *)
EXTENDS Naturals, Sequences

CONSTANTS Calls,      \* calls of persist_product_snapshots
          Keys,       \* (execution trace, source artifact, normalized product)
          Payloads,   \* canonical payloads, equal when their hashes are
          None,       \* no row, no holder
          Given       \* the batches that each call may be given

Item == [key : Keys, payload : Payloads]

ASSUME NoneAssumption == None \notin Calls /\ None \notin Payloads
ASSUME GivenAssumption == Given \in [Calls -> SUBSET Seq(Item)]

VARIABLES
  batch,    \* the products of each call, in the order of the normalization
  pc,       \* where each call is
  rows,     \* the committed payload of each key
  holder,   \* the transaction that holds the row of a key
  staged,   \* the payload the holder leaves in the row
  seen,     \* whether the row was there for the statement a call executes
  records   \* the dispositions of the statements a call has executed

tableVars == <<rows, holder, staged>>
vars == <<batch, pc, rows, holder, staged, seen, records>>

Dispositions == {"inserted", "updated", "unchanged"}

TypeOK ==
  /\ batch \in [Calls -> Seq(Item)]
  /\ pc \in [Calls -> {"new", "ready", "executing", "persisted", "failed", "raised"}]
  /\ rows \in [Keys -> Payloads \union {None}]
  /\ holder \in [Keys -> Calls \union {None}]
  /\ staged \in [Keys -> Payloads \union {None}]
  /\ seen \in [Calls -> BOOLEAN]
  /\ records \in [Calls -> Seq(Dispositions)]
  /\ \A c \in Calls : Len(records[c]) <= Len(batch[c])

Init ==
  /\ batch \in [Calls -> UNION {Given[c] : c \in Calls}]
  /\ \A c \in Calls : batch[c] \in Given[c]
  /\ pc = [c \in Calls |-> "new"]
  /\ rows = [k \in Keys |-> None]
  /\ holder = [k \in Keys |-> None]
  /\ staged = [k \in Keys |-> None]
  /\ seen = [c \in Calls |-> FALSE]
  /\ records = [c \in Calls |-> << >>]

GoTo(c, step) == pc' = [pc EXCEPT ![c] = step]

More(c) == Len(records[c]) < Len(batch[c])
Product(c) == batch[c][Len(records[c]) + 1]

\* What a call would find in the row: its own change, or what is committed.
Found(c, k) == IF holder[k] = c THEN staged[k] ELSE rows[k]

Connect(c) ==
  /\ pc[c] = "new"
  /\ GoTo(c, "ready")
  /\ UNCHANGED <<batch, seen, records, tableVars>>

\* cursor.execute: the statement starts and takes its snapshot.
Start(c) ==
  /\ pc[c] = "ready" /\ More(c)
  /\ GoTo(c, "executing")
  /\ seen' = [seen EXCEPT ![c] = Found(c, Product(c).key) # None]
  /\ UNCHANGED <<batch, records, tableVars>>

BySnapshot(c, item) ==                                             \* mutant
  IF ~seen[c] THEN "inserted"
  ELSE IF Found(c, item.key) = item.payload THEN "unchanged" ELSE "updated"
DispositionOf(c, item) ==
  CASE Found(c, item.key) = None         -> "inserted"
    [] Found(c, item.key) = item.payload -> "unchanged"
    [] OTHER                             -> "updated"

\* The statement's second SELECT reads the snapshot: of a row that was committed
\* after the statement started it returns nothing, and fetchone() gives None.
RowReturned(c, item) == DispositionOf(c, item) = "unchanged" => seen[c]

Free(c, k) == holder[k] \in {None, c}

AutocommitUpsert(c) ==                                             \* mutant
  /\ pc[c] = "executing"
  /\ Free(c, Product(c).key)
  /\ RowReturned(c, Product(c))
  /\ rows' = [rows EXCEPT ![Product(c).key] = Product(c).payload]
  /\ records' = [records EXCEPT ![c] = Append(@, DispositionOf(c, Product(c)))]
  /\ GoTo(c, "ready")
  /\ UNCHANGED <<batch, holder, staged, seen>>

\* ON CONFLICT once nobody else holds the row, then cursor.fetchone().
Upsert(c) ==
  /\ pc[c] = "executing"
  /\ Free(c, Product(c).key)
  /\ RowReturned(c, Product(c))
  /\ holder' = [holder EXCEPT ![Product(c).key] = c]
  /\ staged' = [staged EXCEPT ![Product(c).key] = Product(c).payload]
  /\ records' = [records EXCEPT ![c] = Append(@, DispositionOf(c, Product(c)))]
  /\ GoTo(c, "ready")
  /\ UNCHANGED <<batch, rows, seen>>

\* The end of a transaction gives its rows free.
Release(c) ==
  /\ holder' = [k \in Keys |-> IF holder[k] = c THEN None ELSE holder[k]]
  /\ staged' = [k \in Keys |-> IF holder[k] = c THEN None ELSE staged[k]]

\* The end of "with conn" commits.  The answer to the commit may be lost.
Commit(c) ==
  /\ pc[c] = "ready" /\ ~More(c)
  /\ rows' = [k \in Keys |-> Found(c, k)]
  /\ Release(c)
  /\ GoTo(c, "persisted") \/ GoTo(c, "failed")
  /\ UNCHANGED <<batch, seen, records>>

\* Unpacking the missing row raises; "with conn" rolls back.
NoRow(c) ==
  /\ pc[c] = "executing"
  /\ Free(c, Product(c).key)
  /\ ~RowReturned(c, Product(c))
  /\ Release(c)
  /\ GoTo(c, "raised")
  /\ UNCHANGED <<batch, rows, seen, records>>

\* Connecting, a statement or the commit fails; "with conn" rolls back.  This is
\* also how a cycle of waiting transactions ends.
Fail(c) ==
  /\ pc[c] \in {"new", "ready", "executing"}
  /\ Release(c)
  /\ GoTo(c, "failed")
  /\ UNCHANGED <<batch, rows, seen, records>>

Step(c) == Connect(c) \/ Start(c) \/ Upsert(c) \/ Commit(c) \/ NoRow(c) \/ Fail(c)

Next == \E c \in Calls : Step(c)
Spec == Init /\ [][Next]_vars

-----------------------------------------------------------------------------
\* Calls write whole batches, one after the other, or nothing.
Outcome == [c \in Calls |-> CASE pc[c] = "persisted"            -> "persisted"
                               [] pc[c] \in {"failed", "raised"} -> "failed"
                               [] OTHER                          -> "pending"]
Atomic == INSTANCE AtomicBatches WITH outcome <- Outcome
ImplementsAtomicBatches == Atomic!Spec

\* While a call may still commit, the committed rows are what its dispositions
\* were computed from: "inserted" means that there is no row to lose, "unchanged"
\* that the row is what the batch says, and "updated" that it differs (_UPSERT).
\* So the counts of the result describe the change that the commit makes, even
\* though other calls commit between the statements.
RecordsAreTrue ==
  \A c \in Calls : pc[c] \in {"ready", "executing"} =>
    \A i \in 1..Len(records[c]) : \E old \in Payloads \union {None} :
      /\ Atomic!Leaves(rows, batch[c], i - 1, batch[c][i].key, old)
      /\ records[c][i] = "inserted" <=> old = None
      /\ records[c][i] = "unchanged" <=> old = batch[c][i].payload

\* "A byte-identical replay is a true no-op reported as unchanged": a statement
\* that finds a row with its own payload reports it as unchanged.
ReplayIsUnchanged ==
  [][\A c \in Calls :
       /\ pc[c] = "executing" /\ pc'[c] \in {"ready", "raised"}
       /\ Found(c, Product(c).key) = Product(c).payload
       => records'[c] = Append(records[c], "unchanged")]_vars
=============================================================================
