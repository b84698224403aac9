----------------------- MODULE ProductCollectionProofs ----------------------
(***************************************************************************)
(* Proofs about SnapshotWrite for every set of calls, keys and payloads    *)
(* and for batches of any length, and on top of them about the product     *)
(* collection workflow for every number of sources, workers and retries.   *)
(***************************************************************************)
EXTENDS ProductCollection, TLAPS

-----------------------------------------------------------------------------
(* persist_product_snapshots.                                              *)


Open == {"new", "ready", "executing"}

\* Only an open transaction holds rows.
HoldersAreOpen == \A k \in Keys : holder[k] # None => pc[holder[k]] \in {"ready", "executing"}

\* A call holds the rows of the items it has executed, and finds in every row what
\* these items leave there.
StagedInv ==
  \A c \in Calls : pc[c] \in Open =>
    \A k \in Keys :
      /\ holder[k] = c <=> \E i \in 1..Len(records[c]) : batch[c][i].key = k
      /\ Atomic!Leaves(rows, batch[c], Len(records[c]), k, Found(c, k))

\* A statement executes an item that has not been executed.
ExecutingInv ==
  \A c \in Calls : /\ pc[c] = "executing" => More(c)
                   /\ pc[c] = "new" => Len(records[c]) = 0

Inv == TypeOK /\ HoldersAreOpen /\ StagedInv /\ ExecutingInv /\ RecordsAreTrue

-----------------------------------------------------------------------------
\* Only the row of the key matters.
LEMMA LeavesOfRow ==
  ASSUME NEW t, NEW u, NEW items, NEW n, NEW k, NEW v, t[k] = u[k],
         Atomic!Leaves(t, items, n, k, v)
  PROVE  Atomic!Leaves(u, items, n, k, v)
  BY DEF Atomic!Leaves

\* One more item for another key changes nothing.
LEMMA LeavesOther ==
  ASSUME NEW t, NEW items, NEW n \in Nat, NEW k, NEW v, items[n + 1].key # k,
         Atomic!Leaves(t, items, n, k, v)
  PROVE  Atomic!Leaves(t, items, n + 1, k, v)
<1>1. \A i : i \in 1..(n + 1) <=> i \in 1..n \/ i = n + 1
  OBVIOUS
<1>2. CASE v = t[k] /\ \A i \in 1..n : items[i].key # k
  BY <1>1, <1>2 DEF Atomic!Leaves
<1>3. ASSUME NEW i \in 1..n, items[i] = [key |-> k, payload |-> v],
             \A j \in (i + 1)..n : items[j].key # k
      PROVE  Atomic!Leaves(t, items, n + 1, k, v)
  <2>1. \A j \in (i + 1)..(n + 1) : j \in (i + 1)..n \/ j = n + 1
    OBVIOUS
  <2> QED BY <1>1, <1>3, <2>1 DEF Atomic!Leaves
<1> QED BY <1>2, <1>3 DEF Atomic!Leaves

\* One more item for the key decides its value.
LEMMA LeavesLast ==
  ASSUME NEW t, NEW items, NEW n \in Nat, NEW k, NEW v,
         items[n + 1] = [key |-> k, payload |-> v]
  PROVE  Atomic!Leaves(t, items, n + 1, k, v)
<1>1. n + 1 \in 1..(n + 1) /\ \A j \in ((n + 1) + 1)..(n + 1) : FALSE
  OBVIOUS
<1> QED BY <1>1 DEF Atomic!Leaves

\* The items up to the next one to execute are in the batch.
LEMMA ItemTyped ==
  ASSUME TypeOK, NEW c \in Calls, NEW i \in 1..Len(batch[c])
  PROVE  batch[c][i] \in Item /\ batch[c][i].key \in Keys /\ batch[c][i].payload \in Payloads
<1>1. batch[c] \in Seq(Item)
  BY DEF TypeOK
<1>2. batch[c][i] \in Item
  BY <1>1
<1> QED BY <1>2 DEF Item

LEMMA LengthsTyped ==
  ASSUME TypeOK, NEW c \in Calls
  PROVE  /\ Len(records[c]) \in Nat /\ Len(batch[c]) \in Nat
         /\ Len(records[c]) <= Len(batch[c])
<1>1. batch[c] \in Seq(Item) /\ records[c] \in Seq(Dispositions)
  BY DEF TypeOK
<1> QED BY <1>1 DEF TypeOK

-----------------------------------------------------------------------------
\* Nothing is held, executed or persisted at the start.
LEMMA InitInv == Init => Inv
<1> SUFFICES ASSUME Init PROVE Inv
  OBVIOUS
<1>1. batch \in [Calls -> Seq(Item)]
  BY GivenAssumption DEF Init
<1>2. TypeOK
  BY <1>1, NoneAssumption DEF Init, TypeOK
<1>3. HoldersAreOpen /\ ExecutingInv /\ RecordsAreTrue
  BY DEF Init, HoldersAreOpen, ExecutingInv, RecordsAreTrue
<1>4. StagedInv
  BY NoneAssumption DEF Init, StagedInv, Found, Atomic!Leaves
<1> QED BY <1>2, <1>3, <1>4 DEF Inv

\* Giving up a transaction takes nothing from the others.
LEMMA EndInv ==
  ASSUME Inv, NEW c \in Calls, pc[c] \in Open, Release(c),
         NEW final \in {"persisted", "failed", "raised"}, GoTo(c, final),
         rows' \in [Keys -> Payloads \union {None}],
         \A k \in Keys : holder[k] # c => rows'[k] = rows[k],
         UNCHANGED <<batch, seen, records>>
  PROVE  Inv'
<1> USE DEF Inv, GoTo, Open
<1>1. TypeOK'
  BY DEF TypeOK, Release
<1>2. \A k \in Keys : /\ holder'[k] = IF holder[k] = c THEN None ELSE holder[k]
                      /\ staged'[k] = IF holder[k] = c THEN None ELSE staged[k]
  BY DEF Release
<1>3. \A d \in Calls : pc'[d] \in Open => d # c /\ pc'[d] = pc[d]
  BY DEF TypeOK
<1>4. HoldersAreOpen'
  BY <1>2, NoneAssumption DEF HoldersAreOpen, TypeOK
<1>5. ExecutingInv'
  BY <1>3 DEF ExecutingInv, More
<1>6. ASSUME NEW d \in Calls, pc'[d] \in Open, NEW k \in Keys
      PROVE  /\ holder'[k] = d <=> \E i \in 1..Len(records'[d]) : batch'[d][i].key = k
             /\ Atomic!Leaves(rows', batch'[d], Len(records'[d]), k, Found(d, k)')
  <2>1. /\ holder[k] = d <=> \E i \in 1..Len(records[d]) : batch[d][i].key = k
        /\ Atomic!Leaves(rows, batch[d], Len(records[d]), k, Found(d, k))
    BY <1>3, <1>6 DEF StagedInv
  <2>2. holder'[k] = d <=> holder[k] = d
    BY <1>2, <1>3, <1>6, NoneAssumption
  <2>3. CASE holder[k] # c
    <3>1. rows'[k] = rows[k] /\ Found(d, k)' = Found(d, k)
      BY <1>2, <2>3 DEF Found
    <3> QED BY <2>1, <2>2, <3>1, LeavesOfRow
  \* The row that is given free was none of d's, so the committed row is what d finds.
  <2>4. CASE holder[k] = c
    <3>1. holder'[k] # d /\ Found(d, k)' = rows'[k]
      BY <1>2, <1>3, <1>6, <2>4, NoneAssumption DEF Found
    <3>2. \A i \in 1..Len(records[d]) : batch[d][i].key # k
      BY <1>3, <1>6, <2>1, <2>4
    <3> QED BY <2>1, <2>2, <3>1, <3>2 DEF Atomic!Leaves
  <2> QED BY <2>3, <2>4
<1>7. StagedInv'
  BY <1>6 DEF StagedInv
<1>8. ASSUME NEW d \in Calls, pc'[d] \in {"ready", "executing"}, NEW i \in 1..Len(records'[d])
      PROVE  \E old \in Payloads \union {None} :
               /\ Atomic!Leaves(rows', batch'[d], i - 1, batch'[d][i].key, old)
               /\ records'[d][i] = "inserted" <=> old = None
               /\ records'[d][i] = "unchanged" <=> old = batch'[d][i].payload
  <2>1. PICK old \in Payloads \union {None} :
               /\ Atomic!Leaves(rows, batch[d], i - 1, batch[d][i].key, old)
               /\ records[d][i] = "inserted" <=> old = None
               /\ records[d][i] = "unchanged" <=> old = batch[d][i].payload
    BY <1>3, <1>8 DEF RecordsAreTrue
  <2>2. batch[d][i].key \in Keys
    <3>1. i \in 1..Len(batch[d])
      BY <1>8, LengthsTyped
    <3> QED BY <3>1, ItemTyped
  \* d holds the row of an item that it has executed.
  <2>3. holder[batch[d][i].key] = d /\ d # c
    BY <1>3, <1>8, <2>2 DEF StagedInv
  <2>4. rows'[batch[d][i].key] = rows[batch[d][i].key]
    BY <2>2, <2>3
  <2> QED BY <2>1, <2>4, LeavesOfRow
<1>9. RecordsAreTrue'
  BY <1>8 DEF RecordsAreTrue
<1> QED BY <1>1, <1>4, <1>5, <1>7, <1>9

\* Executing an item adds it to what the call leaves in the item's row.
LEMMA UpsertInv == ASSUME Inv, NEW c \in Calls, Upsert(c) PROVE Inv'
<1> USE DEF Inv
<1> DEFINE n == Len(records[c])
           item == batch[c][n + 1]
<1>1. /\ n \in Nat /\ n < Len(batch[c]) /\ n + 1 \in 1..Len(batch[c])
      /\ Product(c) = item
      /\ pc[c] = "executing" /\ pc[c] \in Open
  BY LengthsTyped DEF Upsert, ExecutingInv, More, Product, Open
<1>2. item \in Item /\ item.key \in Keys /\ item.payload \in Payloads
  BY <1>1, ItemTyped
<1>3. /\ holder' = [holder EXCEPT ![item.key] = c]
      /\ staged' = [staged EXCEPT ![item.key] = item.payload]
      /\ records' = [records EXCEPT ![c] = Append(records[c], DispositionOf(c, item))]
      /\ pc' = [pc EXCEPT ![c] = "ready"]
      /\ UNCHANGED <<batch, rows, seen>>
      /\ holder[item.key] \in {None, c}
  BY <1>1 DEF Upsert, GoTo, Free
<1>4. DispositionOf(c, item) \in Dispositions
  BY DEF DispositionOf, Dispositions
<1>5. /\ records[c] \in Seq(Dispositions)
      /\ records'[c] = Append(records[c], DispositionOf(c, item))
      /\ \A d \in Calls : d # c => records'[d] = records[d]
  BY <1>3 DEF TypeOK
<1>6. /\ Len(records'[c]) = n + 1
      /\ \A i \in 1..n : records'[c][i] = records[c][i]
      /\ records'[c][n + 1] = DispositionOf(c, item)
  BY <1>1, <1>4, <1>5
<1>7. TypeOK'
  <2>1. records' \in [Calls -> Seq(Dispositions)]
    BY <1>3, <1>4 DEF TypeOK
  <2>2. \A d \in Calls : Len(records'[d]) <= Len(batch'[d])
    BY <1>1, <1>3, <1>5, <1>6 DEF TypeOK
  <2> QED BY <1>2, <1>3, <2>1, <2>2 DEF TypeOK
<1>8. HoldersAreOpen'
  BY <1>1, <1>2, <1>3 DEF HoldersAreOpen, TypeOK
<1>9. ExecutingInv'
  BY <1>3, <1>5 DEF ExecutingInv, More, TypeOK
<1>10. ASSUME NEW d \in Calls, pc'[d] \in Open, NEW k \in Keys
       PROVE  /\ holder'[k] = d <=> \E i \in 1..Len(records'[d]) : batch'[d][i].key = k
              /\ Atomic!Leaves(rows', batch'[d], Len(records'[d]), k, Found(d, k)')
  <2>1. /\ holder[k] = d <=> \E i \in 1..Len(records[d]) : batch[d][i].key = k
        /\ Atomic!Leaves(rows, batch[d], Len(records[d]), k, Found(d, k))
    BY <1>1, <1>3, <1>10 DEF StagedInv, TypeOK
  <2>2. /\ holder'[k] = IF k = item.key THEN c ELSE holder[k]
        /\ staged'[k] = IF k = item.key THEN item.payload ELSE staged[k]
    BY <1>2, <1>3 DEF TypeOK
  <2>3. CASE d # c
    <3>1. /\ holder'[k] = d <=> holder[k] = d
          /\ Found(d, k)' = Found(d, k)
      BY <1>3, <2>2, <2>3, NoneAssumption DEF Found
    <3> QED BY <1>3, <1>5, <2>1, <2>3, <3>1
  <2>4. CASE d = c /\ k = item.key
    <3>1. Found(d, k)' = item.payload /\ item = [key |-> k, payload |-> item.payload]
      BY <1>2, <2>2, <2>4 DEF Found, Item
    <3>2. Atomic!Leaves(rows, batch[c], n + 1, k, item.payload)
      BY <1>1, <3>1, LeavesLast
    <3> QED BY <1>1, <1>3, <1>6, <2>2, <2>4, <3>1, <3>2
  <2>5. CASE d = c /\ k # item.key
    <3>1. holder'[k] = holder[k] /\ Found(d, k)' = Found(d, k)
      BY <1>3, <2>2, <2>5 DEF Found
    <3>2. Atomic!Leaves(rows, batch[c], n + 1, k, Found(d, k))
      BY <1>1, <2>1, <2>5, LeavesOther
    <3>3. \A i \in 1..(n + 1) : batch[c][i].key = k <=> i \in 1..n /\ batch[c][i].key = k
      BY <1>1, <2>5
    <3>4. holder'[k] = c <=> \E i \in 1..(n + 1) : batch[c][i].key = k
      BY <1>1, <2>1, <2>5, <3>1, <3>3
    <3> QED BY <1>3, <1>6, <2>5, <3>1, <3>2, <3>4
  <2> QED BY <2>3, <2>4, <2>5
<1>11. StagedInv'
  BY <1>10 DEF StagedInv
<1>12. ASSUME NEW d \in Calls, pc'[d] \in {"ready", "executing"}, NEW i \in 1..Len(records'[d])
       PROVE  \E old \in Payloads \union {None} :
                /\ Atomic!Leaves(rows', batch'[d], i - 1, batch'[d][i].key, old)
                /\ records'[d][i] = "inserted" <=> old = None
                /\ records'[d][i] = "unchanged" <=> old = batch'[d][i].payload
  <2>1. CASE d # c
    BY <1>3, <1>5, <1>12, <2>1 DEF RecordsAreTrue, TypeOK
  <2>2. CASE d = c /\ i \in 1..n
    <3>1. PICK old \in Payloads \union {None} :
            /\ Atomic!Leaves(rows, batch[c], i - 1, batch[c][i].key, old)
            /\ records[c][i] = "inserted" <=> old = None
            /\ records[c][i] = "unchanged" <=> old = batch[c][i].payload
      BY <1>1, <2>2 DEF RecordsAreTrue
    <3>2. records'[d][i] = records[c][i] /\ batch' = batch /\ rows' = rows
      BY <1>3, <1>6, <2>2
    <3> QED BY <2>2, <3>1, <3>2
  \* The new record is about what the call finds in the row.
  <2>3. CASE d = c /\ i = n + 1
    <3>1. Found(c, item.key) \in Payloads \union {None}
      BY <1>2 DEF Found, TypeOK
    <3>2. Atomic!Leaves(rows, batch[c], n, item.key, Found(c, item.key))
      BY <1>1, <1>2 DEF StagedInv
    <3>3. /\ DispositionOf(c, item) = "inserted" <=> Found(c, item.key) = None
          /\ DispositionOf(c, item) = "unchanged" <=> Found(c, item.key) = item.payload
      BY <1>2, NoneAssumption DEF DispositionOf
    <3> QED BY <1>1, <1>3, <1>6, <2>3, <3>1, <3>2, <3>3
  <2> QED BY <1>1, <1>6, <1>12, <2>1, <2>2, <2>3
<1>13. RecordsAreTrue'
  BY <1>12 DEF RecordsAreTrue
<1> QED BY <1>7, <1>8, <1>9, <1>11, <1>13

-----------------------------------------------------------------------------
\* Every step keeps the invariant.
LEMMA StepInv == Inv /\ [Next]_vars => Inv'
<1> SUFFICES ASSUME Inv, [Next]_vars PROVE Inv'
  OBVIOUS
<1> USE DEF Inv
<1>1. CASE UNCHANGED vars
  <2>1. TypeOK' /\ HoldersAreOpen' /\ ExecutingInv'
    BY <1>1 DEF vars, TypeOK, HoldersAreOpen, ExecutingInv, More
  <2>2. StagedInv' /\ RecordsAreTrue'
    BY <1>1 DEF vars, StagedInv, RecordsAreTrue, Found
  <2> QED BY <2>1, <2>2
<1>2. ASSUME NEW c \in Calls, Connect(c) \/ Start(c) PROVE Inv'
  <2>1. /\ UNCHANGED <<batch, records, tableVars>>
        /\ \A d \in Calls : pc'[d] \in Open <=> pc[d] \in Open
        /\ \A d \in Calls : pc'[d] \in {"ready", "executing"}
             => pc[d] \in {"ready", "executing"} \/ pc[d] = "new"
        /\ \A d \in Calls : pc[d] \in {"ready", "executing"} => pc'[d] \in {"ready", "executing"}
    <3>1. CASE Connect(c)
      <4>1. /\ UNCHANGED <<batch, records, tableVars>>
            /\ pc[c] = "new" /\ \A d \in Calls : pc'[d] = IF d = c THEN "ready" ELSE pc[d]
        BY <3>1 DEF Connect, GoTo, TypeOK
      <4> QED BY <4>1 DEF Open
    <3>2. CASE Start(c)
      <4>1. /\ UNCHANGED <<batch, records, tableVars>>
            /\ pc[c] = "ready" /\ \A d \in Calls : pc'[d] = IF d = c THEN "executing" ELSE pc[d]
        BY <3>2 DEF Start, GoTo, TypeOK
      <4> QED BY <4>1 DEF Open
    <3> QED BY <1>2, <3>1, <3>2
  <2>2. TypeOK'
    BY <1>2 DEF Connect, Start, GoTo, TypeOK, tableVars
  <2>3. HoldersAreOpen'
    BY <2>1 DEF HoldersAreOpen, tableVars, TypeOK
  <2>4. ExecutingInv'
    BY <1>2 DEF ExecutingInv, Connect, Start, GoTo, More, TypeOK
  <2>5. StagedInv'
    BY <2>1 DEF StagedInv, Found, tableVars
  <2>6. ASSUME NEW d \in Calls, pc'[d] \in {"ready", "executing"}, NEW i \in 1..Len(records'[d])
        PROVE  \E old \in Payloads \union {None} :
                 /\ Atomic!Leaves(rows', batch'[d], i - 1, batch'[d][i].key, old)
                 /\ records'[d][i] = "inserted" <=> old = None
                 /\ records'[d][i] = "unchanged" <=> old = batch'[d][i].payload
    <3>1. CASE pc[d] \in {"ready", "executing"}
      BY <2>1, <2>6, <3>1 DEF RecordsAreTrue, tableVars
    <3>2. CASE pc[d] = "new"
      BY <2>1, <2>6, <3>2 DEF ExecutingInv
    <3> QED BY <2>1, <2>6, <3>1, <3>2
  <2>7. RecordsAreTrue'
    BY <2>6 DEF RecordsAreTrue
  <2> QED BY <2>2, <2>3, <2>4, <2>5, <2>7
<1>3. ASSUME NEW c \in Calls, Upsert(c) PROVE Inv'
  BY <1>3, UpsertInv
<1>4. ASSUME NEW c \in Calls, Commit(c) PROVE Inv'
  <2>1. rows' \in [Keys -> Payloads \union {None}]
    BY <1>4 DEF Commit, Found, TypeOK
  <2>2. \A k \in Keys : holder[k] # c => rows'[k] = rows[k]
    BY <1>4 DEF Commit, Found
  <2>3. PICK final \in {"persisted", "failed"} : GoTo(c, final)
    BY <1>4 DEF Commit
  <2>4. pc[c] \in Open /\ Release(c) /\ UNCHANGED <<batch, seen, records>>
    BY <1>4 DEF Commit, Open
  <2> QED BY <2>1, <2>2, <2>3, <2>4, EndInv
<1>5. ASSUME NEW c \in Calls, NoRow(c) \/ Fail(c) PROVE Inv'
  <2>1. PICK final \in {"raised", "failed"} : GoTo(c, final)
    BY <1>5 DEF NoRow, Fail
  <2>2. pc[c] \in Open /\ Release(c) /\ UNCHANGED <<batch, rows, seen, records>>
    BY <1>5 DEF NoRow, Fail, Open
  <2>3. rows' \in [Keys -> Payloads \union {None}]
    BY <2>2 DEF TypeOK
  <2> QED BY <2>1, <2>2, <2>3, EndInv
<1> QED BY <1>1, <1>2, <1>3, <1>4, <1>5 DEF Next, Step

\* The invariant holds in every reachable state.
LEMMA Invariance == Spec => []Inv
  BY InitInv, StepInv, PTL DEF Spec

\* Every variable of SnapshotWrite keeps its type; a call never executes more
\* statements than its batch has items.
THEOREM TypeCorrect == Spec => []TypeOK
  BY Invariance, PTL DEF Inv

\* For every number of overlapping calls, the dispositions of an open transaction
\* describe the change that its commit makes (RecordsAreTrue).
THEOREM DispositionsAreTrue == Spec => []RecordsAreTrue
  BY Invariance, PTL DEF Inv

-----------------------------------------------------------------------------
\* A commit writes the whole batch, every other end of a call nothing.
LEMMA StepRefines == Inv /\ [Next]_vars => [Atomic!Next]_(Atomic!vars)
<1> SUFFICES ASSUME Inv, [Next]_vars PROVE [Atomic!Next]_(Atomic!vars)
  OBVIOUS
<1> USE DEF Inv
<1>1. CASE UNCHANGED vars
  BY <1>1 DEF vars, Atomic!vars, Outcome
<1>2. ASSUME NEW c \in Calls, Connect(c) \/ Start(c) \/ Upsert(c) PROVE UNCHANGED Atomic!vars
  BY <1>2 DEF Connect, Start, Upsert, GoTo, TypeOK, tableVars, Atomic!vars, Outcome
<1>3. ASSUME NEW c \in Calls, Commit(c) PROVE Atomic!Apply(c)
  <2>1. Outcome[c] = "pending" /\ UNCHANGED batch
    BY <1>3 DEF Commit, Outcome
  <2>2. rows' \in [Keys -> Payloads \union {None}]
    BY <1>3 DEF Commit, Found, TypeOK
  <2>3. Len(records[c]) = Len(batch[c])
    BY <1>3, LengthsTyped DEF Commit, More
  <2>4. \A k \in Keys : Atomic!Leaves(rows, batch[c], Len(batch[c]), k, rows'[k])
    BY <1>3, <2>3 DEF Commit, StagedInv, Open
  <2>5. \E told \in {"persisted", "failed"} : Outcome' = [Outcome EXCEPT ![c] = told]
    BY <1>3 DEF Commit, GoTo, TypeOK, Outcome
  <2> QED BY <2>1, <2>2, <2>4, <2>5 DEF Atomic!Apply
<1>4. ASSUME NEW c \in Calls, NoRow(c) \/ Fail(c) PROVE Atomic!Reject(c)
  BY <1>4 DEF NoRow, Fail, GoTo, TypeOK, Outcome, Atomic!Reject
<1> QED BY <1>1, <1>2, <1>3, <1>4 DEF Next, Step, Atomic!Next

\* SnapshotWrite starts where AtomicBatches starts.
LEMMA InitRefines == Init => Atomic!Init
<1> SUFFICES ASSUME Init PROVE Atomic!Init
  OBVIOUS
<1>1. batch \in [Calls -> Seq([key : Keys, payload : Payloads])]
  BY GivenAssumption DEF Init, Item
<1> QED BY <1>1 DEF Init, Outcome, Atomic!Init

\* Transactions of upserts implement the atomic writing of whole batches.
THEOREM Refinement == Spec => ImplementsAtomicBatches
  BY InitRefines, StepRefines, Invariance, PTL DEF Spec, ImplementsAtomicBatches, Atomic!Spec

-----------------------------------------------------------------------------
(* The workflow.                                                           *)

\* The workflow and the replays after it call persist_product_snapshots and do nothing
\* else to the table.
LEMMA CollectionStepsCall ==
  ASSUME [CollectionNext]_collectionVars
  PROVE  [Next]_vars
<1>1. CASE UNCHANGED collectionVars
  BY <1>1 DEF collectionVars
<1>2. CASE WorkflowStep
  BY <1>2 DEF WorkflowStep, Compare, StoreDataset, StoreReport, ReportFails
<1>3. ASSUME NEW s \in Sources, SourceStep(s) PROVE [Next]_vars
  <2>1. s \in Calls
    BY CallsAssumption
  <2> QED
    BY <1>3, <2>1 DEF SourceStep, TakeUp, RetryFetch, KeepResponse, FetchFails, Extract,
                      StoreNormalised, Persist, Next
<1>4. ASSUME NEW c \in Replays, Replay(c) PROVE [Next]_vars
  BY <1>4 DEF Replay, Next, Replays
<1> QED
  BY <1>1, <1>2, <1>3, <1>4 DEF CollectionNext

\* So whatever is proved of SnapshotWrite holds in the workflow: RecordsAreTrue, and
\* that the batches of its sources and of the replays are written atomically.
THEOREM CollectionRuns == CollectionSpec => Spec
<1>1. CollectionInit => Init
  BY DEF CollectionInit
<1> QED
  BY <1>1, CollectionStepsCall, PTL DEF CollectionSpec, Spec

\* A call that commits leaves a row for every item of its batch and every row that was
\* there; the rows that it adds are of its batch.
LEMMA CommitLeavesRows ==
  ASSUME Inv, NEW c \in Calls, Commit(c), NEW k \in Keys
  PROVE  /\ rows[k] # None => rows'[k] # None
         /\ (\E i \in 1..Len(batch[c]) : batch[c][i].key = k) => rows'[k] # None
         /\ rows'[k] # None => rows[k] # None \/ \E i \in 1..Len(batch[c]) : batch[c][i].key = k
<1>1. Len(records[c]) = Len(batch[c])
  BY LengthsTyped DEF Commit, More, Inv
<1>2. /\ rows'[k] = Found(c, k)
      /\ pc[c] \in Open
  BY DEF Commit, Open
<1>3. Atomic!Leaves(rows, batch[c], Len(batch[c]), k, rows'[k])
  BY <1>1, <1>2 DEF Inv, StagedInv
<1>4. ASSUME NEW i \in 1..Len(batch[c]), batch[c][i] = [key |-> k, payload |-> rows'[k]]
      PROVE  rows'[k] # None
  BY <1>4, ItemTyped, NoneAssumption DEF Inv
<1> QED
  BY <1>3, <1>4 DEF Atomic!Leaves

\* Every other step leaves the rows alone.
LEMMA OnlyCommitsWrite ==
  ASSUME NEW c, Step(c), rows' # rows
  PROVE  Commit(c)
  BY DEF Step, Connect, Start, Upsert, NoRow, Fail, tableVars

LEMMA StepMoves ==
  ASSUME TypeOK, NEW c \in Calls, Step(c)
  PROVE  /\ pc[c] \in Open /\ batch' = batch
         /\ \A d \in Calls : d # c => pc'[d] = pc[d]
         /\ pc'[c] \in {"ready", "executing", "persisted", "failed", "raised"}
         /\ pc'[c] = "persisted" => Commit(c)
         /\ Commit(c) => pc'[c] \in {"persisted", "failed"}
<1>1. CASE Connect(c)
  BY <1>1 DEF Connect, GoTo, TypeOK, Open, Commit
<1>2. CASE Start(c)
  BY <1>2 DEF Start, GoTo, TypeOK, Open, Commit
<1>3. CASE Upsert(c)
  BY <1>3 DEF Upsert, GoTo, TypeOK, Open, Commit
<1>4. CASE Commit(c)
  BY <1>4 DEF GoTo, TypeOK, Open, Commit
<1>5. CASE NoRow(c)
  BY <1>5 DEF NoRow, GoTo, TypeOK, Open, Commit
<1>6. CASE Fail(c)
  BY <1>6 DEF Fail, GoTo, TypeOK, Open, Commit
<1> QED
  BY <1>1, <1>2, <1>3, <1>4, <1>5, <1>6 DEF Step

-----------------------------------------------------------------------------
(* The inductive invariant of the workflow.                                *)

\* What the stage of a source says of its call.
StagesInv ==
  \A s \in Sources :
    /\ stage[s] \in {"queued", "fetching", "fetched", "extracted"} => pc[s] = "new"
    /\ stage[s] = "normalised" => pc[s] \in Open /\ Normalised(s) \in lineage
    /\ stage[s] = "success" => /\ \A i \in 1..Len(batch[s]) : rows[batch[s][i].key] # None
                               /\ batch[s] # << >>
    /\ stage[s] = "empty" => batch[s] = << >>
    /\ stage[s] = "failed" => pc[s] \in {"new", "failed", "raised"}

\* A page holds products of its source.
PagesInv == \A s \in Sources : \A i \in 1..Len(batch[s]) : batch[s][i].key[1] = s

\* Nothing is replayed before there is a result, so that until then a row was committed
\* by the call of its source.
ReplaysInv ==
  ~Done =>
    /\ \A c \in Replays : pc[c] = "new"
    /\ \A k \in Keys : rows[k] # None =>
         /\ pc[k[1]] \in {"persisted", "failed"}
         /\ \E i \in 1..Len(batch[k[1]]) : batch[k[1]][i].key = k

\* The comparison is made when all sources have ended, and what it covers stays.
ComparedInv ==
  /\ status \notin {"collecting", "failure"} =>
       /\ \A s \in Sources : stage[s] = "success" => s \in covered
       /\ covered # Sources => warned
  /\ status # "collecting" => AllEnded
  /\ \A s \in covered : stage[s] # "success" => stage[s] = "failed" /\ pc[s] = "failed"
  /\ status = "collecting" => covered = {}
  /\ Dataset \in lineage => status \notin {"collecting", "compared"}
  /\ status \in {"success", "partial"} =>
       /\ Report \in lineage
       /\ \E s \in Sources : stage[s] # "failed"
  /\ status = "success" => covered = Sources /\ \A s \in Sources : stage[s] # "failed"

CollectionInv ==
  /\ Inv /\ CollectionTypeOK
  /\ StagesInv /\ PagesInv /\ ReplaysInv /\ ComparedInv
  /\ LineageIsComplete

LEMMA CollectionInitially == CollectionInit => CollectionInv
<1> SUFFICES ASSUME CollectionInit PROVE CollectionInv
  OBVIOUS
<1>1. Inv
  BY InitInv DEF CollectionInit
<1>2. CollectionTypeOK
  <2>1. 1 \in 1..(MaxRetries + 1)
    BY RetriesAssumption
  <2> QED
    BY <1>1, <2>1 DEF CollectionInit, CollectionTypeOK, Inv
<1>3. \A s \in Sources : s \in Calls
  BY CallsAssumption
<1>4. /\ \A c \in Calls : pc[c] = "new" /\ batch[c] \in Given[c]
      /\ \A k \in Keys : rows[k] = None
      /\ \A s \in Sources : stage[s] = "queued"
      /\ lineage = {} /\ covered = {} /\ status = "collecting"
  BY DEF CollectionInit, Init
<1>5. StagesInv
  BY <1>3, <1>4 DEF StagesInv
<1>6. PagesInv
  BY <1>3, <1>4, PagesAssumption DEF PagesInv
<1>7. ReplaysInv
  BY <1>4 DEF ReplaysInv, Replays
<1>8. ComparedInv /\ LineageIsComplete
  BY <1>4 DEF ComparedInv, LineageIsComplete
<1> QED
  BY <1>1, <1>2, <1>5, <1>6, <1>7, <1>8 DEF CollectionInv

-----------------------------------------------------------------------------
(* The lineage.                                                            *)

LEMMA InputsOfArtifacts ==
  /\ \A s : Inputs(Raw(s)) = {}
  /\ \A s : Inputs(Normalised(s)) = {Raw(s)}
  /\ Inputs(Dataset) = {Raw(s) : s \in covered}
  /\ Inputs(Report) = {Dataset}
  BY DEF Inputs, Raw, Normalised, Dataset, Report

\* The inputs of an artifact change only with what the comparison covers.
LEMMA InputsKept ==
  ASSUME NEW a \in Artifacts, covered' = covered \/ a # Dataset
  PROVE  Inputs(a)' = Inputs(a)
<1>1. CASE a \in {Raw(s) : s \in Sources} \/ a \in {Normalised(s) : s \in Sources} \/ a = Report
  BY <1>1 DEF Inputs, Raw, Normalised, Report
<1>2. CASE a = Dataset
  BY <1>2, InputsOfArtifacts DEF Dataset, Inputs
<1> QED
  BY <1>1, <1>2 DEF Artifacts

\* Registering an artifact whose inputs are registered keeps the lineage complete.
LEMMA RegisteringKeepsLineage ==
  ASSUME CollectionInv, NEW a \in Artifacts, WriteArtifact(a),
         rows' = rows, covered' = covered
  PROVE  LineageIsComplete'
<1>1. lineage \subseteq Artifacts /\ lineage' = lineage \union {a} /\ Inputs(a) \subseteq lineage
  BY DEF CollectionInv, CollectionTypeOK, WriteArtifact
<1>2. \A b \in lineage' : Inputs(b)' = Inputs(b)
  BY <1>1, InputsKept
<1>3. \A b \in lineage' : Inputs(b)' \subseteq lineage'
  BY <1>1, <1>2 DEF CollectionInv, LineageIsComplete
<1> QED
  BY <1>1, <1>3 DEF CollectionInv, LineageIsComplete, Raw, Normalised

\* Rows of registered normalizations keep it complete.
LEMMA CommittingKeepsLineage ==
  ASSUME CollectionInv, UNCHANGED <<lineage, covered>>,
         \A k \in Keys : rows'[k] # None => rows[k] # None \/ Normalised(k[1]) \in lineage
  PROVE  LineageIsComplete'
<1>1. \A b \in lineage : Inputs(b)' = Inputs(b)
  BY InputsKept DEF CollectionInv, CollectionTypeOK
<1>2. ASSUME NEW k \in Keys, Normalised(k[1]) \in lineage PROVE Raw(k[1]) \in lineage
  BY <1>2, InputsOfArtifacts DEF CollectionInv, LineageIsComplete
<1>3. \A k \in Keys : rows'[k] # None => {Raw(k[1]), Normalised(k[1])} \subseteq lineage
  BY <1>2 DEF CollectionInv, LineageIsComplete
<1> QED
  BY <1>1, <1>3 DEF CollectionInv, LineageIsComplete, Raw, Normalised

-----------------------------------------------------------------------------
(* Every step keeps the invariant.                                         *)

\* A source goes on or fails before its normalization is stored.
LEMMA SourceKeepsInv ==
  ASSUME CollectionInv, NEW s \in Sources,
         \/ TakeUp(s) \/ RetryFetch(s) \/ KeepResponse(s) \/ FetchFails(s)
         \/ Extract(s) \/ StoreNormalised(s)
  PROVE  /\ CollectionTypeOK' /\ StagesInv' /\ ReplaysInv' /\ ComparedInv'
         /\ LineageIsComplete'
<1> USE DEF CollectionInv
<1>1. /\ UNCHANGED <<vars, covered, warned, status>>
      /\ lineage' = lineage \/ \E a \in {Raw(s), Normalised(s)} : WriteArtifact(a)
  BY DEF TakeUp, RetryFetch, KeepResponse, FetchFails, Extract, StoreNormalised, resultVars
<1>2. /\ stage[s] \in {"queued", "fetching", "fetched", "extracted"}
      /\ \E next \in {"fetching", "fetched", "extracted", "normalised", "failed"} :
           /\ stage' = [stage EXCEPT ![s] = next]
           /\ next = "normalised" => Normalised(s) \in lineage'
  <2>1. CASE TakeUp(s)
    BY <2>1 DEF TakeUp, Reach
  <2>2. CASE RetryFetch(s)
    BY <2>2 DEF RetryFetch, CollectionTypeOK
  <2>3. CASE KeepResponse(s)
    BY <2>3 DEF KeepResponse, Reach
  <2>4. CASE FetchFails(s)
    BY <2>4 DEF FetchFails, Reach
  <2>5. CASE Extract(s)
    BY <2>5 DEF Extract, Reach
  <2>6. CASE StoreNormalised(s)
    BY <2>6 DEF StoreNormalised, Reach, WriteArtifact
  <2> QED
    BY <2>1, <2>2, <2>3, <2>4, <2>5, <2>6
<1>3. attempt' \in [Sources -> 1..(MaxRetries + 1)]
  <2>1. attempt \in [Sources -> 1..(MaxRetries + 1)] /\ attempt[s] \in 1..(MaxRetries + 1)
        /\ 1 \in 1..(MaxRetries + 1)
    BY RetriesAssumption DEF CollectionTypeOK
  <2>2. CASE attempt' = [attempt EXCEPT ![s] = attempt[s] + 1] /\ attempt[s] <= MaxRetries
    BY <2>1, <2>2, RetriesAssumption
  <2>3. CASE attempt' = attempt \/ attempt' = [attempt EXCEPT ![s] = 1]
    BY <2>1, <2>3
  <2> QED
    BY <2>2, <2>3 DEF TakeUp, RetryFetch, MayRetry, KeepResponse, FetchFails, Extract,
                      StoreNormalised
<1>4. {Raw(s), Normalised(s)} \subseteq Artifacts
  BY DEF Artifacts
<1>5. lineage \subseteq lineage' /\ lineage' \subseteq lineage \union {Raw(s), Normalised(s)}
  BY <1>1 DEF WriteArtifact
<1>6. CollectionTypeOK'
  <2>1. stage' \in [Sources -> {"queued"} \union Active \union Ended]
    BY <1>2 DEF CollectionTypeOK, Active, Ended
  <2>2. TypeOK'
    BY <1>1 DEF CollectionTypeOK, TypeOK, vars
  <2> QED
    BY <1>1, <1>3, <1>4, <1>5, <2>1, <2>2 DEF CollectionTypeOK
<1>7. PICK next \in {"fetching", "fetched", "extracted", "normalised", "failed"} :
           /\ \A t \in Sources : stage'[t] = IF t = s THEN next ELSE stage[t]
           /\ next = "normalised" => Normalised(s) \in lineage'
  BY <1>2 DEF CollectionTypeOK
<1>8. pc[s] = "new" /\ pc' = pc /\ batch' = batch /\ rows' = rows
  BY <1>1, <1>2 DEF StagesInv, vars
<1>9. StagesInv'
  BY <1>5, <1>7, <1>8 DEF StagesInv, Open, Normalised
<1>10. ReplaysInv'
  BY <1>1, <1>8 DEF ReplaysInv, Done
<1>11. ~AllEnded /\ status = "collecting"
  BY <1>2 DEF AllEnded, Ended, ComparedInv
<1>12. Dataset \notin lineage'
  BY <1>5, <1>11 DEF ComparedInv, Dataset, Raw, Normalised
<1>13. ComparedInv'
  BY <1>1, <1>11, <1>12 DEF ComparedInv
<1>14. LineageIsComplete'
  <2>1. CASE lineage' = lineage
    BY <1>1, <1>8, <2>1, CommittingKeepsLineage
  <2>2. ASSUME NEW a \in {Raw(s), Normalised(s)}, WriteArtifact(a) PROVE LineageIsComplete'
    BY <1>1, <1>4, <1>8, <2>2, RegisteringKeepsLineage
  <2> QED
    BY <1>1, <2>1, <2>2
<1> QED
  BY <1>6, <1>9, <1>10, <1>13, <1>14

\* A step of persist_product_snapshots for a source.
LEMMA PersistKeepsInv ==
  ASSUME CollectionInv, Inv', NEW s \in Sources, Persist(s)
  PROVE  /\ CollectionTypeOK' /\ StagesInv' /\ ReplaysInv' /\ ComparedInv'
         /\ LineageIsComplete'
<1> USE DEF CollectionInv
<1>1. /\ Step(s) /\ stage[s] = "normalised" /\ s \in Calls
      /\ stage' = [stage EXCEPT ![s] = Result(s, pc'[s])]
      /\ UNCHANGED <<attempt, lineage, covered, warned, status>>
  BY CallsAssumption DEF Persist, Reach, resultVars
<1>2. /\ batch' = batch
      /\ \A d \in Calls : d # s => pc'[d] = pc[d]
      /\ pc'[s] \in {"ready", "executing", "persisted", "failed", "raised"}
      /\ pc'[s] = "persisted" => Commit(s)
      /\ Commit(s) => pc'[s] \in {"persisted", "failed"}
  BY <1>1, StepMoves DEF CollectionTypeOK
<1>3. /\ Result(s, pc'[s]) \in {"normalised", "success", "empty", "failed"}
      /\ Result(s, pc'[s]) = "normalised" => pc'[s] \in Open
      /\ Result(s, pc'[s]) = "failed" => pc'[s] \in {"failed", "raised"}
      /\ Result(s, pc'[s]) \in {"success", "empty"} => pc'[s] = "persisted"
      /\ Result(s, pc'[s]) = "success" => batch[s] # << >>
      /\ Result(s, pc'[s]) = "empty" => batch[s] = << >>
  BY <1>2 DEF Result, Open
<1>4. \A t \in Sources : stage'[t] = IF t = s THEN Result(s, pc'[s]) ELSE stage[t]
  BY <1>1 DEF CollectionTypeOK
<1>5. \A t \in Sources : t \in Calls
  BY CallsAssumption
<1>6. \A k \in Keys : /\ rows[k] # None => rows'[k] # None
                      /\ rows'[k] # None => \/ rows[k] # None
                                            \/ /\ Commit(s)
                                               /\ \E i \in 1..Len(batch[s]) : batch[s][i].key = k
  BY <1>1, CommitLeavesRows, OnlyCommitsWrite
<1>7. \A t \in Sources : \A i \in 1..Len(batch[t]) : batch[t][i].key \in Keys
  BY <1>5, ItemTyped DEF CollectionTypeOK
<1>8. CollectionTypeOK'
  <2>1. stage' \in [Sources -> {"queued"} \union Active \union Ended]
    BY <1>1, <1>3 DEF CollectionTypeOK, Active, Ended
  <2> QED
    BY <1>1, <2>1 DEF CollectionTypeOK, Inv
<1>9. StagesInv'
  <2>1. ASSUME NEW t \in Sources, t # s
        PROVE  /\ stage'[t] \in {"queued", "fetching", "fetched", "extracted"} => pc'[t] = "new"
               /\ stage'[t] = "normalised" => pc'[t] \in Open /\ Normalised(t) \in lineage'
               /\ stage'[t] = "success" => /\ \A i \in 1..Len(batch'[t]) : rows'[batch'[t][i].key] # None
                                           /\ batch'[t] # << >>
               /\ stage'[t] = "empty" => batch'[t] = << >>
               /\ stage'[t] = "failed" => pc'[t] \in {"new", "failed", "raised"}
    BY <1>1, <1>2, <1>4, <1>5, <1>6, <1>7, <2>1 DEF StagesInv
  <2>2. stage'[s] = "success" => \A i \in 1..Len(batch[s]) : rows'[batch[s][i].key] # None
    BY <1>1, <1>2, <1>3, <1>4, <1>7, CommitLeavesRows
  <2>3. Normalised(s) \in lineage'
    BY <1>1 DEF StagesInv
  <2> QED
    BY <1>2, <1>3, <1>4, <2>1, <2>2, <2>3 DEF StagesInv, Normalised
<1>10. ReplaysInv'
  <2>1. SUFFICES ASSUME ~Done
                 PROVE  /\ \A c \in Replays : pc'[c] = "new"
                        /\ \A k \in Keys : rows'[k] # None =>
                             /\ pc'[k[1]] \in {"persisted", "failed"}
                             /\ \E i \in 1..Len(batch'[k[1]]) : batch'[k[1]][i].key = k
    BY <1>1 DEF ReplaysInv, Done
  <2>2. \A c \in Replays : pc'[c] = "new"
    BY <1>2, <2>1 DEF ReplaysInv, Replays
  <2>3. ASSUME NEW k \in Keys, rows'[k] # None
        PROVE  /\ pc'[k[1]] \in {"persisted", "failed"}
               /\ \E i \in 1..Len(batch'[k[1]]) : batch'[k[1]][i].key = k
    <3>1. CASE rows[k] # None
      <4>1. k[1] \in Calls /\ pc[k[1]] \in {"persisted", "failed"}
        BY <2>1, <3>1, CallsAssumption DEF ReplaysInv
      <4>2. k[1] # s
        BY <1>1, <4>1 DEF StagesInv, Open
      <4> QED
        BY <1>2, <2>1, <3>1, <4>1, <4>2 DEF ReplaysInv
    <3>2. CASE rows[k] = None
      BY <1>2, <1>6, <2>3, <3>2 DEF PagesInv
    <3> QED
      BY <3>1, <3>2
  <2> QED
    BY <2>2, <2>3
<1>11. ComparedInv'
  <2>1. ~AllEnded /\ status = "collecting"
    BY <1>1 DEF AllEnded, Ended, ComparedInv
  <2> QED
    BY <1>1, <2>1 DEF ComparedInv, Dataset
<1>12. LineageIsComplete'
  <2>1. Normalised(s) \in lineage
    BY <1>1 DEF StagesInv
  <2>2. \A k \in Keys : rows'[k] # None => rows[k] # None \/ Normalised(k[1]) \in lineage
    BY <1>6, <2>1 DEF PagesInv
  <2> QED
    BY <1>1, <2>2, CommittingKeepsLineage
<1> QED
  BY <1>8, <1>9, <1>10, <1>11, <1>12

\* A replay of a source's retained normalization.
LEMMA ReplayKeepsInv ==
  ASSUME CollectionInv, Inv', NEW c \in Replays, Replay(c)
  PROVE  /\ CollectionTypeOK' /\ StagesInv' /\ ReplaysInv' /\ ComparedInv'
         /\ LineageIsComplete'
<1> USE DEF CollectionInv
<1>1. /\ Step(c) /\ c \in Calls /\ c \notin Sources /\ Done
      /\ \A i \in 1..Len(batch[c]) : Normalised(batch[c][i].key[1]) \in lineage
      /\ UNCHANGED <<stage, attempt, lineage, covered, warned, status>>
  BY DEF Replay, Replays, sourceVars, resultVars
<1>2. batch' = batch /\ \A d \in Calls : d # c => pc'[d] = pc[d]
  BY <1>1, StepMoves DEF CollectionTypeOK
<1>3. \A k \in Keys : /\ rows[k] # None => rows'[k] # None
                      /\ rows'[k] # None =>
                           rows[k] # None \/ \E i \in 1..Len(batch[c]) : batch[c][i].key = k
  BY <1>1, CommitLeavesRows, OnlyCommitsWrite
<1>4. \A s \in Sources : /\ s \in Calls /\ pc'[s] = pc[s]
                         /\ \A i \in 1..Len(batch[s]) : batch[s][i].key \in Keys
  BY <1>1, <1>2, CallsAssumption, ItemTyped DEF CollectionTypeOK
<1>5. CollectionTypeOK'
  BY <1>1 DEF CollectionTypeOK, Inv
<1>6. StagesInv'
  BY <1>1, <1>2, <1>3, <1>4 DEF StagesInv, Normalised
<1>7. ReplaysInv'
  BY <1>1 DEF ReplaysInv, Done
<1>8. ComparedInv'
  <2>1. covered \subseteq Sources /\ AllEnded' = AllEnded
    BY <1>1 DEF CollectionTypeOK, AllEnded
  <2> QED
    BY <1>1, <1>4, <2>1 DEF ComparedInv, Dataset, Report
<1>9. LineageIsComplete'
  BY <1>1, <1>3, CommittingKeepsLineage
<1> QED
  BY <1>5, <1>6, <1>7, <1>8, <1>9

\* The comparison, the dataset, the report.
LEMMA WorkflowKeepsInv ==
  ASSUME CollectionInv, WorkflowStep
  PROVE  /\ CollectionTypeOK' /\ StagesInv' /\ ReplaysInv' /\ ComparedInv'
         /\ LineageIsComplete'
<1> USE DEF CollectionInv
<1>1. /\ UNCHANGED <<vars, stage, attempt>>
      /\ status \in {"collecting", "compared", "reporting"}
      /\ AllEnded
  BY DEF WorkflowStep, Compare, StoreDataset, StoreReport, ReportFails, sourceVars, ComparedInv
<1>2. {Dataset, Report} \subseteq Artifacts
  BY DEF Artifacts
<1>3. lineage \subseteq lineage' /\ lineage' \subseteq lineage \union {Dataset, Report}
  BY DEF WorkflowStep, Compare, StoreDataset, StoreReport, ReportFails, WriteArtifact
<1>4. /\ UNCHANGED <<pc, batch, rows>> /\ TypeOK'
  BY <1>1 DEF vars, CollectionTypeOK, TypeOK
<1>5. CollectionTypeOK'
  <2>1. covered' \subseteq Sources /\ warned' \in BOOLEAN
        /\ status' \in {"compared", "reporting", "success", "partial", "failure"}
    BY DEF WorkflowStep, Compare, StoreDataset, StoreReport, ReportFails, CollectionTypeOK,
           StatusFor
  <2> QED
    BY <1>1, <1>2, <1>3, <1>4, <2>1 DEF CollectionTypeOK
<1>6. StagesInv'
  BY <1>1, <1>3, <1>4 DEF StagesInv, Normalised
<1>7. ReplaysInv'
  BY <1>1, <1>4 DEF ReplaysInv, Done
<1>8. AllEnded'
  BY <1>1 DEF AllEnded
\* Before there is a result, every row of a source was committed by its own call.
<1>9. ASSUME NEW s \in Sources, HasRows(s), stage[s] # "success"
      PROVE  stage[s] = "failed" /\ pc[s] = "failed"
  <2>1. PICK p \in Products : rows[<<s, p>>] # None
    BY <1>9 DEF HasRows
  <2>2. <<s, p>> \in Keys /\ <<s, p>>[1] = s
    BY CallsAssumption
  <2>3. /\ pc[s] \in {"persisted", "failed"}
        /\ \E i \in 1..Len(batch[s]) : batch[s][i].key = <<s, p>>
    BY <1>1, <2>1, <2>2 DEF ReplaysInv, Done
  <2>4. batch[s] # << >>
    BY <2>3
  <2>5. stage[s] \in Ended
    BY <1>1 DEF AllEnded
  <2> QED
    BY <1>9, <2>3, <2>4, <2>5 DEF StagesInv, Ended
\* A source that succeeded has rows.
<1>10. ASSUME NEW s \in Sources, stage[s] = "success" PROVE HasRows(s)
  <2>1. s \in Calls /\ batch[s] # << >> /\ batch[s] \in Seq(Item)
    BY <1>10, CallsAssumption DEF StagesInv, CollectionTypeOK, TypeOK
  <2>2. 1 \in 1..Len(batch[s])
    BY <2>1
  <2>3. /\ batch[s][1].key \in Keys /\ batch[s][1].key[1] = s
        /\ rows[batch[s][1].key] # None
    BY <1>10, <2>1, <2>2, ItemTyped DEF StagesInv, PagesInv, CollectionTypeOK
  <2>4. PICK p \in Products : batch[s][1].key = <<s, p>>
    BY <2>3, CallsAssumption
  <2> QED
    BY <2>3, <2>4 DEF HasRows
<1>11. CASE Compare
  <2>1. /\ covered' = {s \in Sources : HasRows(s)}
        /\ covered' # Sources => warned'
        /\ status' = "compared" /\ status = "collecting" /\ lineage' = lineage
    BY <1>11 DEF Compare
  <2>2. Dataset \notin lineage
    BY <2>1 DEF ComparedInv
  <2>3. ComparedInv'
    <3>1. \A s \in covered' : stage[s] # "success" => stage[s] = "failed" /\ pc[s] = "failed"
      BY <1>9, <2>1
    <3>2. \A s \in Sources : stage[s] = "success" => s \in covered'
      BY <1>10, <2>1
    <3> QED
      BY <1>1, <1>4, <1>8, <2>1, <2>2, <3>1, <3>2 DEF ComparedInv, Dataset
  <2>4. \A b \in lineage : Inputs(b)' = Inputs(b)
    BY <2>2, InputsKept DEF CollectionTypeOK
  <2>5. LineageIsComplete'
    BY <1>4, <2>1, <2>4 DEF LineageIsComplete, Raw, Normalised
  <2> QED
    BY <1>5, <1>6, <1>7, <2>3, <2>5
<1>12. CASE StoreDataset
  <2>1. /\ WriteArtifact(Dataset) /\ UNCHANGED <<covered, warned>>
        /\ status = "compared" /\ status' = "reporting"
    BY <1>12 DEF StoreDataset
  <2>2. LineageIsComplete'
    BY <1>2, <1>4, <2>1, RegisteringKeepsLineage
  <2>3. ComparedInv'
    BY <1>1, <1>4, <1>8, <2>1 DEF ComparedInv
  <2> QED
    BY <1>5, <1>6, <1>7, <2>2, <2>3
<1>13. CASE StoreReport
  <2>1. /\ WriteArtifact(Report) /\ UNCHANGED <<covered, warned>>
        /\ status = "reporting"
        /\ status' = StatusFor({s \in Sources : stage[s] = "failed"})
    BY <1>13 DEF StoreReport
  <2>2. LineageIsComplete'
    BY <1>2, <1>4, <2>1, RegisteringKeepsLineage
  <2>3. /\ Report \in lineage'
        /\ status' \in {"success", "partial", "failure"}
        /\ status' # "failure" => \E s \in Sources : stage[s] # "failed"
        /\ status' = "success" => ~warned /\ \A s \in Sources : stage[s] # "failed"
    BY <2>1 DEF WriteArtifact, StatusFor
  <2>4. ComparedInv'
    BY <1>1, <1>4, <1>8, <2>1, <2>3 DEF ComparedInv, Report, Dataset
  <2> QED
    BY <1>5, <1>6, <1>7, <2>2, <2>4
<1>14. CASE ReportFails
  <2>1. UNCHANGED <<lineage, covered, warned>> /\ status' = "failure"
    BY <1>14 DEF ReportFails
  <2>2. LineageIsComplete'
    BY <1>4, <2>1, CommittingKeepsLineage
  <2>3. ComparedInv'
    BY <1>1, <1>4, <1>8, <2>1 DEF ComparedInv
  <2> QED
    BY <1>5, <1>6, <1>7, <2>2, <2>3
<1> QED
  BY <1>11, <1>12, <1>13, <1>14 DEF WorkflowStep

LEMMA CollectionStep == CollectionInv /\ [CollectionNext]_collectionVars => CollectionInv'
<1> SUFFICES ASSUME CollectionInv, [CollectionNext]_collectionVars
             PROVE  CollectionInv'
  OBVIOUS
<1>1. [Next]_vars
  BY CollectionStepsCall
<1>2. Inv'
  BY <1>1, StepInv DEF CollectionInv
<1>3. batch' = batch
  BY <1>1, StepMoves DEF Next, vars, CollectionInv, Inv
<1>4. PagesInv'
  BY <1>3 DEF CollectionInv, PagesInv
<1>5. CASE UNCHANGED collectionVars
  <2>1. CollectionTypeOK' /\ LineageIsComplete'
    BY <1>2, <1>5, CommittingKeepsLineage
       DEF CollectionInv, CollectionTypeOK, Inv, collectionVars, vars, resultVars
  <2>2. StagesInv' /\ ReplaysInv' /\ ComparedInv'
    BY <1>5 DEF CollectionInv, StagesInv, ReplaysInv, ComparedInv, collectionVars, vars,
                resultVars, Normalised, Done, AllEnded, Dataset, Report
  <2> QED
    BY <1>2, <1>4, <2>1, <2>2 DEF CollectionInv
<1>6. ASSUME NEW s \in Sources, SourceStep(s) PROVE CollectionInv'
  BY <1>2, <1>4, <1>6, SourceKeepsInv, PersistKeepsInv DEF SourceStep, CollectionInv
<1>7. ASSUME NEW c \in Replays, Replay(c) PROVE CollectionInv'
  BY <1>2, <1>4, <1>7, ReplayKeepsInv DEF CollectionInv
<1>8. CASE WorkflowStep
  BY <1>2, <1>4, <1>8, WorkflowKeepsInv DEF CollectionInv
<1> QED
  BY <1>5, <1>6, <1>7, <1>8 DEF CollectionNext

LEMMA CollectionInvariance == CollectionSpec => []CollectionInv
  BY CollectionInitially, CollectionStep, PTL DEF CollectionSpec

\* Every variable of the workflow keeps its type: an attempt of web_fetch is one of those
\* allowed, and only the workflow's artifacts are registered.
THEOREM CollectionTypeCorrect == CollectionSpec => []CollectionTypeOK
  BY CollectionInvariance, PTL DEF CollectionInv

\* Whatever fails and in whatever order: no row without its evidence (LineageIsComplete).
THEOREM LineageCompletes == CollectionSpec => []LineageIsComplete
  BY CollectionInvariance, PTL DEF CollectionInv

\* What a result claims of its sources holds of the table and of the report, also after
\* its sources have been persisted again (ResultIsHonest).
THEOREM ResultsAreHonest == CollectionSpec => []ResultIsHonest
<1>1. CollectionInv => ResultIsHonest
  <2> SUFFICES ASSUME CollectionInv, Done PROVE ResultIsHonest
    BY DEF ResultIsHonest
  <2> USE DEF CollectionInv
  <2>1. \A s \in Sources : stage[s] = "success" =>
          \A i \in 1..Len(batch[s]) : rows[batch[s][i].key] # None
    BY DEF StagesInv
  <2>2. \A s \in covered : Raw(s) \in Inputs(Dataset)
    BY InputsOfArtifacts
  <2>3. status # "failure" =>
          /\ Report \in lineage
          /\ {Raw(s) : s \in {t \in Sources : stage[t] = "success"}} \subseteq Inputs(Dataset)
          /\ \E s \in Sources : stage[s] # "failed"
    BY <2>2 DEF ComparedInv, Done
  <2>4. status = "success" => \A s \in Sources : stage[s] = "success" /\ Raw(s) \in Inputs(Dataset)
    BY <2>2 DEF ComparedInv
  <2>5. \A s \in covered : stage[s] # "success" => stage[s] = "failed" /\ pc[s] = "failed"
    BY DEF ComparedInv
  <2> QED
    BY <2>1, <2>3, <2>4, <2>5 DEF ResultIsHonest
<1> QED
  BY <1>1, CollectionInvariance, PTL
=============================================================================
