----------------------------- MODULE WriteOnce ------------------------------
(* A store of write-once cells: what create_candidate promises its callers.  *)
(* The first writer of a cell decides its value for good, and every caller   *)
(* that gets an answer is told that value.                                   *)
CONSTANTS Callers, Cells, None
VARIABLES cell,     \* the cell each caller asks for
          stored,   \* who filled each cell
          told      \* whose value each caller was told

vars == <<cell, stored, told>>

Init ==
  /\ cell \in [Callers -> Cells]
  /\ stored = [k \in Cells |-> None]
  /\ told = [j \in Callers |-> None]

\* Fill an empty cell; the writer may die before it learns that it did.
Put(j) ==
  /\ stored[cell[j]] = None
  /\ told[j] = None
  /\ stored' = [stored EXCEPT ![cell[j]] = j]
  /\ told' \in {told, [told EXCEPT ![j] = j]}
  /\ UNCHANGED cell

\* Learn who filled a cell.
Get(j) ==
  /\ stored[cell[j]] # None
  /\ told[j] = None
  /\ told' = [told EXCEPT ![j] = stored[cell[j]]]
  /\ UNCHANGED <<cell, stored>>

Next == \E j \in Callers : Put(j) \/ Get(j)
Spec == Init /\ [][Next]_vars
=============================================================================
