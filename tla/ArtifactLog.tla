---------------------------- MODULE ArtifactLog -----------------------------
(* What the artifact store promises: an artifact comes into being in one     *)
(* step with content that never changes, may be deleted once and for all,    *)
(* and a reader is given its content or told that it is deleted, as of some  *)
(* moment during the read.                                                   *)
CONSTANTS Artifacts, Readers, None
VARIABLES live,      \* artifacts that exist
          deleted,   \* artifacts that were deleted
          wanted,    \* the artifact each reader asks for
          seen       \* what each reader was given

vars == <<live, deleted, wanted, seen>>

Init ==
  /\ live = {}
  /\ deleted = {}
  /\ wanted = [r \in Readers |-> None]
  /\ seen = [r \in Readers |-> None]

Create(a) ==
  /\ a \notin live \union deleted
  /\ live' = live \union {a}
  /\ UNCHANGED <<deleted, wanted, seen>>

Delete(a) ==
  /\ a \in live
  /\ live' = live \ {a}
  /\ deleted' = deleted \union {a}
  /\ UNCHANGED <<wanted, seen>>

Ask(r, a) ==
  /\ wanted[r] = None
  /\ a \in live \union deleted
  /\ wanted' = [wanted EXCEPT ![r] = a]
  /\ UNCHANGED <<live, deleted, seen>>

Answer(r) ==
  /\ wanted[r] # None /\ seen[r] = None
  /\ seen' = [seen EXCEPT ![r] = IF wanted[r] \in live THEN "content" ELSE "tombstoned"]
  /\ UNCHANGED <<live, deleted, wanted>>

Next == \/ \E a \in Artifacts : Create(a) \/ Delete(a)
        \/ \E r \in Readers : Answer(r) \/ \E a \in Artifacts : Ask(r, a)
Spec == Init /\ [][Next]_vars
=============================================================================
