------------------------ MODULE MCRepairGeneration -------------------------
(* Instances of RepairGeneration. *)
EXTENDS RepairGeneration

\* A small failed script with one generic traceback.
Job == [size |-> [s \in Sections |-> 2], found |-> [l \in Lists |-> 0], envelope |-> 10,
        summary |-> {<<"code_defect", 1>>}, logged |-> {}, flow |-> FALSE, inline |-> TRUE,
        redacted |-> FALSE, success |-> FALSE, lines |-> 40, declared |-> {"network"}]

\* Sizes on both sides of the section budget, of the floor and of the limit.
EvidenceOfSize == {[Job EXCEPT !.size = n, !.found = f, !.envelope = e] :
   n \in [Sections -> {2, 11, 20}],
   f \in {[l \in Lists |-> 0], [l \in Lists |-> 2], [l \in Lists |-> IF l = "tests" THEN 0 ELSE 1]},
   e \in {10, 40}}

Signals == {<<"policy", 1>>, <<"infrastructure", 1>>, <<"code_defect", 1>>, <<"source_drift", 1>>}
EvidenceOfKind == {[Job EXCEPT !.summary = s, !.logged = l, !.inline = i] :
   s \in SUBSET Signals, l \in SUBSET {<<"code_defect", 2>>, <<"infrastructure", 3>>}, i \in BOOLEAN}
EvidenceRefused == {[Job EXCEPT !.flow = TRUE], [Job EXCEPT !.redacted = TRUE],
                    [Job EXCEPT !.success = TRUE]}

SomeEvidence == EvidenceOfSize \union EvidenceOfKind \union EvidenceRefused

SomeRepaired == {[level |-> l, limits |-> [d \in Dimensions |-> Unspecified]] : l \in {"automatic", "approval_required"}}
                  \union {Unspecified}
SomePatches == {[brings |-> {}, lines |-> 14], [brings |-> {"network"}, lines |-> 1],
                [brings |-> {}, lines |-> 15], [brings |-> {"third_party"}, lines |-> 1],
                [brings |-> {"database"}, lines |-> 1]}
=============================================================================
