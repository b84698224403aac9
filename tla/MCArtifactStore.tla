-------------------------- MODULE MCArtifactStore ---------------------------
(* Instances of ArtifactStore; calls of one kind are interchangeable, and so *)
(* are contents: which write stores what is left to the initial state.       *)
EXTENDS ArtifactStore, TLC

Symmetry == Permutations(Writers) \union Permutations(Readers)
              \union Permutations(Deleters) \union Permutations(Contents)
=============================================================================
