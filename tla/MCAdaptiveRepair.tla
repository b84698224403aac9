-------------------------- MODULE MCAdaptiveRepair --------------------------
(* Instances of AdaptiveRepair; runs are interchangeable, and so are          *)
(* finalizers: which run each finalizes is left to the initial state.         *)
EXTENDS AdaptiveRepair, TLC

Symmetry == Permutations(Flows) \union Permutations(Finalizers)
=============================================================================
