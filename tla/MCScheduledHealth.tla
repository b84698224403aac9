------------------------- MODULE MCScheduledHealth --------------------------
(* Instances of ScheduledHealth; concurrent runs are interchangeable.        *)
EXTENDS ScheduledHealth, TLC

Symmetry == Permutations(Runners)
=============================================================================
