---------------------------- MODULE MCPromotion -----------------------------
(* Instances of Promotion; the .cfg files name the candidates and the jobs.  *)
(* Which job prepares which candidate is left to the initial state.  No      *)
(* symmetry: it would not be sound for the liveness property.                *)
EXTENDS Promotion
=============================================================================
