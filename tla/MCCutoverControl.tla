-------------------------- MODULE MCCutoverControl --------------------------
(* Model values and symmetry for the runs of CutoverControl. *)
EXTENDS CutoverControl, TLC

Symmetry == Permutations(Attempts)
=============================================================================
