----------------------------- MODULE MCLabQueue -----------------------------
(* Model values and symmetry for the runs of LabQueue. *)
EXTENDS LabQueue, TLC

Symmetry == Permutations(Jobs) \cup Permutations(Workers)
=============================================================================
