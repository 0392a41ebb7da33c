-------------------------- MODULE MCObjectWorkspace -------------------------
(* ObjectWorkspace with interchangeable models and requests.               *)
EXTENDS ObjectWorkspace, TLC

Symmetry == Permutations(Models) \cup Permutations(Requests)
=============================================================================
