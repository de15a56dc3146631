------------------------------ MODULE MCJobList ------------------------------
(***************************************************************************)
(* Instances of JobList small enough for TLC.                              *)
(***************************************************************************)
EXTENDS JobList, TLC

Symmetry == Permutations(Jobs)
=============================================================================
