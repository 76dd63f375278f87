------------------------------ MODULE MCGroups ------------------------------
(***************************************************************************)
(* Instances of Groups for TLC.  Users are interchangeable.                *)
(***************************************************************************)
EXTENDS Groups, TLC

Symmetry == Permutations(Users)
=============================================================================
