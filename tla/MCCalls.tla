------------------------------ MODULE MCCalls -------------------------------
(***************************************************************************)
(* Instances of Calls for TLC.  Users are interchangeable.                 *)
(***************************************************************************)
EXTENDS Calls, TLC

Symmetry == Permutations(Users)
=============================================================================
