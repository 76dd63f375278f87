---------------------------- MODULE MCMessaging -----------------------------
(***************************************************************************)
(* Instances of Messaging for TLC.  Users are interchangeable.             *)
(***************************************************************************)
EXTENDS Messaging, TLC

Symmetry == Permutations(Users)
=============================================================================
