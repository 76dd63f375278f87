------------------------------ MODULE MCBridge ------------------------------
(***************************************************************************)
(* The instance of Bridge that TLC checks.  The threads are interchangeable.*)
(***************************************************************************)
EXTENDS Bridge, TLC

ThreadSymmetry == Permutations(Threads)
=============================================================================
