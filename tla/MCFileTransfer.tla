--------------------------- MODULE MCFileTransfer ---------------------------
(***************************************************************************)
(* Instances of FileTransfer for TLC.  Users are interchangeable, and so   *)
(* are names.                                                              *)
(***************************************************************************)
EXTENDS FileTransfer

Symmetry == Permutations(Users) \cup Permutations(Names)
=============================================================================
