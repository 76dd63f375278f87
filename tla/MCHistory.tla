----------------------------- MODULE MCHistory -----------------------------
(***************************************************************************)
(* The instance of History that TLC checks.                                *)
(***************************************************************************)
EXTENDS History
=============================================================================
