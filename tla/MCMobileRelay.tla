--------------------------- MODULE MCMobileRelay ---------------------------
(***************************************************************************)
(* The instance of MobileRelay that TLC checks; its bounds are in the cfg. *)
(***************************************************************************)
EXTENDS MobileRelay
=============================================================================
