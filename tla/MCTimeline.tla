----------------------------- MODULE MCTimeline -----------------------------
(***************************************************************************)
(* The instance of Timeline for the run of delete_post.  Users are         *)
(* interchangeable.                                                        *)
(***************************************************************************)
EXTENDS Timeline, TLC

Symmetry == Permutations(Users)
=============================================================================
