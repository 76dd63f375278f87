------------------------------ MODULE MCStore ------------------------------
(***************************************************************************)
(* The instance of Polls and of Timeline for TLC.  The two are tables of   *)
(* one store and share nothing but its users and faults, so a behaviour is *)
(* about the one or the other.  Users are interchangeable.                 *)
(***************************************************************************)
EXTENDS Polls, Timeline, TLC

VARIABLE part   \* the handlers in use, "polls" or "timeline"

pollTables == <<polls, options, votes, next_poll, next_option, creating, meant>>
postTables == <<posts, comments, next_post, next_comment, deleting, erased,
                msgVars>>

StoreInit == part \in {"polls", "timeline"} /\ PollsInit /\ TimelineInit

StoreNext ==
    \/ part = "polls" /\ PollsNext /\ UNCHANGED <<part, postTables>>
    \/ part = "timeline" /\ TimelineNext /\ UNCHANGED <<part, pollTables>>

StoreSpec == StoreInit /\ [][StoreNext]_<<part, faults, pollTables, postTables>>

Symmetry == Permutations(Users)
=============================================================================
