------------------------------- MODULE Store --------------------------------
(***************************************************************************)
(* What the models of the relay's tables (Polls, Timeline, Directory) have *)
(* in common: the users of the relay, and the faults they live through.    *)
(* They stand for parts of one store and one set of users, which is why    *)
(* these are declared once.                                                *)
(***************************************************************************)
CONSTANTS Users,
          MaxFaults    \* bound: crashes, failing statements, lost answers

VARIABLE faults
=============================================================================
