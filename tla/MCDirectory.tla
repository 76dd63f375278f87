---------------------------- MODULE MCDirectory ----------------------------
(***************************************************************************)
(* The instance of Directory that TLC checks: alice may run two processes  *)
(* at a time, bob runs one.  alice's processes are interchangeable.        *)
(***************************************************************************)
EXTENDS Directory, TLC

CONSTANTS alice, bob, a1, a2, b1

OwnerOf == [c \in {a1, a2, b1} |-> IF c = b1 THEN bob ELSE alice]

ProcSymmetry == Permutations({a1, a2})
=============================================================================
