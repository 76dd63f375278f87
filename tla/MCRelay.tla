------------------------------ MODULE MCRelay -------------------------------
(***************************************************************************)
(* The instance of Relay for TLC: alice may have two connections, bob one. *)
(***************************************************************************)
EXTENDS Relay

CONSTANTS alice, bob, a1, a2, b1

OwnerOf == [c \in {a1, a2, b1} |-> IF c = b1 THEN bob ELSE alice]
=============================================================================
