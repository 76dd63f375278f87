------------------------------ MODULE Ratchet -------------------------------
(***************************************************************************)
(* The Double Ratchet of tintin-core (ratchet.rs, session.rs), with ideal  *)
(* cryptography: a key pair is its name, equal terms are equal keys, and   *)
(* different derivations give different keys.                              *)
(*                                                                         *)
(*   DH(a, b)       the agreement of a's secret with b's public key, the   *)
(*                  same from both sides                                   *)
(*   a root key     the sequence of the inputs it was derived from         *)
(*   a chain key    the root it came with and the steps taken since; the   *)
(*                  all-zero key has the empty root                        *)
(*   a message key  the chain key it was hashed from                       *)
(*                                                                         *)
(* The counters send_msg_number, recv_msg_number and prev_send_count and   *)
(* the limit max_skip are left out: decrypt_message reads none of them.    *)
(***************************************************************************)
EXTENDS Integers, Sequences

DH(a, b) == {a, b}

derive_chain_keys(root, input) == Append(root, input)

ChainOf(root) == [root |-> root, step |-> 0]
ZeroKey == ChainOf(<<>>)

\* next_key = SHA-256(0x02 || chain_key)
ratchet_chain_key(chain) == [chain EXCEPT !.step = @ + 1]

\* The initiator: a fresh ephemeral pair against the peer's signed pre-key.
new_initiator(eph, their_spk) ==
    LET root == derive_chain_keys(<<DH(eph, their_spk)>>, {eph})
    IN [dh |-> eph, their |-> their_spk, root |-> root,
        send |-> ChainOf(root), recv |-> ZeroKey, initiator |-> TRUE]

\* The responder: its own signed pre-key against the received ephemeral key.
new_responder(their_eph, spk) ==
    LET root == derive_chain_keys(<<DH(spk, their_eph)>>, {their_eph})
    IN [dh |-> spk, their |-> their_eph, root |-> root,
        send |-> ZeroKey, recv |-> ChainOf(root), initiator |-> FALSE]

\* A DH ratchet step renews one chain only, and keeps the own key pair.
dh_ratchet_step(s) ==
    LET root == derive_chain_keys(s.root, DH(s.dh, s.their))
    IN IF s.initiator
       THEN [s EXCEPT !.root = root, !.send = ChainOf(root)]
       ELSE [s EXCEPT !.root = root, !.recv = ChainOf(root)]

\* encrypt_message: what goes on the wire, and the session afterwards.
ciphertext(s) == [ratchet_key |-> s.dh, key |-> s.send]
after_encrypt(s) == [s EXCEPT !.send = ratchet_chain_key(@)]

\* decrypt_message: a DH step when the sender's ratchet key is new ...
NewRatchetKey(s, m) == m.ratchet_key # s.their

follow_ratchet_key(s, m) ==
    IF NewRatchetKey(s, m)
    THEN dh_ratchet_step([s EXCEPT !.their = m.ratchet_key]) ELSE s

\* ... then the next key of the receiving chain, used up whether or not the
\* AEAD accepts the ciphertext under it.
decrypts(s, m) == follow_ratchet_key(s, m).recv = m.key
\* (Variant with a fault, for checking the properties: the chain stands still.)
after_decrypt_standing(s, m) == follow_ratchet_key(s, m)

after_decrypt(s, m) ==
    [follow_ratchet_key(s, m) EXCEPT !.recv = ratchet_chain_key(@)]
=============================================================================
