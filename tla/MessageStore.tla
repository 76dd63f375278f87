---------------------------- MODULE MessageStore ----------------------------
(***************************************************************************)
(* The `messages' table of the relay (tintin-server/src/store.rs) and the  *)
(* envelopes it holds (tintin-core/src/message.rs).                        *)
(*                                                                         *)
(* A table is a set of rows; a row is an envelope and the AUTOINCREMENT id *)
(* that SQLite gave it, so `ORDER BY id' is the order of the ids.          *)
(* The relay reads of an envelope only its two ends, its type and its      *)
(* timestamp: the ciphertext is the field `content', opaque here and given *)
(* a meaning by Messaging.                                                 *)
(***************************************************************************)
EXTENDS Integers, FiniteSets

CONSTANT Users      \* user ids known to the relay

\* MessageType: the two types that carry a user's message, and receipts.
MessageTypes == {"Normal", "PreKeyBundle"}
ReceiptTypes == {"Delivery", "Read"}

IsMessage(env) == env.type \in MessageTypes

(***************************************************************************)
(* Envelopes.  `ts' is the millisecond timestamp of Envelope::new.  A      *)
(* receipt names the message it is about by that message's timestamp, and  *)
(* nobody reads the receipt's own timestamp: `ts' of a receipt is 0.       *)
(***************************************************************************)
MessageEnvelope(from, to, type, ts, content) ==
    [from |-> from, to |-> to, type |-> type, ts |-> ts,
     receipt |-> "none", about |-> 0, content |-> content]

ReceiptEnvelope(from, to, receipt, about, nothing) ==
    [from |-> from, to |-> to, type |-> "Receipt", ts |-> 0,
     receipt |-> receipt, about |-> about, content |-> nothing]

(***************************************************************************)
(* The statements of store.rs on the table.                                *)
(***************************************************************************)
queue_message(table, id, env) == table \cup {[id |-> id, env |-> env]}

select_for(table, user) == {r \in table : r.env.to = user}

delete_for(table, user) == {r \in table : r.env.to # user}

\* Variant with a fault, for checking the properties: receipts for receipts.
receipt_due_all(batch) == batch

\* The rows of a batch for which fetch_messages queues a delivery receipt.
receipt_due(batch) == {r \in batch : IsMessage(r.env)}

\* Variant with a fault, for checking the properties: the receipt type as
\* message type.
delivery_receipt_mistyped(user, env, nothing) ==
    [ReceiptEnvelope(user, env.from, "Delivery", env.ts, nothing)
        EXCEPT !.type = "Delivery"]

\* The receipt that fetch_messages(user) queues for the message env.
delivery_receipt(user, env, nothing) ==
    ReceiptEnvelope(user, env.from, "Delivery", env.ts, nothing)

\* The row a loop over rows in id order handles next.
first_row(S) == CHOOSE r \in S : \A s \in S : r.id =< s.id
=============================================================================
