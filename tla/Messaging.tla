----------------------------- MODULE Messaging ------------------------------
(***************************************************************************)
(* CLI clients (tintin-cli/src/main.rs) exchanging private messages        *)
(* through the relay: sessions, encryption, receipts, edits, restarts.     *)
(*                                                                         *)
(* The relay is a queue per user that a fetch empties and that can lose a  *)
(* fetched batch to an error, which module Relay shows it to be.  A client *)
(* is single threaded: one command runs to its end before the next, and    *)
(* commands of different clients interleave at every round trip to the     *)
(* server.                                                                 *)
(***************************************************************************)
EXTENDS Ratchet, MessageStore, FiniteSets

CONSTANTS NoSession,    \* no entry in a SessionStore
          Nothing,      \* the content of plaintext and receipts
          NoKey,        \* no key bundle registered
          MaxSends,     \* bound: messages and edits per user
          MaxEdits,     \* bound: edits in all
          MaxFaults     \* bound: ends of client processes and server errors

ASSUME MessagingAssumption ==
    {MaxSends, MaxEdits, MaxFaults} \subseteq Nat

VARIABLES queue,      \* [Users -> envelopes waiting at the relay]
          bundle,     \* [Users -> signed pre-key registered at the relay]
          \* a client process:
          pc,         \* down, connecting, idle, sending, receiving
          spk,        \* [Users -> the signed pre-key pair]
          sessions,   \* [Users -> [Users -> session or NoSession]]
          out,        \* [Users -> {} or {the envelope being sent}]
          inbox,      \* [Users -> fetched envelopes still to be handled]
          \* a client's file:
          sent,       \* [Users -> sent_messages]
          \* fresh names, clocks and bounds:
          keys, now, edits, faults,
          \* history, read by no action of the program:
          shown,      \* [Users -> messages displayed]
          failed,     \* messages that did not decrypt
          missing,    \* messages dropped for want of a session
          initiated,  \* <<u, v>>: u started a session with v
          disturbed   \* pairs hit by the end of a process or a server error

serverVars == <<queue, bundle>>
procVars == <<pc, spk, sessions, out, inbox>>
countVars == <<keys, now, edits, faults>>
histVars == <<shown, failed, missing, initiated, disturbed>>
vars == <<queue, bundle, pc, spk, sessions, out, inbox, sent, keys, now,
          edits, faults, shown, failed, missing, initiated, disturbed>>

NoSessions == [v \in Users |-> NoSession]

Init ==
    /\ queue = [u \in Users |-> <<>>]
    /\ bundle = [u \in Users |-> NoKey]
    /\ pc = [u \in Users |-> "down"]
    /\ spk = [u \in Users |-> NoKey]
    /\ sessions = [u \in Users |-> NoSessions]
    /\ out = [u \in Users |-> {}]
    /\ inbox = [u \in Users |-> <<>>]
    /\ sent = [u \in Users |-> <<>>]
    /\ keys = [u \in Users |-> 0]
    /\ now = [u \in Users |-> 0]
    /\ edits = 0 /\ faults = 0
    /\ shown = [u \in Users |-> <<>>]
    /\ failed = {} /\ missing = {} /\ initiated = {} /\ disturbed = {}

\* Variant with a fault, for checking the properties: newest first.
post_newest_first(q, env) == [q EXCEPT ![env.to] = <<env>> \o @]

\* The relay queues an envelope ("send").
post(q, env) == [q EXCEPT ![env.to] = Append(@, env)]

\* The places of v's messages in a batch, and the k-th of them in order.
Due(batch, v) == {i \in DOMAIN batch : IsMessage(batch[i]) /\ batch[i].from = v}
Nth(S, k) == CHOOSE i \in S : Cardinality({j \in S : j =< i}) = k

\* The delivery receipts that fetching batch for u queues for v, in order.
receipts_for(u, v, batch) ==
    [k \in 1..Cardinality(Due(batch, v)) |->
        delivery_receipt(u, batch[Nth(Due(batch, v), k)], Nothing)]

\* Variant with a fault, for checking the properties: no DELETE.
fetch_messages_keep(q, u, n) ==
    [v \in Users |-> q[v] \o receipts_for(u, v, SubSeq(q[u], 1, n))]

\* The relay empties u's queue and queues delivery receipts for the first n
\* envelopes of the batch: all of them, unless an insert fails ("receive").
fetch_messages(q, u, n) ==
    [v \in Users |-> (IF v = u THEN <<>> ELSE q[v])
                        \o receipts_for(u, v, SubSeq(q[u], 1, n))]

\* A read receipt from u for the message env.
read_receipt(u, env) ==
    ReceiptEnvelope(u, env.from, "Read", env.ts, Nothing)

\* The server's answer to a send: ok, or an error while MaxFaults allows.
Answered(ok) ==
    /\ ok \/ faults < MaxFaults
    /\ faults' = IF ok THEN faults ELSE faults + 1
-----------------------------------------------------------------------------
(***************************************************************************)
(* A client process.                                                       *)
(***************************************************************************)
\* TinTinClient::new: fresh identity and pre-key, no sessions; the sent
\* messages are read back from disk.
new(u) ==
    /\ pc[u] = "down"
    /\ keys' = [keys EXCEPT ![u] = @ + 1]
    /\ spk' = [spk EXCEPT ![u] = <<u, keys[u] + 1>>]
    /\ pc' = [pc EXCEPT ![u] = "connecting"]
    /\ UNCHANGED <<serverVars, sessions, out, inbox, sent, now, edits,
                   faults, histVars>>

\* connect and register: the relay replaces the user's key bundle.
register(u) ==
    /\ pc[u] = "connecting"
    /\ bundle' = [bundle EXCEPT ![u] = spk[u]]
    /\ pc' = [pc EXCEPT ![u] = "idle"]
    /\ UNCHANGED <<queue, spk, sessions, out, inbox, sent, countVars, histVars>>

\* The process ends, by /quit or otherwise, and takes its sessions and the
\* rest of a fetched batch along.  A send under way may have reached the relay.
Kill(u) ==
    /\ pc[u] # "down" /\ faults < MaxFaults
    /\ \/ queue' = queue
       \/ \E env \in out[u] : queue' = post(queue, env)
    /\ pc' = [pc EXCEPT ![u] = "down"]
    /\ spk' = [spk EXCEPT ![u] = NoKey]
    /\ sessions' = [sessions EXCEPT ![u] = NoSessions]
    /\ out' = [out EXCEPT ![u] = {}]
    /\ inbox' = [inbox EXCEPT ![u] = <<>>]
    /\ faults' = faults + 1
    /\ disturbed' = disturbed \cup {{u, v} : v \in Users}
    /\ UNCHANGED <<bundle, sent, keys, now, edits, shown, failed,
                   missing, initiated>>
-----------------------------------------------------------------------------
(***************************************************************************)
(* /msg: send_message, send_encrypted.                                     *)
(***************************************************************************)
SendWith(u, v, type, content) ==
    /\ now' = [now EXCEPT ![u] = @ + 1]
    /\ out' = [out EXCEPT
                 ![u] = {MessageEnvelope(u, v, type, now[u] + 1, content)}]
    /\ pc' = [pc EXCEPT ![u] = "sending"]

\* Saved Messages: to oneself, in plaintext.
send_to_self(u) ==
    /\ pc[u] = "idle" /\ now[u] < MaxSends
    /\ SendWith(u, u, "Normal", Nothing)
    /\ UNCHANGED <<serverVars, spk, sessions, inbox, sent, keys, edits,
                   faults, histVars>>

\* No session yet: fetch the bundle, start one, send a PreKeyBundle.
send_first(u, v) ==
    /\ pc[u] = "idle" /\ now[u] < MaxSends
    /\ v # u /\ sessions[u][v] = NoSession /\ bundle[v] # NoKey
    /\ LET s == new_initiator(<<u, keys[u] + 1>>, bundle[v])
       IN /\ sessions' = [sessions EXCEPT ![u][v] = after_encrypt(s)]
          /\ SendWith(u, v, "PreKeyBundle", ciphertext(s))
    /\ keys' = [keys EXCEPT ![u] = @ + 1]
    /\ initiated' = initiated \cup {<<u, v>>}
    /\ UNCHANGED <<serverVars, spk, inbox, sent, edits, faults,
                   shown, failed, missing, disturbed>>

\* A session exists: a Normal message in its sending chain.
send_next(u, v) ==
    /\ pc[u] = "idle" /\ now[u] < MaxSends
    /\ v # u /\ sessions[u][v] # NoSession
    /\ sessions' = [sessions EXCEPT ![u][v] = after_encrypt(@)]
    /\ SendWith(u, v, "Normal", ciphertext(sessions[u][v]))
    /\ UNCHANGED <<serverVars, spk, inbox, sent, keys, edits, faults, histVars>>

\* The answer: only an accepted message is tracked.
send_answered(u, ok) ==
    /\ pc[u] = "sending" /\ Answered(ok)
    /\ \E env \in out[u] :
         IF ok
         THEN /\ queue' = post(queue, env)
              /\ sent' = [sent EXCEPT ![u] = Append(@,
                            [to |-> env.to, ts |-> env.ts, status |-> "Sent"])]
              /\ UNCHANGED disturbed
         ELSE /\ disturbed' = disturbed \cup {{u, env.to}}
              /\ UNCHANGED <<queue, sent>>
    /\ out' = [out EXCEPT ![u] = {}]
    /\ pc' = [pc EXCEPT ![u] = "idle"]
    /\ UNCHANGED <<bundle, spk, sessions, inbox, keys, now, edits, shown,
                   failed, missing, initiated>>

(***************************************************************************)
(* /edit: the new text goes to the recipient when there is a session; the  *)
(* answer is ignored.  The edited marks of the files are display only.     *)
(***************************************************************************)
edit_message(u, i, ok) ==
    /\ pc[u] = "idle" /\ now[u] < MaxSends /\ edits < MaxEdits
    /\ i \in DOMAIN sent[u] /\ Answered(ok)
    /\ LET v == sent[u][i].to
           content == IF v = u THEN Nothing ELSE ciphertext(sessions[u][v])
           env == MessageEnvelope(u, v, "Normal", now[u] + 1, content)
       IN IF v # u /\ sessions[u][v] = NoSession
          THEN ok /\ UNCHANGED <<queue, sessions, disturbed>>
          ELSE /\ queue' = IF ok THEN post(queue, env) ELSE queue
               /\ disturbed' = IF ok THEN disturbed
                                     ELSE disturbed \cup {{u, v}}
               /\ sessions' = IF v = u THEN sessions
                              ELSE [sessions EXCEPT ![u][v] = after_encrypt(@)]
    /\ now' = [now EXCEPT ![u] = @ + 1]
    /\ edits' = edits + 1
    /\ UNCHANGED <<bundle, pc, spk, out, inbox, sent, keys, shown, failed,
                   missing, initiated>>
-----------------------------------------------------------------------------
(***************************************************************************)
(* /recv: receive_messages fetches everything and handles it in order.     *)
(***************************************************************************)
receive_messages(u) ==
    /\ pc[u] = "idle" /\ queue[u] # <<>>
    /\ inbox' = [inbox EXCEPT ![u] = queue[u]]
    /\ queue' = fetch_messages(queue, u, Len(queue[u]))
    /\ pc' = [pc EXCEPT ![u] = "receiving"]
    /\ UNCHANGED <<bundle, spk, sessions, out, sent, countVars, histVars>>

\* The relay fails to queue the receipt of envelope n + 1: the answer is an
\* error and the batch, already deleted, is gone.
receive_error(u) ==
    /\ pc[u] = "idle" /\ Answered(FALSE)
    /\ \E n \in 0..(Len(queue[u]) - 1) :
         /\ IsMessage(queue[u][n + 1])
         /\ queue' = fetch_messages(queue, u, n)
    /\ disturbed' = disturbed \cup {{u, v} : v \in Users}
    /\ UNCHANGED <<bundle, procVars, sent, keys, now, edits, shown,
                   failed, missing, initiated>>

\* The envelope being handled, and the step to the next one.
Current(u) == Head(inbox[u])

Handling(u, type) ==
    /\ pc[u] = "receiving" /\ Current(u).type = type
    /\ inbox' = [inbox EXCEPT ![u] = Tail(@)]
    /\ pc' = [pc EXCEPT ![u] = IF Len(inbox[u]) = 1 THEN "idle" ELSE @]

Show(u) == shown' = [shown EXCEPT ![u] =
                        Append(@, [from |-> Current(u).from,
                                   ts |-> Current(u).ts])]

Trouble(u) == [at |-> u, from |-> Current(u).from, ts |-> Current(u).ts]

\* A decrypted message is displayed and a read receipt sent, whose answer is
\* ignored.
Accept(u, ok) ==
    /\ Show(u) /\ Answered(ok)
    /\ queue' = IF ok THEN post(queue, read_receipt(u, Current(u))) ELSE queue
    /\ UNCHANGED failed

\* A message that does not decrypt is reported and dropped.
Reject(u) ==
    /\ failed' = failed \cup {Trouble(u)}
    /\ UNCHANGED <<shown, queue, faults>>

\* PreKeyBundle: a new responder session, kept only if the message decrypts;
\* it replaces whatever session there was.
receive_prekey(u, ok) ==
    /\ Handling(u, "PreKeyBundle")
    /\ LET m == Current(u).content
           s == new_responder(m.ratchet_key, spk[u])
       IN IF decrypts(s, m)
          THEN /\ sessions' = [sessions EXCEPT
                                 ![u][Current(u).from] = after_decrypt(s, m)]
               /\ Accept(u, ok)
          ELSE /\ ok /\ Reject(u) /\ UNCHANGED sessions
    /\ UNCHANGED <<bundle, spk, out, sent, keys, now, edits, missing,
                   initiated, disturbed>>

\* Normal, from oneself: displayed, no receipt.
receive_saved(u) ==
    /\ Handling(u, "Normal") /\ Current(u).from = u
    /\ Show(u)
    /\ UNCHANGED <<serverVars, spk, sessions, out, sent, countVars, failed,
                   missing, initiated, disturbed>>

\* Normal, without a session: "They need to message you first."
receive_missing(u) ==
    /\ Handling(u, "Normal") /\ Current(u).from # u
    /\ sessions[u][Current(u).from] = NoSession
    /\ missing' = missing \cup {Trouble(u)}
    /\ UNCHANGED <<serverVars, spk, sessions, out, sent, countVars, shown,
                   failed, initiated, disturbed>>

\* Normal, with a session: its receiving chain moves on in any case.
receive_normal(u, ok) ==
    /\ Handling(u, "Normal") /\ Current(u).from # u
    /\ sessions[u][Current(u).from] # NoSession
    /\ LET v == Current(u).from
           m == Current(u).content
           s == sessions[u][v]
       IN /\ sessions' = [sessions EXCEPT ![u][v] = after_decrypt(s, m)]
          /\ IF decrypts(s, m) THEN Accept(u, ok)
             ELSE ok /\ Reject(u)
    /\ UNCHANGED <<bundle, spk, out, sent, keys, now, edits, missing,
                   initiated, disturbed>>

\* Variant with a fault, for checking the properties: the timestamp is not
\* compared.
Matching_any_time(u, env) == {i \in DOMAIN sent[u] : sent[u][i].to = env.from}

\* The sent messages a receipt is about; the code takes the first.
Matching(u, env) ==
    {i \in DOMAIN sent[u] : sent[u][i].to = env.from /\ sent[u][i].ts = env.about}

\* Receipt: the status of the first matching sent message is overwritten.
receive_receipt(u) ==
    /\ Handling(u, "Receipt")
    /\ LET env == Current(u)
           status == IF env.receipt = "Delivery" THEN "Delivered" ELSE "Read"
       IN IF Matching(u, env) = {} THEN UNCHANGED sent
          ELSE LET i == CHOOSE i \in Matching(u, env) :
                            \A j \in Matching(u, env) : i =< j
               IN sent' = [sent EXCEPT ![u][i].status = status]
    /\ UNCHANGED <<serverVars, spk, sessions, out, countVars, histVars>>
-----------------------------------------------------------------------------
Handle(u) ==
    \/ \E ok \in BOOLEAN : receive_prekey(u, ok) \/ receive_normal(u, ok)
    \/ receive_saved(u) \/ receive_missing(u) \/ receive_receipt(u)

Command(u) ==
    \/ send_to_self(u)
    \/ \E v \in Users : send_first(u, v) \/ send_next(u, v)
    \/ \E i \in 1..MaxSends, ok \in BOOLEAN : edit_message(u, i, ok)
    \/ receive_messages(u) \/ receive_error(u)

Next ==
    \E u \in Users :
        \/ new(u) \/ register(u) \/ Kill(u)
        \/ Command(u) \/ Handle(u)
        \/ \E ok \in BOOLEAN : send_answered(u, ok)

Spec == Init /\ [][Next]_vars
-----------------------------------------------------------------------------
Keys == Users \X Nat
Chains == [root : Seq(SUBSET Keys), step : Nat]
Sessions == [dh : Keys, their : Keys, root : Seq(SUBSET Keys), send : Chains,
             recv : Chains, initiator : BOOLEAN]

\* No entry in a SessionStore (None) is not a session.
ASSUME NoSessionAssumption == NoSession \notin Sessions

Contents == [ratchet_key : Keys, key : Chains] \cup {Nothing}
Envelopes == [from : Users, to : Users, type : MessageTypes \cup {"Receipt"},
              ts : Nat, receipt : ReceiptTypes \cup {"none"}, about : Nat,
              content : Contents]
Statuses == {"Sent", "Delivered", "Read"}
Troubles == [at : Users, from : Users, ts : Nat]

TypeOK ==
    /\ queue \in [Users -> Seq(Envelopes)]
    /\ bundle \in [Users -> Keys \cup {NoKey}]
    /\ pc \in [Users -> {"down", "connecting", "idle", "sending", "receiving"}]
    /\ spk \in [Users -> Keys \cup {NoKey}]
    /\ sessions \in [Users -> [Users -> Sessions \cup {NoSession}]]
    /\ out \in [Users -> SUBSET Envelopes]
    /\ inbox \in [Users -> Seq(Envelopes)]
    /\ sent \in [Users -> Seq([to : Users, ts : Nat, status : Statuses])]
    /\ keys \in [Users -> Nat] /\ now \in [Users -> 0..MaxSends]
    /\ edits \in 0..MaxEdits /\ faults \in 0..MaxFaults
    /\ shown \in [Users -> Seq([from : Users, ts : Nat])]
    /\ failed \subseteq Troubles /\ missing \subseteq Troubles
    /\ initiated \subseteq Users \X Users
    /\ disturbed \subseteq SUBSET Users

Elements(seq) == {seq[i] : i \in DOMAIN seq}

\* Both users started a session with each other.
Glare(u, v) == {<<u, v>>, <<v, u>>} \subseteq initiated

(***************************************************************************)
(* UndisturbedDecrypts: between two users neither of whose processes ended *)
(* and who did not both start a session, and whose sends and fetches met   *)
(* no server error, every message that is received finds a session and     *)
(* decrypts, edits included: the two ratchets never drift apart.           *)
(***************************************************************************)
UndisturbedDecrypts ==
    \A t \in failed \cup missing :
        {t.at, t.from} \in disturbed \/ Glare(t.at, t.from)

(***************************************************************************)
(* ReadMeansShown: a sent message has the status Read only if exactly that *)
(* message was displayed by its recipient, also after restarts of either   *)
(* side that lose sessions and fetched batches.                            *)
(***************************************************************************)
ReadMeansShown ==
    \A u \in Users : \A m \in Elements(sent[u]) : m.status = "Read" =>
        [from |-> u, ts |-> m.ts] \in Elements(shown[m.to])

(***************************************************************************)
(* DeliveredMeansFetched: a message with a status beyond Sent is no longer *)
(* waiting at the relay.                                                   *)
(***************************************************************************)
DeliveredMeansFetched ==
    \A u \in Users : \A m \in Elements(sent[u]) : m.status # "Sent" =>
        ~ \E env \in Elements(queue[m.to]) :
            IsMessage(env) /\ env.from = u /\ env.ts = m.ts

(***************************************************************************)
(* ShownInOrder: the messages of one sender are displayed in the order of  *)
(* sending, each at most once, whatever is lost in between.                *)
(***************************************************************************)
ShownInOrder ==
    \A u \in Users : \A i, j \in DOMAIN shown[u] :
        i < j /\ shown[u][i].from = shown[u][j].from
            => shown[u][i].ts < shown[u][j].ts

Rank(status) == CASE status = "Sent" -> 0
                  [] status = "Delivered" -> 1
                  [] status = "Read" -> 2

(***************************************************************************)
(* StatusNeverFallsBack: receipts are applied as they come, overwriting    *)
(* the status, and yet no message goes back from Read to Delivered, and no *)
(* tracked message is forgotten by a restart.                              *)
(***************************************************************************)
StatusNeverFallsBack ==
    [][\A u \in Users : \A i \in DOMAIN sent[u] :
        /\ i \in DOMAIN sent'[u]
        /\ Rank(sent[u][i].status) =< Rank(sent'[u][i].status)]_vars
=============================================================================
