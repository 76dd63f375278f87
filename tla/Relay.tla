------------------------------- MODULE Relay --------------------------------
(***************************************************************************)
(* The relay server's message path: one handler task per TCP connection    *)
(* (tintin-server/src/main.rs), all of them sharing one SQLite connection  *)
(* behind a mutex (store.rs).  Every SQL statement commits by itself, so   *)
(* fetch_messages is modelled statement by statement: select, delete, one  *)
(* insert per delivery receipt.  The mutex keeps the other handlers out    *)
(* between two statements, but nothing keeps out a crash of the process, a *)
(* failing statement or a client that goes away.                           *)
(*                                                                         *)
(* phase[c], the state of connection slot c:                               *)
(*   closed    no handler task                                             *)
(*   idle      the handler waits for a line                                *)
(*   send      a "send" line was written, pend[c] holds its envelope       *)
(*   receive   a "receive" line was written                                *)
(*   selected  inside fetch_messages, rows read into batch[c], except      *)
(*             those in skipped[c], that it could not make an envelope of  *)
(*   deleted   inside fetch_messages, rows deleted; todo[c]: receipts due  *)
(*   ok        a response without messages was produced                    *)
(*   fetched   a response with batch[c] was produced                       *)
(* live[c]: the client end of c is still there to read the response.  A    *)
(* user may have several connections, of one program or of several.        *)
(***************************************************************************)
EXTENDS MessageStore

CONSTANTS Conns,      \* connection slots
          owner,      \* [Conns -> Users]: whose client uses the slot
          SentTypes,  \* types of the messages that clients send
          MaxCmds,    \* bound: commands clients issue
          MaxFaults   \* bound: crashes, disconnects and failing statements

ASSUME RelayAssumption ==
    /\ owner \in [Conns -> Users] /\ SentTypes \subseteq MessageTypes
    /\ MaxCmds \in Nat /\ MaxFaults \in Nat

VARIABLES rows,     \* the messages table
          next_id,  \* next AUTOINCREMENT id
          phase, live, pend, batch, skipped, todo,   \* the connections
          clock,    \* commands issued so far, also the clients' clock
          faults,   \* faults so far
          \* history, read by no action of the program:
          got,      \* [Conns -> rows whose response was read]
          lost      \* [row |-> r, why |-> cause]: deleted, never received

vars == <<rows, next_id, phase, live, pend, batch, skipped, todo, clock,
          faults, got, lost>>

\* Rows handed over by the relay carry no ciphertext that matters here.
Opaque == "opaque"

Envelopes == [from : Users, to : Users, type : MessageTypes \cup {"Receipt"},
              ts : Nat, receipt : ReceiptTypes \cup {"none"}, about : Nat,
              content : {Opaque}]
Rows == [id : Nat, env : Envelopes]

Phases == {"closed", "idle", "send", "receive", "selected", "deleted", "ok",
           "fetched"}
Causes == {"crash", "error", "gone", "skipped"}

\* The handler that is inside fetch_messages holds store.conn.
Holders == {c \in Conns : phase[c] \in {"selected", "deleted"}}
MutexFree == Holders = {}

\* Rows that left the table and whose response is not yet delivered.
InFlight(c) == IF phase[c] \in {"deleted", "fetched"} THEN batch[c] ELSE {}
Sunk == {l.row : l \in lost}

Init ==
    /\ rows = {} /\ next_id = 1
    /\ phase = [c \in Conns |-> "closed"]
    /\ live = [c \in Conns |-> FALSE]
    /\ pend = [c \in Conns |-> {}]
    /\ batch = [c \in Conns |-> {}]
    /\ skipped = [c \in Conns |-> {}]
    /\ todo = [c \in Conns |-> {}]
    /\ clock = 0 /\ faults = 0
    /\ got = [c \in Conns |-> {}]
    /\ lost = {}
-----------------------------------------------------------------------------
(***************************************************************************)
(* The client's side of a connection: it writes one command and waits for  *)
(* the one-line answer before the next (tintin-cli send_json, recv_json).  *)
(***************************************************************************)
\* The server accepts any number of connections.
Connect(c) ==
    /\ phase[c] = "closed"
    /\ phase' = [phase EXCEPT ![c] = "idle"]
    /\ live' = [live EXCEPT ![c] = TRUE]
    /\ UNCHANGED <<rows, next_id, pend, batch, skipped, todo, clock, faults,
                   got, lost>>

\* What a client may put in a "send": a message to anybody, stamped with the
\* time, or a read receipt for a message that its user has received.
ReceivedBy(u) == UNION {got[c] : c \in {d \in Conns : owner[d] = u}}

ClientEnvelopes(u) ==
    {MessageEnvelope(u, v, t, clock + 1, Opaque) :
        v \in Users, t \in SentTypes}
    \cup {ReceiptEnvelope(u, r.env.from, "Read", r.env.ts, Opaque) :
            r \in receipt_due(ReceivedBy(u))}

SendCmd(c) ==
    /\ phase[c] = "idle" /\ live[c] /\ clock < MaxCmds
    /\ \E env \in ClientEnvelopes(owner[c]) : pend' = [pend EXCEPT ![c] = {env}]
    /\ phase' = [phase EXCEPT ![c] = "send"]
    /\ clock' = clock + 1
    /\ UNCHANGED <<rows, next_id, live, batch, skipped, todo, faults, got,
                   lost>>

ReceiveCmd(c) ==
    /\ phase[c] = "idle" /\ live[c] /\ clock < MaxCmds
    /\ phase' = [phase EXCEPT ![c] = "receive"]
    /\ clock' = clock + 1
    /\ UNCHANGED <<rows, next_id, live, pend, batch, skipped, todo, faults,
                   got, lost>>

\* The client reads its answer and hands the messages to its user.
ReadResponse(c) ==
    /\ phase[c] \in {"ok", "fetched"} /\ live[c]
    /\ phase' = [phase EXCEPT ![c] = "idle"]
    /\ got' = [got EXCEPT ![c] = @ \cup InFlight(c)]
    /\ batch' = [batch EXCEPT ![c] = {}]
    /\ UNCHANGED <<rows, next_id, live, pend, skipped, todo, clock, faults,
                   lost>>

\* The client quits, dies or loses the network.  A handler in the middle of a
\* command does not notice; an idle one reads end of file and ends.
Disconnect(c) ==
    /\ live[c] /\ faults < MaxFaults
    /\ live' = [live EXCEPT ![c] = FALSE]
    /\ phase' = [phase EXCEPT ![c] = IF @ = "idle" THEN "closed" ELSE @]
    /\ faults' = faults + 1
    /\ UNCHANGED <<rows, next_id, pend, batch, skipped, todo, clock, got,
                   lost>>
-----------------------------------------------------------------------------
(***************************************************************************)
(* The handlers.                                                           *)
(***************************************************************************)
\* Variant with a fault, for checking the properties: the store without its
\* mutex.
handle_send_unlocked(c) ==
    /\ phase[c] = "send"
    /\ \E env \in pend[c] : rows' = queue_message(rows, next_id, env)
    /\ next_id' = next_id + 1
    /\ phase' = [phase EXCEPT ![c] = "ok"]
    /\ pend' = [pend EXCEPT ![c] = {}]
    /\ UNCHANGED <<live, batch, skipped, todo, clock, faults, got, lost>>

handle_send(c) ==
    /\ phase[c] = "send" /\ MutexFree
    /\ \E env \in pend[c] : rows' = queue_message(rows, next_id, env)
    /\ next_id' = next_id + 1
    /\ phase' = [phase EXCEPT ![c] = "ok"]
    /\ pend' = [pend EXCEPT ![c] = {}]
    /\ UNCHANGED <<live, batch, skipped, todo, clock, faults, got, lost>>

\* The INSERT fails: the client is told "Database error".
handle_send_error(c) ==
    /\ phase[c] = "send" /\ MutexFree /\ faults < MaxFaults
    /\ phase' = [phase EXCEPT ![c] = "ok"]
    /\ pend' = [pend EXCEPT ![c] = {}]
    /\ faults' = faults + 1
    /\ UNCHANGED <<rows, next_id, live, batch, skipped, todo, clock, got,
                   lost>>

\* Variant with a fault, for checking the properties: the store without its
\* mutex.
fetch_select_unlocked(c) ==
    /\ phase[c] = "receive"
    /\ batch' = [batch EXCEPT ![c] = select_for(rows, owner[c])]
    /\ phase' = [phase EXCEPT ![c] = "selected"]
    /\ UNCHANGED <<rows, next_id, live, pend, skipped, todo, clock, faults,
                   got, lost>>

\* fetch_messages, 1: read all pending messages.
fetch_select(c) ==
    /\ phase[c] = "receive" /\ MutexFree
    /\ batch' = [batch EXCEPT ![c] = select_for(rows, owner[c])]
    /\ phase' = [phase EXCEPT ![c] = "selected"]
    /\ UNCHANGED <<rows, next_id, live, pend, skipped, todo, clock, faults,
                   got, lost>>

\* The same when some rows cannot be read (`filter_map(|r| r.ok())') or their
\* text does not parse (`if let Ok(env)'): they are passed over, and the
\* answer is as good as ever.
fetch_select_skips(c) ==
    /\ phase[c] = "receive" /\ MutexFree /\ faults < MaxFaults
    /\ \E bad \in SUBSET select_for(rows, owner[c]) \ {{}} :
         /\ batch' = [batch EXCEPT ![c] = select_for(rows, owner[c]) \ bad]
         /\ skipped' = [skipped EXCEPT ![c] = bad]
    /\ phase' = [phase EXCEPT ![c] = "selected"]
    /\ faults' = faults + 1
    /\ UNCHANGED <<rows, next_id, live, pend, todo, clock, got, lost>>

\* fetch_messages, 2 and 3: delete them, those passed over as well.
fetch_delete(c) ==
    /\ phase[c] = "selected"
    /\ rows' = delete_for(rows, owner[c])
    /\ todo' = [todo EXCEPT ![c] = receipt_due(batch[c])]
    /\ lost' = lost \cup {[row |-> r, why |-> "skipped"] : r \in skipped[c]}
    /\ skipped' = [skipped EXCEPT ![c] = {}]
    /\ phase' = [phase EXCEPT ![c] = "deleted"]
    /\ UNCHANGED <<next_id, live, pend, batch, clock, faults, got>>

\* fetch_messages, 4: queue the delivery receipt of the next message.
fetch_receipt(c) ==
    /\ phase[c] = "deleted" /\ todo[c] # {}
    /\ LET r == first_row(todo[c])
       IN /\ rows' = queue_message(rows, next_id,
                                   delivery_receipt(owner[c], r.env, Opaque))
          /\ todo' = [todo EXCEPT ![c] = @ \ {r}]
    /\ next_id' = next_id + 1
    /\ UNCHANGED <<phase, live, pend, batch, skipped, clock, faults, got,
                   lost>>

\* Variant with a fault, for checking the properties: the response does not
\* wait for the receipts.
fetch_return_early(c) ==
    /\ phase[c] = "deleted"
    /\ phase' = [phase EXCEPT ![c] = "fetched"]
    /\ UNCHANGED <<rows, next_id, live, pend, batch, skipped, todo, clock,
                   faults, got, lost>>

\* Variant with a fault, for checking the properties: no response when there
\* is nothing to fetch.
fetch_return_nonempty(c) ==
    /\ phase[c] = "deleted" /\ todo[c] = {} /\ batch[c] # {}
    /\ phase' = [phase EXCEPT ![c] = "fetched"]
    /\ UNCHANGED <<rows, next_id, live, pend, batch, skipped, todo, clock,
                   faults, got, lost>>

\* fetch_messages returns Ok(envelopes) and unlocks.
fetch_return(c) ==
    /\ phase[c] = "deleted" /\ todo[c] = {}
    /\ phase' = [phase EXCEPT ![c] = "fetched"]
    /\ UNCHANGED <<rows, next_id, live, pend, batch, skipped, todo, clock,
                   faults, got, lost>>

\* A statement of fetch_messages fails, `?' returns and unlocks, the response
\* is an error without messages.  Nothing is rolled back.
fetch_error(c) ==
    /\ \/ phase[c] = "selected"
       \/ phase[c] = "deleted" /\ todo[c] # {}
    /\ faults < MaxFaults
    /\ lost' = lost \cup {[row |-> r, why |-> "error"] : r \in InFlight(c)}
    /\ phase' = [phase EXCEPT ![c] = "ok"]
    /\ batch' = [batch EXCEPT ![c] = {}]
    /\ skipped' = [skipped EXCEPT ![c] = {}]
    /\ todo' = [todo EXCEPT ![c] = {}]
    /\ faults' = faults + 1
    /\ UNCHANGED <<rows, next_id, live, pend, clock, got>>

\* Variant with a fault, for checking the properties: an undelivered batch
\* goes back into the table.
write_requeued(c) ==
    /\ phase[c] \in {"ok", "fetched"} /\ ~live[c]
    /\ rows' = rows \cup InFlight(c)
    /\ phase' = [phase EXCEPT ![c] = "closed"]
    /\ batch' = [batch EXCEPT ![c] = {}]
    /\ UNCHANGED <<next_id, live, pend, skipped, todo, clock, faults, got,
                   lost>>

\* handle_client ignores the result of write_all, then reads end of file.
write_ignored(c) ==
    /\ phase[c] \in {"ok", "fetched"} /\ ~live[c]
    /\ lost' = lost \cup {[row |-> r, why |-> "gone"] : r \in InFlight(c)}
    /\ phase' = [phase EXCEPT ![c] = "closed"]
    /\ batch' = [batch EXCEPT ![c] = {}]
    /\ UNCHANGED <<rows, next_id, live, pend, skipped, todo, clock, faults,
                   got>>

\* A reset connection: read_line fails before the line was read.
read_error(c) ==
    /\ phase[c] \in {"send", "receive"} /\ ~live[c]
    /\ phase' = [phase EXCEPT ![c] = "closed"]
    /\ pend' = [pend EXCEPT ![c] = {}]
    /\ UNCHANGED <<rows, next_id, live, batch, skipped, todo, clock, faults,
                   got, lost>>

\* Variant with a fault, for checking the properties: the table in memory
\* only, as before store.rs.
Restart_in_memory ==
    /\ faults < MaxFaults
    /\ rows' = {}
    /\ lost' = lost \cup {[row |-> r, why |-> "crash"] :
                            r \in UNION {InFlight(c) : c \in Conns}}
    /\ phase' = [c \in Conns |-> "closed"]
    /\ live' = [c \in Conns |-> FALSE]
    /\ pend' = [c \in Conns |-> {}]
    /\ batch' = [c \in Conns |-> {}]
    /\ skipped' = [c \in Conns |-> {}]
    /\ todo' = [c \in Conns |-> {}]
    /\ faults' = faults + 1
    /\ UNCHANGED <<next_id, clock, got>>

\* The server process dies and is started again on the same database.
Restart ==
    /\ faults < MaxFaults
    /\ lost' = lost \cup {[row |-> r, why |-> "crash"] :
                            r \in UNION {InFlight(c) : c \in Conns}}
    /\ phase' = [c \in Conns |-> "closed"]
    /\ live' = [c \in Conns |-> FALSE]
    /\ pend' = [c \in Conns |-> {}]
    /\ batch' = [c \in Conns |-> {}]
    /\ skipped' = [c \in Conns |-> {}]
    /\ todo' = [c \in Conns |-> {}]
    /\ faults' = faults + 1
    /\ UNCHANGED <<rows, next_id, clock, got>>
-----------------------------------------------------------------------------
handle_client(c) ==
    \/ handle_send(c) \/ handle_send_error(c)
    \/ fetch_select(c) \/ fetch_select_skips(c) \/ fetch_delete(c)
    \/ fetch_receipt(c) \/ fetch_return(c) \/ fetch_error(c)
    \/ write_ignored(c) \/ read_error(c)

Client(c) ==
    \/ Connect(c) \/ SendCmd(c) \/ ReceiveCmd(c)
    \/ ReadResponse(c) \/ Disconnect(c)

Next == (\E c \in Conns : Client(c) \/ handle_client(c)) \/ Restart

Spec == Init /\ [][Next]_vars

(***************************************************************************)
(* Fairness: a task that can run is run, and a waiting client reads its    *)
(* answer.  That users type commands, and faults, are not fair.  The mutex *)
(* is not FIFO; weak fairness suffices because commands are bounded.       *)
(***************************************************************************)
FairSpec ==
    /\ Spec
    /\ \A c \in Conns :
        WF_vars(\/ handle_send(c) \/ fetch_select(c) \/ fetch_delete(c)
                \/ fetch_receipt(c) \/ fetch_return(c) \/ write_ignored(c)
                \/ ReadResponse(c))
-----------------------------------------------------------------------------
TypeOK ==
    /\ rows \in SUBSET Rows /\ next_id \in Nat \ {0}
    /\ phase \in [Conns -> Phases]
    /\ live \in [Conns -> BOOLEAN]
    /\ pend \in [Conns -> SUBSET Envelopes]
    /\ batch \in [Conns -> SUBSET Rows]
    /\ skipped \in [Conns -> SUBSET Rows]
    /\ todo \in [Conns -> SUBSET Rows]
    /\ clock \in 0..MaxCmds /\ faults \in 0..MaxFaults
    /\ got \in [Conns -> SUBSET Rows]
    /\ lost \in SUBSET [row : Rows, why : Causes]

\* Every row ever inserted that can still be accounted for.
Received == UNION {got[c] : c \in Conns}
Flying == UNION {InFlight(c) : c \in Conns}
Known == rows \cup Flying \cup Received \cup Sunk

(***************************************************************************)
(* NothingVanishes: every id the table ever gave out belongs to a row that *)
(* is queued, on its way in a response, received, or lost in one of the    *)
(* four named ways; and as long as nothing fails, none is lost.  In        *)
(* particular the DELETE of fetch_messages, which names a user and no ids, *)
(* removes no row that its SELECT did not come across, whatever the other  *)
(* handlers do meanwhile.                                                  *)
(***************************************************************************)
EveryRowKnown == \A i \in 1..(next_id - 1) : \E r \in Known : r.id = i
OnlyFaultsLose == faults = 0 => lost = {}

NothingVanishes == EveryRowKnown /\ OnlyFaultsLose

(***************************************************************************)
(* AtMostOnce: a row is in at most one place; it is never handed to a      *)
(* client while it is still queued or also handed to another connection.   *)
(***************************************************************************)
AtMostOnce ==
    /\ \A r, s \in Known : r.id = s.id => r = s
    /\ rows \cap (Flying \cup Received \cup Sunk) = {}
    /\ Flying \cap (Received \cup Sunk) = {}
    /\ Received \cap Sunk = {}
    /\ \A c, d \in Conns : c # d => InFlight(c) \cap InFlight(d) = {}

(***************************************************************************)
(* OldestFirst: what a connection carries is newer than all that was read  *)
(* on it, and what a user still has in the table is newer than all that    *)
(* any connection of the user has handed over (ORDER BY id and a DELETE    *)
(* that empties the box, in fetch_messages).  Several connections of one   *)
(* user may be answered in any order, but the batches they carry do not    *)
(* interleave: one of them is older than the other, whole.                 *)
(***************************************************************************)
Older(A, B) == \A r \in A, s \in B : r.id < s.id

OldestFirst ==
    /\ \A c \in Conns : /\ Older(got[c], select_for(rows, owner[c]))
                        /\ Older(got[c], InFlight(c))
    /\ \A c, d \in Conns : c # d /\ owner[c] = owner[d] =>
         Older(InFlight(c), InFlight(d)) \/ Older(InFlight(d), InFlight(c))

\* r is the delivery receipt of message m.
ReceiptOf(r, m) ==
    /\ r.env.receipt = "Delivery"
    /\ IsMessage(m.env)
    /\ r.env.from = m.env.to /\ r.env.to = m.env.from
    /\ r.env.about = m.env.ts

(***************************************************************************)
(* ReceiptSound: a delivery receipt exists only for a user's message that  *)
(* has left the queue, and only one per message; there is none for a       *)
(* receipt ("avoiding infinite loops", store.rs).                          *)
(***************************************************************************)
ReceiptSound ==
    /\ \A r \in Known : r.env.receipt = "Delivery" =>
         \E m \in Known \ rows : ReceiptOf(r, m) /\ m.id < r.id
    /\ \A m, r, s \in Known : ReceiptOf(r, m) /\ ReceiptOf(s, m) => r = s

(***************************************************************************)
(* ReceiptBeforeDelivery: when a user has received a message, its delivery *)
(* receipt has been queued already, so no crash can separate the two.      *)
(***************************************************************************)
ReceiptBeforeDelivery ==
    \A m \in Received : IsMessage(m.env) => \E r \in Known : ReceiptOf(r, m)

(***************************************************************************)
(* CommandAnswered: a command a client has written is eventually answered, *)
(* or its connection is closed; the handlers never block each other for    *)
(* good on the store's mutex.                                              *)
(***************************************************************************)
CommandAnswered ==
    \A c \in Conns :
        phase[c] \in {"send", "receive"} ~> phase[c] \in {"idle", "closed"}
-----------------------------------------------------------------------------
(***************************************************************************)
(* The relay implements the mailbox: a user's box is what the table holds  *)
(* for that user, a connection carries the batch of its response.          *)
(***************************************************************************)
Boxes == INSTANCE Mailbox WITH
            Owners <- Users, Carriers <- Conns, serves <- owner,
            box <- [u \in Users |-> select_for(rows, u)],
            carried <- [c \in Conns |-> InFlight(c)],
            handed <- got, dropped <- Sunk, top <- next_id

\* ImplementsMailbox: every step of the relay, faults included, is a step of
\* the mailbox or leaves it unchanged.
ImplementsMailbox == Boxes!Spec
=============================================================================
