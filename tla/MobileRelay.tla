---------------------------- MODULE MobileRelay ----------------------------
(***************************************************************************)
(* The mobile apps' clients of the relay: RelayService of Android and of   *)
(* iOS, with the screens that poll, fetch keys and send.                   *)
(*                                                                         *)
(* A behaviour is one app, of either platform.  Its calls share a socket.  *)
(* A call writes a line and then reads one, and nothing ties the answer to *)
(* the question but the order of the stream.                               *)
(*   Android: the write is synchronized and has no timeout, the read is    *)
(*     not synchronized and gives up after the socket's.  receive and      *)
(*     fetchKeys run on worker threads, the commands of sendCommand on the *)
(*     thread of their caller, which is the main one: there the platform   *)
(*     refuses the write.  A screen that is left cancels its calls; the    *)
(*     blocking read under way goes on and its result is thrown away.      *)
(*   iOS: an actor, entered by others while a call waits.  A read takes    *)
(*     whatever bytes are there for one answer, and waits without limit.   *)
(***************************************************************************)
EXTENDS Integers, Sequences, SequencesExt, FiniteSets

CONSTANTS MaxCalls,  \* bound: calls made
          MaxConns,  \* bound: connections made
          MaxMail,   \* bound: messages sent to the user
          MaxFaults  \* bound: closed connections and screens left

ASSUME MobileAssumption ==
    {MaxCalls, MaxConns, MaxMail, MaxFaults} \subseteq Nat

VARIABLES platform,  \* "android" or "ios"
          relay,     \* the connection that calls begin on, or None
          conns,     \* connections made
          open,      \* those not closed
          up,        \* [Conns -> the calls whose line waits at the relay]
          down,      \* [Conns -> pieces of answers not yet read]
          call,      \* [Calls -> what has become of the call]
          calls,     \* calls begun
          queue,     \* the user's messages at the relay: <<[id, fate], ...>>
          mailed, handled,
          faults,
          \* history, read by no action of the program:
          accepted,  \* sends that the relay has accepted
          gaveUp,    \* [Conns -> reads that timed out]
          crossed    \* connections that had two calls at a time, a timeout or
                     \* a read that was not of one whole answer

vars == <<platform, relay, conns, open, up, down, call, calls, queue, mailed,
          handled, faults, accepted, gaveUp, crossed>>

None == 0
Calls == 1..MaxCalls
Conns == 1..MaxConns
Kinds == {"receive", "fetch", "send"}

\* What an app can make of a message: decrypt it; pass over it, as a receipt
\* or of a sender without a session; fail to decrypt it.
Fates == {"good", "skipped", "bad"}
NoAnswer == [to |-> None, mail |-> <<>>, ok |-> FALSE]
NoCall == [pc |-> "none", kind |-> "none", on |-> None, cancelled |-> FALSE,
           got |-> NoAnswer]

Init ==
    /\ platform \in {"android", "ios"}
    /\ relay = None /\ conns = 0 /\ open = {}
    /\ up = [c \in Conns |-> <<>>] /\ down = [c \in Conns |-> <<>>]
    /\ call = [n \in Calls |-> NoCall] /\ calls = 0
    /\ queue = <<>> /\ mailed = 0 /\ handled = {}
    /\ faults = 0 /\ accepted = {}
    /\ gaveUp = [c \in Conns |-> 0] /\ crossed = {}

mailbox == <<queue, mailed, handled>>
links == <<relay, conns, open>>
Fault == faults < MaxFaults /\ faults' = faults + 1

\* A command of Android keeps the main thread while it waits for its turn to
\* write.
Blocked ==
    platform = "android" /\ \E n \in Calls :
        call[n].kind = "send" /\ call[n].pc = "write"
-----------------------------------------------------------------------------
(***************************************************************************)
(* Connections.                                                            *)
(***************************************************************************)
\* Android makes a new RelayService and leaves the old one as it is; iOS
\* disconnects first.
connect ==
    /\ conns < MaxConns /\ ~Blocked
    /\ conns' = conns + 1 /\ relay' = conns + 1
    /\ open' = (IF platform = "ios" THEN open \ {relay} ELSE open) \cup {conns + 1}
    /\ UNCHANGED <<platform, up, down, call, calls, mailbox, faults, accepted,
                   gaveUp, crossed>>

\* iOS only: the button of the chat list.
disconnect ==
    /\ platform = "ios" /\ relay # None
    /\ open' = open \ {relay} /\ relay' = None
    /\ UNCHANGED <<platform, conns, up, down, call, calls, mailbox, faults,
                   accepted, gaveUp, crossed>>

\* The relay or the network ends a connection; what was in it is gone.
close(c) ==
    /\ c \in open /\ Fault
    /\ open' = open \ {c}
    /\ UNCHANGED <<platform, relay, conns, up, down, call, calls, mailbox,
                   accepted, gaveUp, crossed>>
-----------------------------------------------------------------------------
(***************************************************************************)
(* Calls.                                                                  *)
(***************************************************************************)
InFlight(c) == {n \in Calls : call[n].on = c /\ call[n].pc = "read"}

\* The timer polls, the user sends a message or starts a chat.
begin(kind) ==
    /\ relay # None /\ ~Blocked /\ calls < MaxCalls
    /\ calls' = calls + 1
    /\ call' = [call EXCEPT ![calls + 1] =
                  [NoCall EXCEPT !.pc = "write", !.kind = kind, !.on = relay]]
    /\ UNCHANGED <<platform, links, up, down, mailbox, faults, accepted, gaveUp,
                   crossed>>

Fails(n) == call' = [call EXCEPT ![n].pc = "done"]

\* The line is with the relay.
Written(n) ==
    LET c == call[n].on
    IN /\ call' = [call EXCEPT ![n].pc = "read"]
       /\ up' = [up EXCEPT ![c] = Append(@, n)]
       /\ crossed' = IF InFlight(c) = {} THEN crossed ELSE crossed \cup {c}

\* Android: sendJson is entered by one call of the connection at a time; on the
\* main thread the platform refuses it.  iOS: the line is sent; a closed
\* connection throws.
sendJson(n) ==
    LET c == call[n].on
    IN /\ call[n].pc = "write"
       /\ \/ /\ platform = "android"
             /\ \A m \in Calls : ~(call[m].on = c /\ call[m].pc = "flush")
             /\ IF call[n].kind = "send" THEN Fails(n)
                ELSE call' = [call EXCEPT ![n].pc = "flush"]
             /\ UNCHANGED <<up, crossed>>
          \/ platform = "ios" /\ c \in open /\ Written(n)
          \/ platform = "ios" /\ c \notin open /\ Fails(n)
             /\ UNCHANGED <<up, crossed>>
       /\ UNCHANGED <<platform, links, down, calls, mailbox, faults, accepted,
                      gaveUp>>

\* Android: the socket takes the line, or throws when it is closed.
flush(n) ==
    /\ call[n].pc = "flush"
    /\ \/ call[n].on \in open /\ Written(n)
       \/ call[n].on \notin open /\ Fails(n) /\ UNCHANGED <<up, crossed>>
    /\ UNCHANGED <<platform, links, down, calls, mailbox, faults, accepted,
                   gaveUp>>

\* The call has an answer, and goes back with it to the main thread or actor.
Answered(n, a) == call' = [call EXCEPT ![n].got = a, ![n].pc = "resume"]

Answer(p) == [to |-> p.to, mail |-> p.mail, ok |-> p.ok]
LineEnds(c) == {k \in DOMAIN down[c] : down[c][k].last}

\* Variant with a fault, for checking the properties: the line is not consumed.
readLine_peek(n) ==
    LET c == call[n].on
    IN /\ platform = "android" /\ call[n].pc = "read" /\ c \in open
       /\ LineEnds(c) # {}
       /\ Answered(n, Answer(down[c][1]))
       /\ UNCHANGED <<platform, links, up, down, calls, mailbox, faults,
                      accepted, gaveUp, crossed>>

\* Android: the first line, to whichever reader comes first.  The rest of a
\* line is no answer.
readLine(n) ==
    LET c == call[n].on
    IN /\ platform = "android" /\ call[n].pc = "read" /\ c \in open
       /\ LineEnds(c) # {}
       /\ IF down[c][1].first THEN Answered(n, Answer(down[c][1])) ELSE Fails(n)
       /\ down' = [down EXCEPT ![c] = SubSeq(@, Min(LineEnds(c)) + 1, Len(@))]
       /\ UNCHANGED <<platform, links, up, calls, mailbox, faults, accepted,
                      gaveUp, crossed>>

\* Variant with a fault, for checking the properties: no timeout is set.
readTimesOut_never(n) == FALSE /\ UNCHANGED vars

\* Android: nothing to read for ten seconds, at the beginning of a line or in
\* the middle of one, whose part read is then lost.  What comes after stays in
\* the stream.
readTimesOut(n) ==
    LET c == call[n].on
    IN /\ platform = "android" /\ call[n].pc = "read" /\ c \in open
       /\ down[c] # <<>> => ~down[c][1].last
       /\ Fails(n)
       /\ down' = [down EXCEPT ![c] = SubSeq(@, 2, Len(@))]
       /\ gaveUp' = [gaveUp EXCEPT ![c] = @ + 1]
       /\ crossed' = crossed \cup {c}
       /\ UNCHANGED <<platform, links, up, calls, mailbox, faults, accepted>>

\* The pieces are one answer, whole.
OneAnswer(s) ==
    /\ s[1].first /\ s[Len(s)].last
    /\ \A i \in 1..(Len(s) - 1) : ~s[i].last

\* iOS: the oldest reader takes the bytes that are there.
receiveBytes(n) ==
    LET c == call[n].on
    IN /\ platform = "ios" /\ call[n].pc = "read" /\ c \in open
       /\ \A m \in InFlight(c) : n =< m
       /\ \E k \in DOMAIN down[c] :
           LET s == SubSeq(down[c], 1, k)
           IN /\ down' = [down EXCEPT ![c] = SubSeq(@, k + 1, Len(@))]
              /\ IF OneAnswer(s)
                 THEN Answered(n, Answer(s[1])) /\ UNCHANGED crossed
                 ELSE Fails(n) /\ crossed' = crossed \cup {c}
       /\ UNCHANGED <<platform, links, up, calls, mailbox, faults, accepted,
                      gaveUp>>

\* Both: the connection is closed, and with it the stream.
readFails(n) ==
    /\ call[n].pc = "read" /\ call[n].on \notin open
    /\ Fails(n)
    /\ UNCHANGED <<platform, links, up, down, calls, mailbox, faults, accepted,
                   gaveUp, crossed>>

\* Android: the screen is left.  A call that has not begun its work does not;
\* one that has goes on, for nothing.
leaveScreen(n) ==
    /\ platform = "android" /\ ~Blocked /\ Fault
    /\ call[n].kind # "send" /\ ~call[n].cancelled
    /\ \/ call[n].pc = "write" /\ Fails(n)
       \/ /\ call[n].pc \in {"write", "flush", "read", "resume"}
          /\ call' = [call EXCEPT ![n].cancelled = TRUE]
    /\ UNCHANGED <<platform, links, up, down, calls, mailbox, accepted, gaveUp,
                   crossed>>
-----------------------------------------------------------------------------
(***************************************************************************)
(* What the screens make of an answer.                                     *)
(***************************************************************************)
\* Variant with a fault, for checking the properties: a message that does not
\* decrypt ends the loop.
Shown_android_stops(mail) ==
    {mail[i].id : i \in {j \in DOMAIN mail : /\ mail[j].fate = "good"
                                           /\ \A k \in 1..j : mail[k].fate # "bad"}}

\* Android catches the failure of each message by itself.
Shown_android(mail) ==
    {mail[i].id : i \in {j \in DOMAIN mail : mail[j].fate = "good"}}

\* iOS leaves the loop at the first that fails.
Shown_ios(mail) ==
    {mail[i].id : i \in {j \in DOMAIN mail : /\ mail[j].fate = "good"
                                           /\ \A k \in 1..j : mail[k].fate # "bad"}}

\* The result is back on the main thread.  An answer to another question has
\* no messages.
resume(n) ==
    /\ call[n].pc = "resume" /\ ~Blocked
    /\ call' = [call EXCEPT ![n].pc = "done"]
    /\ handled' = IF call[n].kind # "receive" \/ call[n].cancelled THEN handled
                  ELSE handled \cup IF platform = "android"
                                    THEN Shown_android(call[n].got.mail)
                                    ELSE Shown_ios(call[n].got.mail)
    /\ UNCHANGED <<platform, links, up, down, calls, queue, mailed, faults,
                   accepted, gaveUp, crossed>>
-----------------------------------------------------------------------------
(***************************************************************************)
(* The relay (see Relay): lines are handled in order, one answer each.     *)
(***************************************************************************)
Pieces(a, split) ==
    LET p == [to |-> a.to, mail |-> a.mail, ok |-> a.ok, first |-> TRUE,
              last |-> TRUE]
    IN IF split THEN <<[p EXCEPT !.last = FALSE], [p EXCEPT !.first = FALSE]>>
       ELSE <<p>>

\* handle_receive hands out the queue and empties it; handle_send accepts or
\* refuses.  An answer with messages may arrive in two pieces.
serve(c) ==
    /\ c \in open /\ up[c] # <<>>
    /\ LET n == Head(up[c])
           polled == call[n].kind = "receive"
       IN \E ok \in (IF call[n].kind = "send" THEN BOOLEAN ELSE {TRUE}),
             split \in (IF polled /\ queue # <<>> THEN BOOLEAN ELSE {FALSE}) :
           /\ down' = [down EXCEPT ![c] = @ \o
                Pieces([to |-> n, ok |-> ok,
                        mail |-> IF polled THEN queue ELSE <<>>], split)]
           /\ queue' = IF polled THEN <<>> ELSE queue
           /\ accepted' = IF ok /\ call[n].kind = "send" THEN accepted \cup {n}
                          ELSE accepted
    /\ up' = [up EXCEPT ![c] = Tail(@)]
    /\ UNCHANGED <<platform, links, call, calls, mailed, handled, faults, gaveUp,
                   crossed>>

\* A peer, or the relay with a receipt, sends the user a message.
mail(fate) ==
    /\ mailed < MaxMail /\ mailed' = mailed + 1
    /\ queue' = Append(queue, [id |-> mailed + 1, fate |-> fate])
    /\ UNCHANGED <<platform, links, up, down, call, calls, handled, faults,
                   accepted, gaveUp, crossed>>

Client(n) ==
    \/ sendJson(n) \/ readLine(n) \/ readTimesOut(n) \/ receiveBytes(n)
    \/ readFails(n) \/ resume(n)

Next ==
    \/ connect \/ disconnect
    \/ \E kind \in Kinds : begin(kind)
    \/ \E n \in Calls : Client(n) \/ flush(n) \/ leaveScreen(n)
    \/ \E c \in Conns : close(c) \/ serve(c)
    \/ \E fate \in Fates : mail(fate)

\* A call that can go on does, but a write may last for ever; nothing is asked
\* of the relay.
Spec == Init /\ [][Next]_vars /\ \A n \in Calls : WF_vars(Client(n))
-----------------------------------------------------------------------------
Mail == [id : 1..MaxMail, fate : Fates]

TypeOK ==
    /\ relay \in 0..conns /\ conns \in 0..MaxConns /\ open \subseteq 1..conns
    /\ \A c \in Conns :
        /\ up[c] \in Seq(1..calls)
        /\ \A i \in DOMAIN down[c] : down[c][i].to \in 1..calls
    /\ calls \in 0..MaxCalls /\ handled \subseteq 1..mailed
    /\ queue \in Seq(Mail) /\ mailed \in 0..MaxMail /\ faults \in 0..MaxFaults
    /\ \A n \in Calls :
        /\ call[n].pc \in {"none", "write", "flush", "read", "resume", "done"}
        /\ call[n].pc = "resume" => call[n].got # NoAnswer
        /\ n > calls <=> call[n] = NoCall
    /\ \A n, m \in Calls :
         call[n].pc = "flush" /\ call[m].pc = "flush" /\ call[n].on = call[m].on
             => n = m
    /\ accepted \subseteq 1..calls /\ crossed \subseteq 1..conns

(***************************************************************************)
(* InStep: on a connection that never had two calls at a time, a timeout   *)
(* or (iOS) a read of less or more than one answer, every call that was    *)
(* answered was answered with its own: a send is reported as done only if  *)
(* the relay accepted that very message.                                   *)
(***************************************************************************)
InStep ==
    \A n \in Calls : call[n].got # NoAnswer /\ call[n].on \notin crossed =>
        /\ call[n].got.to = n
        /\ call[n].kind = "send" /\ call[n].got.ok => n \in accepted

(***************************************************************************)
(* LagIsTimeouts: on Android every timeout leaves the stream one answer    *)
(* behind for good, and nothing else does: the lines a connection still    *)
(* owes are those of its readers and one for each read that gave up.       *)
(***************************************************************************)
LagIsTimeouts ==
    platform = "android" => \A c \in open :
        Len(up[c]) + Cardinality(LineEnds(c)) = Cardinality(InFlight(c)) + gaveUp[c]

Ids(s) == {s[i].id : i \in DOMAIN s}
InTransit ==
    UNION {UNION {Ids(down[c][i].mail) : i \in DOMAIN down[c]} : c \in Conns}
InHand == UNION {Ids(call[n].got.mail) :
                    n \in {m \in Calls : call[m].pc = "resume"}}

\* Something happened that may cost messages: a connection was crossed or
\* closed, or a screen was left.
Spoilt ==
    \/ crossed # {} \/ open # 1..conns
    \/ \E n \in Calls : call[n].cancelled

\* A message that reached a screen and was not shown: it was passed over or did
\* not decrypt, or, on iOS, one before it in the same answer did not decrypt.
Refused(m) ==
    \E n \in Calls : LET s == call[n].got.mail
                     IN \E i \in DOMAIN s :
                         /\ s[i].id = m
                         /\ \/ s[i].fate # "good"
                            \/ platform = "ios" /\ \E k \in 1..i : s[k].fate = "bad"

(***************************************************************************)
(* MailKept: the relay forgets a message when it hands it out, so from     *)
(* then on the app alone has it.  As long as no calls cross, no connection *)
(* is lost and no screen is left, every message waits at the relay, is on  *)
(* its way or is shown, except those passed over or not decrypted; on      *)
(* Android such a message costs no other, on iOS one that does not decrypt *)
(* costs the rest of its batch.                                            *)
(***************************************************************************)
MailKept ==
    ~Spoilt => \A m \in 1..mailed :
        m \in Ids(queue) \cup InTransit \cup InHand \cup handled \/ Refused(m)

(***************************************************************************)
(* ReadsEnd: on Android a call whose line is written does not wait for     *)
(* ever, whatever the relay does and even if another call read its answer  *)
(* ("sock.soTimeout = 10_000").  A write may: nothing limits it.           *)
(***************************************************************************)
ReadsEnd ==
    \A n \in Calls : (platform = "android" /\ call[n].pc = "read")
                         ~> (call[n].pc # "read")
=============================================================================
