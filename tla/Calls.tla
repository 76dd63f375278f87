------------------------------- MODULE Calls --------------------------------
(***************************************************************************)
(* Calls of the CLI client: start_call, accept_call, end_call,             *)
(* process_call_signal, send_call_media and process_media_chunk of         *)
(* tintin-cli/src/main.rs.                                                 *)
(*                                                                         *)
(* Signals and media are messages like any other: the relay keeps them in  *)
(* order (see Relay) and either they decrypt or they are lost.  Of the     *)
(* sessions of Messaging only their existence is kept: it decides whether  *)
(* a message goes out as the first of a session, and media is looked for   *)
(* in those only.  Messages are handled one by one; handling a fetched     *)
(* batch at once differs only in when its later messages were queued,      *)
(* which nobody observes.  A media key pair is a fresh name <<user, n>>;   *)
(* key agreement of two keys is the set of both.                           *)
(***************************************************************************)
EXTENDS Integers, Sequences, FiniteSets

CONSTANTS Users,
          MaxCalls,    \* bound: calls started
          MaxAccepts,  \* bound: /accept commands
          MaxStreams,  \* bound: /callstream commands
          MaxChunks,   \* bound: chunks of a stream
          MaxFaults    \* bound: refused sends and lost messages

ASSUME CallsAssumption == {MaxCalls, MaxAccepts, MaxStreams, MaxChunks, MaxFaults}
                             \subseteq Nat

VARIABLES call,       \* [Users -> {} or {active_call}]
          queue,      \* [Users -> messages waiting]
          sessions,   \* [Users -> peers there is a session with]
          keys,       \* [Users -> key pairs generated]
          recordings, \* [by, id]: media of user `by' in call id written to disk
          calls, streams, faults,
          \* history, read by no action of the program:
          accepted,   \* [by, id, key] of every call_accept
          crossed,    \* <<u, id>>: u applied an accept of another call to id
          ended,      \* ids of calls that a call_end was sent for
          streamed    \* [by, id] of every stream that was sent to its end

vars == <<call, queue, sessions, keys, recordings, calls, streams, faults,
          accepted, crossed, ended, streamed>>
mediaVars == <<recordings, streams, streamed>>

Init ==
    /\ call = [u \in Users |-> {}]
    /\ queue = [u \in Users |-> <<>>]
    /\ sessions = [u \in Users |-> {}]
    /\ keys = [u \in Users |-> 0]
    /\ recordings = {}
    /\ calls = 0 /\ streams = 0 /\ faults = 0
    /\ accepted = {} /\ crossed = {} /\ ended = {} /\ streamed = {}

\* KeyPair::generate.
Fresh(u) == <<u, keys[u] + 1>>
generate(u) == keys' = [keys EXCEPT ![u] = @ + 1]

\* KeyPair::agree: the same for both ends.
agree(key, peer_key) == {key, peer_key}

\* The first k of `messages' are accepted and the next one refused, which ends
\* the command.  The session is made before the first of them is sent, unless
\* already the peer's bundle is refused; one sends to oneself without.
send_all(u, peer, messages, k) ==
    LET with == IF peer = u THEN sessions
                ELSE [sessions EXCEPT ![u] = @ \cup {peer}]
        first(i) == i = 1 /\ peer # u /\ peer \notin sessions[u]
    IN /\ k = Len(messages) \/ faults < MaxFaults
       /\ faults' = IF k = Len(messages) THEN faults ELSE faults + 1
       /\ sessions' \in IF k = 0 THEN {sessions, with} ELSE {with}
       /\ queue' = [queue EXCEPT ![peer] = @ \o
                       [i \in 1..k |-> [messages[i] EXCEPT !.first = first(i)]]]

\* send_message: refused, or queued for the peer.
send_message(u, peer, signal, ok) ==
    send_all(u, peer, <<signal>>, IF ok THEN 1 ELSE 0)

Signal(type, u, id, key) ==
    [type |-> type, from |-> u, first |-> FALSE, id |-> id, key |-> key]

\* The placeholder for a key in a signal that carries none.
NoKey == <<>>
-----------------------------------------------------------------------------
\* /call: the call is Offering before the offer is sent, and stays so if the
\* send fails.
start_call(u, peer, ok) ==
    /\ call[u] = {} /\ calls < MaxCalls
    /\ calls' = calls + 1
    /\ generate(u)
    /\ call' = [call EXCEPT ![u] =
                  {[peer |-> peer, id |-> Fresh(u), key |-> Fresh(u),
                    peer_key |-> {}, secret |-> {}, state |-> "Offering"]}]
    /\ send_message(u, peer, Signal("call_offer", u, Fresh(u), Fresh(u)), ok)
    /\ UNCHANGED <<accepted, crossed, ended, mediaVars>>

\* Variant with a fault, for checking the properties: the secret is derived
\* from the placeholder key.
accept_call_old_key(u, ok) ==
    \E c \in call[u] :
        /\ Cardinality(accepted) < MaxAccepts
        /\ generate(u)
        /\ call' = [call EXCEPT ![u] =
              {[c EXCEPT !.state = "Connected", !.key = Fresh(u),
                         !.secret = UNION {agree(c.key, k) : k \in c.peer_key}]}]
        /\ send_message(u, c.peer,
                        Signal("call_accept", u, c.id, Fresh(u)), ok)
        /\ accepted' = accepted \cup
                         {[by |-> u, id |-> c.id, key |-> Fresh(u)]}
        /\ UNCHANGED <<calls, crossed, ended, mediaVars>>

\* /accept <call_id>: whatever the state of the call; a new key, the secret
\* if the peer's key is known, then the signal.
accept_call(u, ok) ==
    \E c \in call[u] :
        /\ Cardinality(accepted) < MaxAccepts
        /\ generate(u)
        /\ call' = [call EXCEPT ![u] =
              {[c EXCEPT !.state = "Connected", !.key = Fresh(u),
                         !.secret = IF c.peer_key = {} THEN @
                                    ELSE UNION {agree(Fresh(u), k) :
                                                  k \in c.peer_key}]}]
        /\ send_message(u, c.peer,
                        Signal("call_accept", u, c.id, Fresh(u)), ok)
        /\ accepted' = accepted \cup
                         {[by |-> u, id |-> c.id, key |-> Fresh(u)]}
        /\ UNCHANGED <<calls, crossed, ended, mediaVars>>

\* /end: the call is forgotten only after call_end was sent.
end_call(u, ok) ==
    \E c \in call[u] :
        /\ send_message(u, c.peer, Signal("call_end", u, c.id, NoKey), ok)
        /\ call' = IF ok THEN [call EXCEPT ![u] = {}] ELSE call
        /\ ended' = IF ok THEN ended \cup {c.id} ELSE ended
        /\ UNCHANGED <<keys, calls, accepted, crossed, mediaVars>>
-----------------------------------------------------------------------------
\* The next decrypted signal; what one sends to oneself is saved as text.
NextSignal(u, type) ==
    /\ queue[u] # <<>> /\ Head(queue[u]).type = type
    /\ Head(queue[u]).from # u
    /\ Head(queue[u]).first \/ Head(queue[u]).from \in sessions[u]
    /\ queue' = [queue EXCEPT ![u] = Tail(@)]
    /\ sessions' = [sessions EXCEPT ![u] = @ \cup {Head(queue[u]).from}]

\* call_offer: replaces whatever call there was.
process_call_offer(u) ==
    /\ NextSignal(u, "call_offer")
    /\ generate(u)
    /\ LET m == Head(queue[u])
       IN call' = [call EXCEPT ![u] =
                     {[peer |-> m.from, id |-> m.id, key |-> Fresh(u),
                       peer_key |-> {m.key}, secret |-> {},
                       state |-> "Ringing"]}]
    /\ UNCHANGED <<calls, faults, accepted, crossed, ended, mediaVars>>

\* call_accept: connects the current call unless it is connected already;
\* neither the sender nor the call id is compared.
process_call_accept(u) ==
    /\ NextSignal(u, "call_accept")
    /\ LET m == Head(queue[u])
           waiting == {c \in call[u] : c.state \in {"Offering", "Ringing"}}
       IN /\ call' = [call EXCEPT ![u] =
                IF waiting = {} THEN @
                ELSE {[c EXCEPT !.peer_key = {m.key}, !.state = "Connected",
                                !.secret = agree(c.key, m.key)] : c \in waiting}]
          /\ crossed' = crossed \cup
                {<<u, c.id>> : c \in {d \in waiting : d.id # m.id \/ d.peer # m.from}}
    /\ UNCHANGED <<keys, calls, faults, accepted, ended, mediaVars>>

\* Variant with a fault, for checking the properties: a call that is not
\* connected rings on.
process_call_end_connected(u) ==
    /\ NextSignal(u, "call_end")
    /\ call' = [call EXCEPT ![u] = {c \in @ : c.state # "Connected"}]
    /\ UNCHANGED <<keys, calls, faults, accepted, crossed, ended, mediaVars>>

\* call_end: ends the current call, whichever it is.
process_call_end(u) ==
    /\ NextSignal(u, "call_end")
    /\ call' = [call EXCEPT ![u] = {}]
    /\ UNCHANGED <<keys, calls, faults, accepted, crossed, ended, mediaVars>>

\* A message to oneself is no signal; one without a session is reported; one
\* that does not decrypt, or was in a response that was lost, has no effect.
pass_over(u) ==
    /\ queue[u] # <<>>
    /\ LET m == Head(queue[u])
       IN \/ /\ m.from = u \/ ~(m.first \/ m.from \in sessions[u])
             /\ UNCHANGED faults
          \/ /\ m.from # u
             /\ faults < MaxFaults /\ faults' = faults + 1
    /\ queue' = [queue EXCEPT ![u] = Tail(@)]
    /\ UNCHANGED <<call, sessions, keys, calls, accepted, crossed, ended,
                   mediaVars>>

process_call_signal(u) ==
    process_call_offer(u) \/ process_call_accept(u) \/ process_call_end(u)
-----------------------------------------------------------------------------
\* cipher::encrypt: the ciphertext is bound to the key and to a nonce drawn at
\* random; cipher::decrypt needs both.
encrypt(secret) == [secret |-> secret, nonce |-> "random"]
decrypts(data, secret, nonce) == data = [secret |-> secret, nonce |-> nonce]

\* One payload of a stream: it carries a nonce made of the chunk's number, the
\* one encrypt returned is dropped.
MediaChunk(u, c, last) ==
    [type |-> "media_chunk", from |-> u, first |-> FALSE, id |-> c.id,
     end |-> last, data |-> encrypt(c.secret), nonce |-> "counter"]

\* /callstream: count chunks and the end marker, until one of them is refused.
send_call_media(u, count, k) ==
    \E c \in call[u] :
        /\ c.state = "Connected" /\ c.secret # {}
        /\ streams < MaxStreams /\ streams' = streams + 1
        /\ k =< count + 1
        /\ send_all(u, c.peer,
                    [i \in 1..(count + 1) |-> MediaChunk(u, c, i = count + 1)], k)
        /\ streamed' = IF k = count + 1 THEN streamed \cup {[by |-> u, id |-> c.id]}
                       ELSE streamed
        /\ UNCHANGED <<call, keys, recordings, calls, accepted, crossed, ended>>

\* A media chunk: only in the first message of a session, and only from the
\* peer of a call with a secret, it is decrypted and written; any other is
\* displayed as text.
process_media_chunk(u) ==
    /\ NextSignal(u, "media_chunk")
    /\ LET m == Head(queue[u])
           with == {c \in call[u] : /\ m.first /\ ~m.end
                                    /\ c.peer = m.from /\ c.secret # {}}
       IN recordings' = recordings \cup
             {[by |-> m.from, id |-> m.id] :
                c \in {d \in with : decrypts(m.data, d.secret, m.nonce)}}
    /\ UNCHANGED <<call, keys, calls, streams, faults, accepted, crossed, ended,
                   streamed>>

Next ==
    \E u \in Users :
        \/ \E ok \in BOOLEAN :
            \/ \E peer \in Users : start_call(u, peer, ok)
            \/ accept_call(u, ok) \/ end_call(u, ok)
        \/ \E count \in 1..MaxChunks, k \in 0..(MaxChunks + 1) :
              send_call_media(u, count, k)
        \/ process_call_signal(u) \/ process_media_chunk(u) \/ pass_over(u)

Spec == Init /\ [][Next]_vars
-----------------------------------------------------------------------------
Keys == Users \X (Nat \ {0})
ActiveCalls == [peer : Users, id : Keys, key : Keys, peer_key : SUBSET Keys,
                secret : SUBSET Keys, state : {"Offering", "Ringing", "Connected"}]
Signals == [type : {"call_offer", "call_accept", "call_end"}, from : Users,
            first : BOOLEAN, id : Keys, key : Keys \cup {NoKey}]
Nonces == {"random", "counter"}
Media == [type : {"media_chunk"}, from : Users, first : BOOLEAN, id : Keys,
          end : BOOLEAN, data : [secret : SUBSET Keys, nonce : Nonces],
          nonce : Nonces]

TypeOK ==
    /\ \A u \in Users : call[u] \subseteq ActiveCalls /\ Cardinality(call[u]) =< 1
    /\ \A u \in Users : \A i \in DOMAIN queue[u] : queue[u][i] \in Signals \cup Media
    /\ sessions \in [Users -> SUBSET Users]
    /\ keys \in [Users -> Nat]
    /\ recordings \cup streamed \subseteq [by : Users, id : Keys]
    /\ calls \in 0..MaxCalls /\ streams \in 0..MaxStreams
    /\ faults \in 0..MaxFaults
    /\ accepted \subseteq [by : Users, id : Keys, key : Keys]
    /\ crossed \subseteq Users \X Keys
    /\ ended \subseteq Keys

\* Call id was accepted once, by the user who was called, and neither end
\* took an accept of another call for it.
Straight(id) ==
    /\ ~ \E u \in Users : <<u, id>> \in crossed
    /\ \E a \in accepted : a.by # id[1] /\ {b \in accepted : b.id = id} = {a}

(***************************************************************************)
(* SecretsAgree: two users connected in the same call hold the same media  *)
(* secret, made of one key of each, whatever offers crossed, were lost,    *)
(* refused or replaced before: provided /accept was used once and by the   *)
(* user called, and no accept of another call came in between (accept_call *)
(* and process_call_signal exclude neither).                               *)
(***************************************************************************)
SecretsAgree ==
    \A u, v \in Users : \A c \in call[u], d \in call[v] :
        /\ u # v /\ c.id = d.id /\ Straight(c.id)
        /\ c.state = "Connected" /\ d.state = "Connected"
        => c.secret = d.secret /\ c.secret = {c.key, d.key}

(***************************************************************************)
(* EndedWhenQuiet: a call that one side ended is over for both once all    *)
(* signals are handled; only lost or refused signals leave one side in it. *)
(***************************************************************************)
Quiet == faults = 0 /\ \A u \in Users : queue[u] = <<>>

EndedWhenQuiet ==
    Quiet => \A u \in Users : \A c \in call[u] : c.id \notin ended

(***************************************************************************)
(* MediaSaved: with nothing lost, refused or left to handle, the media of  *)
(* a call is on the disk of the peer, if the peer is still in the call     *)
(* ("Process an incoming media chunk (audio/video data during call)",      *)
(* "Save the decrypted audio chunk", tintin-cli).  The code does not do    *)
(* this: receive_messages looks for media in the first message of a        *)
(* session only, and the chunk carries another nonce than the one it was   *)
(* encrypted with.                                                         *)
(***************************************************************************)
MediaSaved ==
    Quiet => \A s \in streamed : \A v \in Users \ {s.by} : \A c \in call[v] :
                c.id = s.id /\ Straight(s.id) => s \in recordings
=============================================================================
