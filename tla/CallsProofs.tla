---------------------------- MODULE CallsProofs -----------------------------
(***************************************************************************)
(* Theorems about Calls, for any users and any number of calls, accepts,   *)
(* streams, chunks and faults.  Three inductive invariants, each on top of *)
(* the one before: what a call that is under way knows of its key          *)
(* agreement (SecretInv), whom a call can be with while nothing is lost    *)
(* (PeerInv), and what the end of a call leaves behind (EndInv).           *)
(***************************************************************************)
EXTENDS Calls, SequenceTheorems, TLAPS

\* The messages the program sends: offers and accepts carry a key.
Messages ==
    {m \in Signals : m.type # "call_end" => m.key \in Keys} \cup Media

\* Shape: the part of the state that the proofs compute with is well formed.
Shape ==
    /\ call \in [Users -> SUBSET ActiveCalls]
    /\ queue \in [Users -> Seq(Messages)]
    /\ sessions \in [Users -> SUBSET Users]
    /\ keys \in [Users -> Nat]
    /\ accepted \subseteq [by : Users, id : Keys, key : Keys]
    /\ faults \in Nat

\* The message at place i of v's queue exists.
Places(v) == 1..Len(queue[v])

\* Whether the next message of u to peer is the first of a session.
FirstOf(u, peer) == peer # u /\ peer \notin sessions[u]

\* The i-th message m of a command, as it is queued.
Sent(m, i, u, peer) == [m EXCEPT !.first = (i = 1 /\ FirstOf(u, peer))]
-----------------------------------------------------------------------------
\* A key pair that was just generated is a key.
LEMMA FreshType ==
    ASSUME Shape, NEW u \in Users
    PROVE  Fresh(u) \in Keys /\ Fresh(u)[1] = u /\ Fresh(u)[2] = keys[u] + 1
BY DEF Shape, Fresh, Keys

\* A message with its `first' mark set is a message with the same content.
LEMMA Marked ==
    ASSUME NEW m \in Messages, NEW b \in BOOLEAN
    PROVE  /\ [m EXCEPT !.first = b] \in Messages
           /\ [m EXCEPT !.first = b].first = b
           /\ [m EXCEPT !.first = b].type = m.type
           /\ [m EXCEPT !.first = b].from = m.from
           /\ [m EXCEPT !.first = b].id = m.id
           /\ m \in Signals => [m EXCEPT !.first = b].key = m.key
<1>1. CASE m \in Signals
  <2>1. m \notin Media
      BY <1>1 DEF Signals, Media
  <2> QED
      BY <1>1, <2>1 DEF Messages, Signals
<1>2. CASE m \in Media
  <2>1. m \notin Signals
      BY <1>2 DEF Signals, Media
  <2> QED
      BY <1>2, <2>1 DEF Messages, Media
<1> QED
    BY <1>1, <1>2 DEF Messages

\* So is a message as it is queued.
LEMMA SentIs ==
    ASSUME NEW m \in Messages, NEW i, NEW u, NEW peer
    PROVE  /\ Sent(m, i, u, peer) \in Messages
           /\ Sent(m, i, u, peer).first <=> i = 1 /\ FirstOf(u, peer)
           /\ Sent(m, i, u, peer).type = m.type
           /\ Sent(m, i, u, peer).from = m.from
           /\ Sent(m, i, u, peer).id = m.id
           /\ m \in Signals => Sent(m, i, u, peer).key = m.key
<1> DEFINE b == i = 1 /\ FirstOf(u, peer)
<1>1. b \in BOOLEAN
    OBVIOUS
<1>2. b <=> i = 1 /\ FirstOf(u, peer)
    OBVIOUS
<1>3. Sent(m, i, u, peer) = [m EXCEPT !.first = b]
    BY DEF Sent
<1> HIDE DEF b
<1> QED
    BY <1>1, <1>2, <1>3, Marked

\* Grown: the first k of the n messages of s are queued for peer, behind
\* those that wait.
Grown(u, peer, s, n, k) ==
    /\ queue' \in [Users -> Seq(Messages)]
    /\ \A v \in Users \ {peer} : queue'[v] = queue[v]
    /\ Len(queue'[peer]) = Len(queue[peer]) + k /\ Len(queue[peer]) \in Nat
    /\ \A i \in 1..Len(queue[peer]) : queue'[peer][i] = queue[peer][i]
    /\ \A i \in 1..k :
         queue'[peer][Len(queue[peer]) + i] = Sent(s[i], i, u, peer)
    /\ sessions' \in [Users -> SUBSET Users] /\ faults' \in Nat
    /\ \A v \in Users \ {u} : sessions'[v] = sessions[v]
    /\ sessions[u] \subseteq sessions'[u]
    /\ sessions'[u] \subseteq sessions[u] \cup {peer}
    /\ k # 0 /\ peer # u => peer \in sessions'[u]
    /\ IF k = n THEN faults' = faults ELSE faults' = faults + 1

\* QueueGrows: that is what sending does.
LEMMA QueueGrows ==
    ASSUME Shape, NEW u \in Users, NEW peer \in Users, NEW n \in Nat,
           NEW s \in [1..n -> Messages], Len(s) = n, NEW k \in 0..n,
           send_all(u, peer, s, k)
    PROVE  Grown(u, peer, s, n, k)
<1> DEFINE t == [i \in 1..k |-> Sent(s[i], i, u, peer)]
           q == queue[peer]
<1>1. q \in Seq(Messages) /\ Len(q) \in Nat
    BY LenProperties DEF Shape
<1>2. \A i \in 1..k : Sent(s[i], i, u, peer) \in Messages
    BY SentIs
<1>3. t \in Seq(Messages) /\ Len(t) = k
    BY <1>2
<1>4. queue' = [queue EXCEPT ![peer] = q \o t]
    BY DEF send_all, Sent, FirstOf
<1>5. \A i \in 1..k : t[i] = Sent(s[i], i, u, peer)
    OBVIOUS
<1> HIDE DEF t
<1>6. /\ q \o t \in Seq(Messages) /\ Len(q \o t) = Len(q) + k
      /\ \A i \in 1..(Len(q) + k) :
           (q \o t)[i] = IF i <= Len(q) THEN q[i] ELSE t[i - Len(q)]
    BY <1>1, <1>3, ConcatProperties
<1>7. queue'[peer] = q \o t /\ \A v \in Users \ {peer} : queue'[v] = queue[v]
    BY <1>4 DEF Shape
<1>8. queue' \in [Users -> Seq(Messages)]
    BY <1>4, <1>6 DEF Shape
<1>9. \A i \in 1..Len(q) : queue'[peer][i] = q[i]
    BY <1>1, <1>6, <1>7
<1>10. ASSUME NEW i \in 1..k
       PROVE  queue'[peer][Len(q) + i]
                = Sent(s[i], i, u, peer)
  <2>1. Len(q) + i \in 1..(Len(q) + k) /\ ~(Len(q) + i <= Len(q))
        /\ Len(q) + i - Len(q) = i
      BY <1>1
  <2> QED
      BY <1>5, <1>6, <1>7, <2>1
<1>11. /\ sessions' \in [Users -> SUBSET Users] /\ faults' \in Nat
       /\ \A v \in Users \ {u} : sessions'[v] = sessions[v]
       /\ sessions[u] \subseteq sessions'[u]
       /\ sessions'[u] \subseteq sessions[u] \cup {peer}
       /\ k # 0 /\ peer # u => peer \in sessions'[u]
       /\ IF k = n THEN faults' = faults ELSE faults' = faults + 1
  <2> DEFINE with == IF peer = u THEN sessions
                     ELSE [sessions EXCEPT ![u] = @ \cup {peer}]
  <2>1. /\ faults' = IF k = n THEN faults ELSE faults + 1
        /\ sessions' \in IF k = 0 THEN {sessions, with} ELSE {with}
      BY DEF send_all
  <2>2. /\ with \in [Users -> SUBSET Users]
        /\ \A v \in Users \ {u} : with[v] = sessions[v]
        /\ sessions[u] \subseteq with[u]
        /\ with[u] \subseteq sessions[u] \cup {peer}
        /\ peer # u => peer \in with[u]
      BY DEF Shape
  <2>3. sessions' = sessions \/ sessions' = with
      BY <2>1
  <2>4. k # 0 => sessions' = with
      BY <2>1
  <2> HIDE DEF with
  <2>5. faults' \in Nat /\ IF k = n THEN faults' = faults ELSE faults' = faults + 1
      BY <2>1 DEF Shape
  <2> QED
      BY <2>2, <2>3, <2>4, <2>5 DEF Shape
<1> QED
    BY <1>1, <1>6, <1>7, <1>8, <1>9, <1>10, <1>11 DEF Grown

\* Posted: the same for one signal, which is accepted or refused.
Posted(u, peer, s, ok) ==
    /\ queue' \in [Users -> Seq(Messages)]
    /\ \A v \in Users \ {peer} : queue'[v] = queue[v]
    /\ Len(queue[peer]) \in Nat
    /\ \A i \in 1..Len(queue[peer]) : queue'[peer][i] = queue[peer][i]
    /\ sessions' \in [Users -> SUBSET Users] /\ faults' \in Nat
    /\ \A v \in Users \ {u} : sessions'[v] = sessions[v]
    /\ sessions[u] \subseteq sessions'[u]
    /\ sessions'[u] \subseteq sessions[u] \cup {peer}
    /\ ok => /\ Len(queue'[peer]) = Len(queue[peer]) + 1
             /\ queue'[peer][Len(queue[peer]) + 1] = Sent(s, 1, u, peer)
             /\ peer # u => peer \in sessions'[u]
             /\ faults' = faults
    /\ ~ok => Len(queue'[peer]) = Len(queue[peer]) /\ faults' = faults + 1

LEMMA SignalSent ==
    ASSUME Shape, NEW u \in Users, NEW peer \in Users, NEW s \in Messages,
           NEW ok \in BOOLEAN, send_message(u, peer, s, ok)
    PROVE  Posted(u, peer, s, ok)
<1>k. PICK k \in 0..1 : k = IF ok THEN 1 ELSE 0
    OBVIOUS
<1>o. PICK one : one = <<s>>
    OBVIOUS
<1>n. PICK n \in Nat : n = 1
    OBVIOUS
<1>1. /\ one \in [1..n -> Messages] /\ Len(one) = n /\ k \in 0..n
      /\ one[1] = s
    BY <1>o, <1>n
<1>2. send_all(u, peer, one, k)
    BY <1>k, <1>o DEF send_message
<1>3. (k = n <=> ok) /\ (k = 1 <=> ok)
    BY <1>k, <1>n
<1>4. Grown(u, peer, one, n, k)
    BY <1>1, <1>2, QueueGrows
<1>5. ok => queue'[peer][Len(queue[peer]) + 1] = Sent(s, 1, u, peer)
  <2>1. ok => 1 \in 1..k
      BY <1>3
  <2> QED
      BY <1>1, <1>4, <2>1 DEF Grown
<1>6. ok => /\ Len(queue'[peer]) = Len(queue[peer]) + 1
            /\ peer # u => peer \in sessions'[u]
            /\ faults' = faults
    BY <1>3, <1>4 DEF Grown
<1>7. ~ok => Len(queue'[peer]) = Len(queue[peer]) /\ faults' = faults + 1
    BY <1>3, <1>4, <1>k DEF Grown
<1> QED
    BY <1>4, <1>5, <1>6, <1>7 DEF Grown, Posted

\* Took: the oldest message is taken from the queue of u.
Took(u) ==
    /\ queue' \in [Users -> Seq(Messages)]
    /\ \A v \in Users \ {u} : queue'[v] = queue[v]
    /\ Len(queue[u]) \in Nat \ {0}
    /\ Len(queue'[u]) = Len(queue[u]) - 1
    /\ \A i \in 1..Len(queue'[u]) : queue'[u][i] = queue[u][i + 1]
    /\ Head(queue[u]) = queue[u][1] /\ Head(queue[u]) \in Messages

LEMMA QueueShrinks ==
    ASSUME Shape, NEW u \in Users, queue[u] # <<>>,
           queue' = [queue EXCEPT ![u] = Tail(@)]
    PROVE  Took(u)
<1>1. queue[u] \in Seq(Messages)
    BY DEF Shape
<1>2. Len(queue[u]) \in Nat \ {0}
    BY <1>1, EmptySeq
<1>3. /\ Head(queue[u]) \in Messages /\ Tail(queue[u]) \in Seq(Messages)
      /\ Len(Tail(queue[u])) = Len(queue[u]) - 1
      /\ \A i \in 1..Len(Tail(queue[u])) : Tail(queue[u])[i] = queue[u][i + 1]
    BY <1>1, HeadTailProperties
<1>4. queue'[u] = Tail(queue[u]) /\ \A v \in Users \ {u} : queue'[v] = queue[v]
    BY DEF Shape
<1>5. queue' \in [Users -> Seq(Messages)]
    BY <1>3 DEF Shape
<1>6. Head(queue[u]) = queue[u][1]
    BY <1>1, <1>2
<1> QED
    BY <1>2, <1>3, <1>4, <1>5, <1>6 DEF Took

\* SignalTaken: what handling the next signal does to queue and sessions.
LEMMA SignalTaken ==
    ASSUME Shape, NEW u \in Users, NEW type, NextSignal(u, type)
    PROVE  /\ Took(u)
           /\ Head(queue[u]).type = type /\ Head(queue[u]).from # u
           /\ Head(queue[u]).from \in Users
           /\ sessions' \in [Users -> SUBSET Users]
           /\ sessions'[u] = sessions[u] \cup {Head(queue[u]).from}
           /\ \A v \in Users \ {u} : sessions'[v] = sessions[v]
<1>1. /\ queue[u] # <<>> /\ queue' = [queue EXCEPT ![u] = Tail(@)]
      /\ Head(queue[u]).type = type /\ Head(queue[u]).from # u
      /\ sessions' = [sessions EXCEPT ![u] = @ \cup {Head(queue[u]).from}]
    BY DEF NextSignal
<1>2. Head(queue[u]) \in Messages
    BY <1>1, QueueShrinks DEF Took
<1>3. Head(queue[u]).from \in Users
    BY <1>2 DEF Messages, Signals, Media
<1>4. /\ sessions' \in [Users -> SUBSET Users]
      /\ sessions'[u] = sessions[u] \cup {Head(queue[u]).from}
      /\ \A v \in Users \ {u} : sessions'[v] = sessions[v]
    BY <1>1, <1>3 DEF Shape
<1> QED
    BY <1>1, <1>3, <1>4, QueueShrinks

\* The signals the program builds.
LEMMA SignalIs ==
    ASSUME NEW type \in {"call_offer", "call_accept", "call_end"},
           NEW u \in Users, NEW id \in Keys, NEW key \in Keys \cup {NoKey}
    PROVE  /\ Signal(type, u, id, key) \in Signals
           /\ Signal(type, u, id, key).type = type
           /\ Signal(type, u, id, key).from = u
           /\ Signal(type, u, id, key).id = id
           /\ Signal(type, u, id, key).key = key
           /\ type = "call_end" \/ key \in Keys =>
                Signal(type, u, id, key) \in Messages
BY DEF Signal, Signals, Messages

\* Kinds of messages are told apart by their type.
LEMMA KindOf ==
    ASSUME NEW m \in Messages
    PROVE  /\ m.type = "media_chunk" => m \in Media
           /\ m.type # "media_chunk" => m \in Signals
           /\ m.type \in {"call_offer", "call_accept"} => m.key \in Keys
           /\ m.from \in Users /\ m.id \in Keys /\ m.first \in BOOLEAN
BY DEF Messages, Signals, Media

\* A chunk of a stream of u in call c.
Chunk(m, u, c) ==
    m \in Media /\ m.from = u /\ m.type = "media_chunk" /\ m.id = c.id

\* A stream is a non-empty sequence of chunks.
LEMMA StreamIs ==
    ASSUME Shape, NEW u \in Users, NEW count \in 1..MaxChunks,
           NEW k \in 0..(MaxChunks + 1), send_call_media(u, count, k)
    PROVE  \E c \in call[u], n \in Nat \ {0}, s \in [1..(count + 1) -> Messages] :
             /\ n = count + 1 /\ Len(s) = n /\ k \in 0..n
             /\ send_all(u, c.peer, s, k)
             /\ \A i \in 1..n : Chunk(s[i], u, c)
<1> USE CallsAssumption
<1>1. PICK c \in call[u] :
        /\ k =< count + 1
        /\ send_all(u, c.peer,
                    [i \in 1..(count + 1) |-> MediaChunk(u, c, i = count + 1)], k)
    BY DEF send_call_media
<1>2. c.id \in Keys /\ c.secret \in SUBSET Keys
    BY DEF Shape, ActiveCalls
<1>3. ASSUME NEW b \in BOOLEAN
      PROVE  Chunk(MediaChunk(u, c, b), u, c)
    BY <1>2 DEF Chunk, MediaChunk, encrypt, Media, Nonces
<1>4. count + 1 \in Nat \ {0} /\ k \in 0..(count + 1)
    BY <1>1
<1>5. PICK s : s = [i \in 1..(count + 1) |-> MediaChunk(u, c, i = count + 1)]
    OBVIOUS
<1>6. ASSUME NEW i \in 1..(count + 1)
      PROVE  Chunk(s[i], u, c)
  <2>1. PICK b \in BOOLEAN : b = (i = count + 1)
      OBVIOUS
  <2>2. s[i] = MediaChunk(u, c, b)
      BY <1>5, <2>1
  <2> QED
      BY <1>3, <2>2
<1>7. s \in [1..(count + 1) -> Messages] /\ Len(s) = count + 1
  <2>1. s = [i \in 1..(count + 1) |-> s[i]]
      BY <1>5
  <2>2. \A i \in 1..(count + 1) : s[i] \in Messages
      BY <1>6 DEF Chunk, Messages
  <2>3. s \in [1..(count + 1) -> Messages]
      BY <2>1, <2>2
  <2> QED
      BY <1>4, <2>3
<1>8. send_all(u, c.peer, s, k)
    BY <1>1, <1>5
<1> QED
    BY <1>4, <1>6, <1>7, <1>8

(***************************************************************************)
(* ShapeStep: every command and every handled message keeps the shape.     *)
(***************************************************************************)
LEMMA ShapeStep == Shape /\ [Next]_vars => Shape'
<1> SUFFICES ASSUME Shape, [Next]_vars PROVE Shape'
    OBVIOUS
<1> USE CallsAssumption
<1>0. \A u \in Users : Fresh(u) \in Keys
    BY FreshType
<1>g. ASSUME NEW u \in Users, generate(u) PROVE keys' \in [Users -> Nat]
    BY <1>g DEF generate, Shape
<1>c. ASSUME NEW u \in Users, NEW c \in call[u]
      PROVE  c \in ActiveCalls /\ c.peer \in Users /\ c.id \in Keys
    BY <1>c DEF Shape, ActiveCalls
<1>1. ASSUME NEW u \in Users, NEW peer \in Users, NEW ok \in BOOLEAN,
             start_call(u, peer, ok)
      PROVE  Shape'
  <2>1. Signal("call_offer", u, Fresh(u), Fresh(u)) \in Messages
      BY <1>0, SignalIs
  <2>2. send_message(u, peer, Signal("call_offer", u, Fresh(u), Fresh(u)), ok)
      BY <1>1 DEF start_call
  <2>3. PICK s \in Messages : s = Signal("call_offer", u, Fresh(u), Fresh(u))
      BY <2>1
  <2>4. /\ queue' \in [Users -> Seq(Messages)] /\ faults' \in Nat
        /\ sessions' \in [Users -> SUBSET Users]
      BY <2>2, <2>3, SignalSent DEF Posted
  <2>5. [peer |-> peer, id |-> Fresh(u), key |-> Fresh(u), peer_key |-> {},
         secret |-> {}, state |-> "Offering"] \in ActiveCalls
      BY <1>0 DEF ActiveCalls
  <2>6. call' \in [Users -> SUBSET ActiveCalls]
      BY <1>1, <2>5 DEF start_call, Shape
  <2> QED
      BY <1>1, <1>g, <2>4, <2>6 DEF start_call, Shape
<1>2. ASSUME NEW u \in Users, NEW ok \in BOOLEAN, accept_call(u, ok)
      PROVE  Shape'
  <2>1. PICK c \in call[u] :
          /\ call' = [call EXCEPT ![u] =
                {[c EXCEPT !.state = "Connected", !.key = Fresh(u),
                           !.secret = IF c.peer_key = {} THEN @
                                      ELSE UNION {agree(Fresh(u), k) :
                                                    k \in c.peer_key}]}]
          /\ send_message(u, c.peer, Signal("call_accept", u, c.id, Fresh(u)), ok)
          /\ accepted' = accepted \cup {[by |-> u, id |-> c.id, key |-> Fresh(u)]}
          /\ generate(u)
      BY <1>2 DEF accept_call
  <2>2. PICK s \in Messages : s = Signal("call_accept", u, c.id, Fresh(u))
      BY <1>0, <1>c, SignalIs
  <2>3. /\ queue' \in [Users -> Seq(Messages)] /\ faults' \in Nat
        /\ sessions' \in [Users -> SUBSET Users]
      BY <1>c, <2>1, <2>2, SignalSent DEF Posted
  <2>4. UNION {agree(Fresh(u), k) : k \in c.peer_key} \in SUBSET Keys
      BY <1>0, <1>c DEF ActiveCalls, agree
  <2>5. PICK x \in SUBSET Keys :
          x = IF c.peer_key = {} THEN c.secret
              ELSE UNION {agree(Fresh(u), k) : k \in c.peer_key}
      BY <1>c, <2>4 DEF ActiveCalls
  <2>6. call' = [call EXCEPT ![u] =
                   {[c EXCEPT !.state = "Connected", !.key = Fresh(u),
                              !.secret = x]}]
      BY <2>1, <2>5
  <2>7. [c EXCEPT !.state = "Connected", !.key = Fresh(u), !.secret = x]
          \in ActiveCalls
      BY <1>0, <1>c DEF ActiveCalls
  <2>8. call' \in [Users -> SUBSET ActiveCalls]
      BY <2>6, <2>7 DEF Shape
  <2>9. accepted' \subseteq [by : Users, id : Keys, key : Keys]
    <3>1. Fresh(u) \in Keys /\ c.id \in Keys
        BY <1>0, <1>c
    <3>2. [by |-> u, id |-> c.id, key |-> Fresh(u)]
            \in [by : Users, id : Keys, key : Keys]
        BY <3>1
    <3> QED
        BY <2>1, <3>2 DEF Shape
  <2> QED
      BY <1>g, <2>1, <2>3, <2>8, <2>9 DEF Shape
<1>3. ASSUME NEW u \in Users, NEW ok \in BOOLEAN, end_call(u, ok)
      PROVE  Shape'
  <2>1. PICK c \in call[u] :
          /\ send_message(u, c.peer, Signal("call_end", u, c.id, NoKey), ok)
          /\ call' = IF ok THEN [call EXCEPT ![u] = {}] ELSE call
          /\ UNCHANGED <<keys, accepted>>
      BY <1>3 DEF end_call
  <2>2. PICK s \in Messages : s = Signal("call_end", u, c.id, NoKey)
      BY <1>c, SignalIs
  <2>3. /\ queue' \in [Users -> Seq(Messages)] /\ faults' \in Nat
        /\ sessions' \in [Users -> SUBSET Users]
      BY <1>c, <2>1, <2>2, SignalSent DEF Posted
  <2>4. call' \in [Users -> SUBSET ActiveCalls]
      BY <2>1 DEF Shape
  <2> QED
      BY <2>1, <2>3, <2>4 DEF Shape
<1>4. ASSUME NEW u \in Users, NEW count \in 1..MaxChunks,
             NEW k \in 0..(MaxChunks + 1), send_call_media(u, count, k)
      PROVE  Shape'
  <2>1. PICK c \in call[u], n \in Nat \ {0}, s \in [1..(count + 1) -> Messages] :
          /\ n = count + 1 /\ Len(s) = n /\ k \in 0..n
          /\ send_all(u, c.peer, s, k)
      BY <1>4, StreamIs
  <2>2. /\ queue' \in [Users -> Seq(Messages)] /\ faults' \in Nat
        /\ sessions' \in [Users -> SUBSET Users]
      BY <1>c, <2>1, QueueGrows DEF Grown
  <2> QED
      BY <1>4, <2>2 DEF send_call_media, Shape
<1>5. ASSUME NEW u \in Users, process_call_offer(u) PROVE Shape'
  <2>1. /\ NextSignal(u, "call_offer") /\ generate(u)
        /\ UNCHANGED <<faults, accepted>>
      BY <1>5 DEF process_call_offer
  <2> DEFINE m == Head(queue[u])
             c == [peer |-> m.from, id |-> m.id, key |-> Fresh(u),
                   peer_key |-> {m.key}, secret |-> {}, state |-> "Ringing"]
  <2>2. call' = [call EXCEPT ![u] = {c}]
      BY <1>5 DEF process_call_offer
  <2>3. m.key \in Keys /\ m.from \in Users /\ m.id \in Keys
    <3>1. m \in Messages /\ m.type = "call_offer"
        BY <2>1, SignalTaken DEF Took
    <3> QED
        BY <3>1, KindOf
  <2> HIDE DEF m
  <2>4. c \in ActiveCalls
      BY <1>0, <2>3 DEF ActiveCalls
  <2> HIDE DEF c
  <2>5. call' \in [Users -> SUBSET ActiveCalls]
      BY <2>2, <2>4 DEF Shape
  <2>6. queue' \in [Users -> Seq(Messages)] /\ sessions' \in [Users -> SUBSET Users]
      BY <2>1, SignalTaken DEF Took
  <2> QED
      BY <1>g, <2>1, <2>5, <2>6 DEF Shape
<1>6. ASSUME NEW u \in Users, process_call_accept(u) PROVE Shape'
  <2>1. /\ NextSignal(u, "call_accept")
        /\ UNCHANGED <<keys, faults, accepted>>
      BY <1>6 DEF process_call_accept
  <2> DEFINE m == Head(queue[u])
             waiting == {c \in call[u] : c.state \in {"Offering", "Ringing"}}
             joined(c) == [c EXCEPT !.peer_key = {m.key}, !.state = "Connected",
                                    !.secret = agree(c.key, m.key)]
  <2>2. call' = [call EXCEPT ![u] = IF waiting = {} THEN @
                                    ELSE {joined(c) : c \in waiting}]
      BY <1>6 DEF process_call_accept
  <2>3. m.key \in Keys
    <3>1. m \in Messages /\ m.type = "call_accept"
        BY <2>1, SignalTaken DEF Took
    <3> QED
        BY <3>1, KindOf
  <2> HIDE DEF m
  <2>4. ASSUME NEW c \in waiting PROVE joined(c) \in ActiveCalls
    <3>1. c \in ActiveCalls
        BY <1>c
    <3>2. agree(c.key, m.key) \in SUBSET Keys /\ {m.key} \in SUBSET Keys
        BY <2>3, <3>1 DEF ActiveCalls, agree
    <3> QED
        BY <3>1, <3>2 DEF ActiveCalls
  <2> HIDE DEF joined
  <2>5. call' \in [Users -> SUBSET ActiveCalls]
      BY <2>2, <2>4 DEF Shape
  <2>6. queue' \in [Users -> Seq(Messages)] /\ sessions' \in [Users -> SUBSET Users]
      BY <2>1, SignalTaken DEF Took
  <2> QED
      BY <2>1, <2>5, <2>6 DEF Shape
<1>7. ASSUME NEW u \in Users, process_call_end(u) PROVE Shape'
  <2>1. /\ NextSignal(u, "call_end") /\ call' = [call EXCEPT ![u] = {}]
        /\ UNCHANGED <<keys, faults, accepted>>
      BY <1>7 DEF process_call_end
  <2>2. queue' \in [Users -> Seq(Messages)] /\ sessions' \in [Users -> SUBSET Users]
      BY <2>1, SignalTaken DEF Took
  <2> QED
      BY <2>1, <2>2 DEF Shape
<1>8. ASSUME NEW u \in Users, process_media_chunk(u) PROVE Shape'
  <2>1. /\ NextSignal(u, "media_chunk")
        /\ UNCHANGED <<call, keys, faults, accepted>>
      BY <1>8 DEF process_media_chunk
  <2>2. queue' \in [Users -> Seq(Messages)] /\ sessions' \in [Users -> SUBSET Users]
      BY <2>1, SignalTaken DEF Took
  <2> QED
      BY <2>1, <2>2 DEF Shape
<1>9. ASSUME NEW u \in Users, pass_over(u) PROVE Shape'
  <2>1. /\ queue[u] # <<>> /\ queue' = [queue EXCEPT ![u] = Tail(@)]
        /\ UNCHANGED <<call, sessions, keys, accepted>>
        /\ faults' = faults \/ faults' = faults + 1
      BY <1>9 DEF pass_over
  <2>2. queue' \in [Users -> Seq(Messages)]
      BY <2>1, QueueShrinks DEF Took
  <2> QED
      BY <2>1, <2>2 DEF Shape
<1>10. ASSUME UNCHANGED vars PROVE Shape'
    BY <1>10 DEF vars, Shape
<1> QED
    BY <1>1, <1>2, <1>3, <1>4, <1>5, <1>6, <1>7, <1>8, <1>9, <1>10
       DEF Next, process_call_signal

(***************************************************************************)
(* What is in the queues after a step: what was there before, and what was *)
(* sent.                                                                   *)
(***************************************************************************)
OnlyOld ==
    \A v \in Users : \A i \in 1..Len(queue'[v]) :
        \E j \in Places(v) : queue'[v][i] = queue[v][j]

OldOr(peer, S) ==
    \A v \in Users : \A i \in 1..Len(queue'[v]) :
        \/ \E j \in Places(v) : queue'[v][i] = queue[v][j]
        \/ v = peer /\ queue'[v][i] \in S

LEMMA StreamAdds ==
    ASSUME Shape, NEW u, NEW peer \in Users, NEW s, NEW n \in Nat,
           NEW k \in 0..n, Grown(u, peer, s, n, k),
           NEW S, \A i \in 1..k : Sent(s[i], i, u, peer) \in S
    PROVE  OldOr(peer, S)
<1> SUFFICES ASSUME NEW v \in Users, NEW i \in 1..Len(queue'[v])
             PROVE  \/ \E j \in Places(v) : queue'[v][i] = queue[v][j]
                    \/ v = peer /\ queue'[v][i] \in S
    BY DEF OldOr
<1>1. CASE v # peer
    BY <1>1 DEF Grown, Places
<1>2. CASE v = peer /\ i \in 1..Len(queue[peer])
    BY <1>2 DEF Grown, Places
<1>3. CASE v = peer /\ i \notin 1..Len(queue[peer])
  <2> DEFINE j == i - Len(queue[peer])
  <2>1. j \in 1..k /\ i = Len(queue[peer]) + j
      BY <1>3 DEF Grown
  <2>2. queue'[peer][Len(queue[peer]) + j] = Sent(s[j], j, u, peer)
      BY <2>1 DEF Grown
  <2> QED
      BY <1>3, <2>1, <2>2
<1> QED
    BY <1>1, <1>2, <1>3

LEMMA SignalAdds ==
    ASSUME Shape, NEW u \in Users, NEW peer \in Users, NEW s \in Messages,
           NEW ok \in BOOLEAN, send_message(u, peer, s, ok)
    PROVE  OldOr(peer, {Sent(s, 1, u, peer)})
<1> SUFFICES ASSUME NEW v \in Users, NEW i \in 1..Len(queue'[v])
             PROVE  \/ \E j \in Places(v) : queue'[v][i] = queue[v][j]
                    \/ v = peer /\ queue'[v][i] = Sent(s, 1, u, peer)
    BY DEF OldOr
<1>0. Posted(u, peer, s, ok)
    BY SignalSent
<1>1. CASE v # peer
  <2>1. queue'[v] = queue[v]
      BY <1>0, <1>1 DEF Posted
  <2> QED
      BY <2>1 DEF Places
<1>2. CASE v = peer /\ i \in 1..Len(queue[peer])
    BY <1>0, <1>2 DEF Posted, Places
<1>3. CASE v = peer /\ i \notin 1..Len(queue[peer])
  <2>1. i \in 1..Len(queue'[peer])
      BY <1>3
  <2>2. ok
      BY <1>0, <1>3, <2>1 DEF Posted
  <2>3. Len(queue'[peer]) = Len(queue[peer]) + 1
      BY <1>0, <2>2 DEF Posted
  <2>4. i = Len(queue[peer]) + 1
      BY <1>0, <1>3, <2>1, <2>3 DEF Posted
  <2> QED
      BY <1>0, <1>3, <2>2, <2>4 DEF Posted
<1> QED
    BY <1>1, <1>2, <1>3

LEMMA TakenKeeps ==
    ASSUME NEW u \in Users, Took(u)
    PROVE  OnlyOld
<1> SUFFICES ASSUME NEW v \in Users, NEW i \in 1..Len(queue'[v])
             PROVE  \E j \in Places(v) : queue'[v][i] = queue[v][j]
    BY DEF OnlyOld
<1>1. CASE v # u
  <2>1. queue'[v] = queue[v]
      BY <1>1 DEF Took
  <2> QED
      BY <2>1 DEF Places
<1>2. CASE v = u
  <2>1. i + 1 \in 1..Len(queue[u]) /\ queue'[u][i] = queue[u][i + 1]
      BY <1>2 DEF Took
  <2> QED
      BY <1>2, <2>1 DEF Places
<1> QED
    BY <1>1, <1>2
-----------------------------------------------------------------------------
(***************************************************************************)
(* Media secrets.  MailSound: an offer carries the caller's key, which is  *)
(* also the call's id, and an accept a key its sender accepted with.       *)
(* CallSound: where the keys of a call come from.  A connected call got an *)
(* accept of another call, or was accepted by its own caller, or its       *)
(* secret is of the caller's key and of the key of an accept.              *)
(***************************************************************************)
MailSoundAt(m) ==
    /\ m.type = "call_offer" => m.key = m.id /\ m.from = m.id[1]
    /\ m.type = "call_accept" =>
         [by |-> m.from, id |-> m.id, key |-> m.key] \in accepted
MailSound == \A v \in Users : \A i \in Places(v) : MailSoundAt(queue[v][i])

AcceptedByCaller(id) == \E a \in accepted : a.by = id[1] /\ a.id = id

CallSoundAt(u, c) ==
    /\ c.state = "Offering" => c.id[1] = u /\ c.key = c.id
    /\ c.state = "Ringing" =>
         c.id[1] = c.peer /\ c.peer # u /\ c.peer_key = {c.id}
    /\ c.state = "Connected" =>
         \/ <<u, c.id>> \in crossed
         \/ AcceptedByCaller(c.id)
         \/ /\ u = c.id[1] /\ c.key = c.id
            /\ \E a \in accepted : a.id = c.id /\ c.secret = {c.id, a.key}
         \/ /\ u # c.id[1] /\ c.peer_key = {c.id}
            /\ \E a \in accepted : /\ a.id = c.id /\ a.by = u /\ a.key = c.key
                                   /\ c.secret = {c.id, a.key}
CallSound == \A u \in Users : \A c \in call[u] : CallSoundAt(u, c)

SecretInv == Shape /\ MailSound /\ CallSound

\* More accepts do not invalidate what was said about a message or a call.
LEMMA SoundStays ==
    ASSUME accepted \subseteq accepted', crossed \subseteq crossed'
    PROVE  /\ \A m : MailSoundAt(m) => MailSoundAt(m)'
           /\ \A u, c : CallSoundAt(u, c) => CallSoundAt(u, c)'
<1>1. \A m : MailSoundAt(m) => MailSoundAt(m)'
    BY DEF MailSoundAt
<1>2. \A id : AcceptedByCaller(id) => AcceptedByCaller(id)'
    BY DEF AcceptedByCaller
<1>3. \A u, c : CallSoundAt(u, c) => CallSoundAt(u, c)'
    BY <1>2 DEF CallSoundAt
<1> QED
    BY <1>1, <1>3

(***************************************************************************)
(* SecretStep: every command and every handled message keeps it.           *)
(***************************************************************************)
LEMMA SecretStep == SecretInv /\ [Next]_vars => SecretInv'
<1> SUFFICES ASSUME SecretInv, [Next]_vars PROVE SecretInv'
    OBVIOUS
<1> USE CallsAssumption
<1>0. Shape /\ Shape' /\ MailSound /\ CallSound
    BY ShapeStep DEF SecretInv
<1> DEFINE Goal == MailSound' /\ CallSound'
           More == accepted \subseteq accepted' /\ crossed \subseteq crossed'
<1>m. ASSUME OnlyOld, More PROVE MailSound'
  <2> SUFFICES ASSUME NEW v \in Users, NEW i \in 1..Len(queue'[v])
               PROVE  MailSoundAt(queue[v][i])'
      BY DEF MailSound, Places
  <2>1. PICK j \in Places(v) : queue'[v][i] = queue[v][j]
      BY <1>m DEF OnlyOld
  <2>2. MailSoundAt(queue[v][j])
      BY <1>0 DEF MailSound
  <2> QED
      BY <1>m, <2>1, <2>2 DEF MailSoundAt
<1>o. ASSUME NEW peer, NEW S, OldOr(peer, S), More,
             \A m \in S : MailSoundAt(m)'
      PROVE  MailSound'
  <2> SUFFICES ASSUME NEW v \in Users, NEW i \in 1..Len(queue'[v])
               PROVE  MailSoundAt(queue[v][i])'
      BY DEF MailSound, Places
  <2>1. CASE \E j \in Places(v) : queue'[v][i] = queue[v][j]
    <3>1. PICK j \in Places(v) : queue'[v][i] = queue[v][j]
        BY <2>1
    <3>2. MailSoundAt(queue[v][j])
        BY <1>0 DEF MailSound
    <3> QED
        BY <1>o, <3>1, <3>2 DEF MailSoundAt
  <2>2. CASE queue'[v][i] \in S
      BY <1>o, <2>2 DEF MailSoundAt
  <2> QED
      BY <1>o, <2>1, <2>2 DEF OldOr
<1>k. ASSUME NEW u \in Users, More,
             \A v \in Users \ {u} : call'[v] = call[v],
             \A c \in call'[u] : CallSoundAt(u, c)'
      PROVE  CallSound'
  <2> SUFFICES ASSUME NEW v \in Users, NEW c \in call'[v]
               PROVE  CallSoundAt(v, c)'
      BY DEF CallSound
  <2>1. CASE v = u
      BY <1>k, <2>1
  <2>2. CASE v # u
    <3>1. CallSoundAt(v, c)
        BY <1>0, <1>k, <2>2 DEF CallSound
    <3> QED
        BY <1>k, <3>1, SoundStays
  <2> QED
      BY <2>1, <2>2
<1>n. ASSUME call' = call, More PROVE CallSound'
    BY <1>0, <1>n, SoundStays DEF CallSound
<1>c. ASSUME NEW u \in Users, NEW c \in call[u]
      PROVE  c \in ActiveCalls /\ c.peer \in Users /\ c.id \in Keys
             /\ CallSoundAt(u, c)
    BY <1>0, <1>c DEF Shape, ActiveCalls, CallSound
<1>1. ASSUME NEW u \in Users, NEW peer \in Users, NEW ok \in BOOLEAN,
             start_call(u, peer, ok)
      PROVE  Goal
  <2>1. PICK f \in Keys : f = Fresh(u) /\ f[1] = u
      BY <1>0, FreshType
  <2>2. PICK s \in Messages : s = Signal("call_offer", u, f, f)
      BY <2>1, SignalIs
  <2>3. s.type = "call_offer" /\ s.from = u /\ s.id = f /\ s.key = f
        /\ s \in Signals
      BY <2>2, SignalIs
  <2>4. send_message(u, peer, s, ok) /\ UNCHANGED <<accepted, crossed>>
      BY <1>1, <2>1, <2>2 DEF start_call, mediaVars
  <2>5. OldOr(peer, {Sent(s, 1, u, peer)})
      BY <1>0, <2>4, SignalAdds
  <2>6. PICK m : m = Sent(s, 1, u, peer)
      OBVIOUS
  <2>7. MailSoundAt(m)'
      BY <2>1, <2>3, <2>6, SentIs DEF MailSoundAt
  <2>8. MailSound'
    <3>1. OldOr(peer, {m})
        BY <2>5, <2>6
    <3> QED
        BY <1>o, <2>4, <2>7, <3>1
  <2>9. PICK c : c = [peer |-> peer, id |-> f, key |-> f, peer_key |-> {},
                      secret |-> {}, state |-> "Offering"]
      OBVIOUS
  <2>10. call'[u] = {c} /\ \A v \in Users \ {u} : call'[v] = call[v]
      BY <1>0, <1>1, <2>1, <2>9 DEF start_call, Shape
  <2>11. CallSoundAt(u, c)'
      BY <2>1, <2>9 DEF CallSoundAt
  <2>12. CallSound'
      BY <1>k, <2>4, <2>10, <2>11
  <2> QED
      BY <1>0, <2>4, <2>8, <2>12
<1>2. ASSUME NEW u \in Users, NEW ok \in BOOLEAN, accept_call(u, ok)
      PROVE  Goal
  <2>1. PICK f \in Keys : f = Fresh(u)
      BY <1>0, FreshType
  <2>2. PICK c \in call[u] :
          /\ call' = [call EXCEPT ![u] =
                {[c EXCEPT !.state = "Connected", !.key = Fresh(u),
                           !.secret = IF c.peer_key = {} THEN @
                                      ELSE UNION {agree(Fresh(u), k) :
                                                    k \in c.peer_key}]}]
          /\ send_message(u, c.peer, Signal("call_accept", u, c.id, Fresh(u)), ok)
          /\ accepted' = accepted \cup {[by |-> u, id |-> c.id, key |-> Fresh(u)]}
          /\ UNCHANGED crossed
      BY <1>2 DEF accept_call, mediaVars
  <2>3. PICK s \in Messages : s = Signal("call_accept", u, c.id, f)
      BY <1>c, <2>1, SignalIs
  <2>4. s.type = "call_accept" /\ s.from = u /\ s.id = c.id /\ s.key = f
        /\ s \in Signals
      BY <1>c, <2>3, SignalIs
  <2>5. OldOr(c.peer, {Sent(s, 1, u, c.peer)})
      BY <1>0, <1>c, <2>1, <2>2, <2>3, SignalAdds
  <2>6. PICK m : m = Sent(s, 1, u, c.peer)
      OBVIOUS
  <2>7. MailSoundAt(m)'
    <3>1. m.type = "call_accept" /\ m.from = u /\ m.id = c.id /\ m.key = f
        BY <2>4, <2>6, SentIs
    <3>2. [by |-> m.from, id |-> m.id, key |-> m.key] \in accepted'
        BY <2>1, <2>2, <3>1
    <3> QED
        BY <3>1, <3>2 DEF MailSoundAt
  <2>8. MailSound'
    <3>1. OldOr(c.peer, {m})
        BY <2>5, <2>6
    <3> QED
        BY <1>o, <2>2, <2>7, <3>1
  <2>9. PICK x : x = IF c.peer_key = {} THEN c.secret
                     ELSE UNION {agree(Fresh(u), k) : k \in c.peer_key}
      OBVIOUS
  <2>10. PICK e : e = [c EXCEPT !.state = "Connected", !.key = f, !.secret = x]
      OBVIOUS
  <2>11. call'[u] = {e} /\ \A v \in Users \ {u} : call'[v] = call[v]
      BY <1>0, <2>1, <2>2, <2>9, <2>10 DEF Shape
  <2>12. /\ e.state = "Connected" /\ e.key = f /\ e.secret = x
         /\ e.id = c.id /\ e.peer_key = c.peer_key
      BY <1>c, <2>10 DEF ActiveCalls
  <2>13. PICK a \in accepted' : a.by = u /\ a.id = c.id /\ a.key = f
    <3>1. [by |-> u, id |-> c.id, key |-> f] \in accepted'
        BY <2>1, <2>2
    <3> QED
        BY <3>1
  <2>14. c.peer_key = {c.id} => x = {c.id, f}
      BY <2>1, <2>9 DEF agree
  <2>15. CallSoundAt(u, e)'
    <3>1. c.state \in {"Offering", "Ringing", "Connected"}
        BY <1>c DEF ActiveCalls
    <3>2. CASE u = c.id[1]
      <4>1. AcceptedByCaller(e.id)'
          BY <2>12, <2>13, <3>2 DEF AcceptedByCaller
      <4> QED
          BY <2>12, <4>1 DEF CallSoundAt
    <3>3. CASE u # c.id[1] /\ c.peer_key = {c.id}
        BY <2>12, <2>13, <2>14, <3>3 DEF CallSoundAt
    <3>4. CASE u # c.id[1] /\ c.peer_key # {c.id}
      <4>1. <<u, c.id>> \in crossed \/ AcceptedByCaller(c.id)
          BY <1>c, <3>1, <3>4 DEF CallSoundAt
      <4>2. <<u, e.id>> \in crossed' \/ AcceptedByCaller(e.id)'
          BY <2>2, <2>12, <4>1 DEF AcceptedByCaller
      <4> QED
          BY <2>12, <4>2 DEF CallSoundAt
    <3> QED
        BY <3>2, <3>3, <3>4
  <2>16. CallSound'
      BY <1>k, <2>2, <2>11, <2>15
  <2> QED
      BY <1>0, <2>2, <2>8, <2>16
<1>3. ASSUME NEW u \in Users, NEW ok \in BOOLEAN, end_call(u, ok)
      PROVE  Goal
  <2>1. PICK c \in call[u] :
          /\ send_message(u, c.peer, Signal("call_end", u, c.id, NoKey), ok)
          /\ call' = IF ok THEN [call EXCEPT ![u] = {}] ELSE call
          /\ UNCHANGED <<accepted, crossed>>
      BY <1>3 DEF end_call, mediaVars
  <2>2. PICK s \in Messages : s = Signal("call_end", u, c.id, NoKey)
      BY <1>c, SignalIs
  <2>3. s.type = "call_end"
      BY <1>c, <2>2, SignalIs
  <2>4. OldOr(c.peer, {Sent(s, 1, u, c.peer)})
      BY <1>0, <1>c, <2>1, <2>2, SignalAdds
  <2>5. PICK m : m = Sent(s, 1, u, c.peer)
      OBVIOUS
  <2>6. MailSoundAt(m)'
      BY <2>3, <2>5, SentIs DEF MailSoundAt
  <2>7. MailSound'
    <3>1. OldOr(c.peer, {m})
        BY <2>4, <2>5
    <3> QED
        BY <1>o, <2>1, <2>6, <3>1
  <2>8. /\ \A v \in Users \ {u} : call'[v] = call[v]
        /\ \A d \in call'[u] : d \in call[u]
      BY <1>0, <2>1 DEF Shape
  <2>9. \A d \in call'[u] : CallSoundAt(u, d)'
      BY <1>c, <2>1, <2>8, SoundStays
  <2>10. CallSound'
      BY <1>k, <2>1, <2>8, <2>9
  <2> QED
      BY <1>0, <2>1, <2>7, <2>10
<1>4. ASSUME NEW u \in Users, NEW count \in 1..MaxChunks,
             NEW k \in 0..(MaxChunks + 1), send_call_media(u, count, k)
      PROVE  Goal
  <2>1. PICK c \in call[u], n \in Nat \ {0}, s \in [1..(count + 1) -> Messages] :
          /\ n = count + 1 /\ Len(s) = n /\ k \in 0..n
          /\ send_all(u, c.peer, s, k)
          /\ \A i \in 1..n : Chunk(s[i], u, c)
      BY <1>0, <1>4, StreamIs
  <2>2. Grown(u, c.peer, s, n, k)
      BY <1>0, <1>c, <2>1, QueueGrows
  <2>3. UNCHANGED <<call, accepted, crossed>>
      BY <1>4 DEF send_call_media
  <2>4. PICK S : S = {Sent(s[i], i, u, c.peer) : i \in 1..k}
      OBVIOUS
  <2>5. OldOr(c.peer, S)
      BY <1>0, <1>c, <2>1, <2>2, <2>4, StreamAdds
  <2>6. ASSUME NEW m \in S PROVE MailSoundAt(m)'
    <3>1. PICK i \in 1..k : m = Sent(s[i], i, u, c.peer)
        BY <2>4
    <3>2. i \in 1..n
        BY <2>1
    <3>3. s[i] \in Messages
        BY <2>1, <3>2
    <3>4. m.type = "media_chunk"
        BY <2>1, <3>1, <3>2, <3>3, SentIs DEF Chunk
    <3> QED
        BY <3>4 DEF MailSoundAt
  <2>7. MailSound'
      BY <1>o, <2>3, <2>5, <2>6
  <2>8. CallSound'
      BY <1>n, <2>3
  <2> QED
      BY <1>0, <2>3, <2>7, <2>8
<1>5. ASSUME NEW u \in Users, process_call_offer(u) PROVE Goal
  <2>1. /\ NextSignal(u, "call_offer")
        /\ UNCHANGED <<accepted, crossed>>
      BY <1>5 DEF process_call_offer, mediaVars
  <2>2. PICK m : m = Head(queue[u])
      OBVIOUS
  <2>3. Took(u) /\ m.type = "call_offer" /\ m.from # u
      BY <1>0, <2>1, <2>2, SignalTaken
  <2>h. m = queue[u][1] /\ 1 \in Places(u)
      BY <2>2, <2>3 DEF Took, Places
  <2>4. MailSound'
      BY <1>m, <2>1, <2>3, TakenKeeps
  <2>5. m.key = m.id /\ m.from = m.id[1]
      BY <1>0, <2>3, <2>h DEF MailSound, MailSoundAt
  <2>6. PICK f : f = Fresh(u)
      OBVIOUS
  <2>7. PICK c : c = [peer |-> m.from, id |-> m.id, key |-> f,
                      peer_key |-> {m.key}, secret |-> {}, state |-> "Ringing"]
      OBVIOUS
  <2>8. call'[u] = {c} /\ \A v \in Users \ {u} : call'[v] = call[v]
      BY <1>0, <1>5, <2>2, <2>6, <2>7 DEF process_call_offer, Shape
  <2>9. CallSoundAt(u, c)'
      BY <2>3, <2>5, <2>7 DEF CallSoundAt
  <2>10. CallSound'
      BY <1>k, <2>1, <2>8, <2>9
  <2> QED
      BY <1>0, <2>1, <2>4, <2>10
<1>6. ASSUME NEW u \in Users, process_call_accept(u) PROVE Goal
  <2>1. NextSignal(u, "call_accept") /\ UNCHANGED accepted
      BY <1>6 DEF process_call_accept, mediaVars
  <2>2. PICK m : m = Head(queue[u])
      OBVIOUS
  <2>3. Took(u) /\ m.type = "call_accept" /\ m.from # u
      BY <1>0, <2>1, <2>2, SignalTaken
  <2>h. m = queue[u][1] /\ 1 \in Places(u)
      BY <2>2, <2>3 DEF Took, Places
  <2> DEFINE waiting == {c \in call[u] : c.state \in {"Offering", "Ringing"}}
             joined(c) == [c EXCEPT !.peer_key = {m.key}, !.state = "Connected",
                                    !.secret = agree(c.key, m.key)]
             cross == {<<u, c.id>> : c \in {d \in waiting : d.id # m.id
                                                         \/ d.peer # m.from}}
  <2>4. /\ call' = [call EXCEPT ![u] = IF waiting = {} THEN @
                                       ELSE {joined(c) : c \in waiting}]
        /\ crossed' = crossed \cup cross
      BY <1>6, <2>2 DEF process_call_accept
  <2>5. MailSound'
      BY <1>m, <2>1, <2>3, <2>4, TakenKeeps
  <2>6. PICK a \in accepted : a.by = m.from /\ a.id = m.id /\ a.key = m.key
    <3>1. [by |-> m.from, id |-> m.id, key |-> m.key] \in accepted
        BY <1>0, <2>3, <2>h DEF MailSound, MailSoundAt
    <3> QED
        BY <3>1
  <2>7. /\ call'[u] = IF waiting = {} THEN call[u]
                      ELSE {joined(c) : c \in waiting}
        /\ \A v \in Users \ {u} : call'[v] = call[v]
      BY <1>0, <2>4 DEF Shape
  <2>8. \A c \in waiting : /\ joined(c).state = "Connected"
                           /\ joined(c).id = c.id /\ joined(c).key = c.key
                           /\ joined(c).secret = {c.key, m.key}
      BY <1>c DEF ActiveCalls, agree
  <2>9. \A c \in waiting : c.id # m.id \/ c.peer # m.from =>
          <<u, c.id>> \in crossed'
      BY <2>4
  <2>10. \A c \in waiting : c \in call[u] /\ c.state \in {"Offering", "Ringing"}
      OBVIOUS
  <2> HIDE DEF waiting, joined, cross
  <2>11. ASSUME NEW c \in waiting, NEW e, e = joined(c)
         PROVE  CallSoundAt(u, e)'
    <3>1. CASE <<u, c.id>> \in crossed'
        BY <2>8, <2>11, <3>1 DEF CallSoundAt
    <3>2. CASE c.id = m.id /\ c.peer = m.from /\ c.state = "Offering"
      <4>1. c.id[1] = u /\ c.key = c.id
          BY <1>c, <2>10, <3>2 DEF CallSoundAt
      <4> QED
          BY <2>1, <2>6, <2>8, <2>11, <3>2, <4>1 DEF CallSoundAt
    <3>3. CASE c.id = m.id /\ c.peer = m.from /\ c.state = "Ringing"
      <4>1. c.id[1] = m.from
          BY <1>c, <2>10, <3>3 DEF CallSoundAt
      <4>2. AcceptedByCaller(e.id)'
          BY <2>1, <2>6, <2>8, <2>11, <3>3, <4>1 DEF AcceptedByCaller
      <4> QED
          BY <2>8, <2>11, <4>2 DEF CallSoundAt
    <3> QED
        BY <2>9, <2>10, <3>1, <3>2, <3>3
  <2>12. ASSUME NEW e \in call'[u] PROVE CallSoundAt(u, e)'
    <3>1. CASE waiting = {}
        BY <1>c, <2>1, <2>4, <2>7, <3>1, SoundStays
    <3>2. CASE waiting # {}
      <4>1. PICK c \in waiting : e = joined(c)
          BY <2>7, <3>2
      <4> QED
          BY <2>11, <4>1
    <3> QED
        BY <3>1, <3>2
  <2>13. CallSound'
      BY <1>k, <2>1, <2>4, <2>7, <2>12
  <2> QED
      BY <1>0, <2>1, <2>5, <2>13
<1>7. ASSUME NEW u \in Users, process_call_end(u) PROVE Goal
  <2>1. /\ NextSignal(u, "call_end") /\ call' = [call EXCEPT ![u] = {}]
        /\ UNCHANGED <<accepted, crossed>>
      BY <1>7 DEF process_call_end, mediaVars
  <2>2. Took(u)
      BY <1>0, <2>1, SignalTaken
  <2>3. MailSound'
      BY <1>m, <2>1, <2>2, TakenKeeps
  <2>4. call'[u] = {} /\ \A v \in Users \ {u} : call'[v] = call[v]
      BY <1>0, <2>1 DEF Shape
  <2>5. CallSound'
      BY <1>k, <2>1, <2>4
  <2> QED
      BY <1>0, <2>1, <2>3, <2>5
<1>8. ASSUME NEW u \in Users, process_media_chunk(u) PROVE Goal
  <2>1. /\ NextSignal(u, "media_chunk")
        /\ UNCHANGED <<call, accepted, crossed>>
      BY <1>8 DEF process_media_chunk
  <2>2. Took(u)
      BY <1>0, <2>1, SignalTaken
  <2>3. MailSound'
      BY <1>m, <2>1, <2>2, TakenKeeps
  <2>4. CallSound'
      BY <1>n, <2>1
  <2> QED
      BY <2>3, <2>4
<1>9. ASSUME NEW u \in Users, pass_over(u) PROVE Goal
  <2>1. /\ queue[u] # <<>> /\ queue' = [queue EXCEPT ![u] = Tail(@)]
        /\ UNCHANGED <<call, accepted, crossed>>
      BY <1>9 DEF pass_over, mediaVars
  <2>2. Took(u)
      BY <1>0, <2>1, QueueShrinks
  <2>3. MailSound'
      BY <1>m, <2>1, <2>2, TakenKeeps
  <2>4. CallSound'
      BY <1>n, <2>1
  <2> QED
      BY <1>0, <2>1, <2>3, <2>4
<1>10. ASSUME UNCHANGED vars PROVE Goal
  <2>1. UNCHANGED <<call, queue, accepted, crossed>>
      BY <1>10 DEF vars
  <2>2. MailSound'
      BY <1>0, <2>1 DEF MailSound, MailSoundAt, Places
  <2>3. CallSound'
      BY <1>n, <2>1
  <2> QED
      BY <2>2, <2>3
<1>11. Goal
    BY <1>1, <1>2, <1>3, <1>4, <1>5, <1>6, <1>7, <1>8, <1>9, <1>10
       DEF Next, process_call_signal
<1> QED
    BY <1>0, <1>11 DEF SecretInv

\* The invariant of the secrets holds in every reachable state.
LEMMA SecretInductive == Spec => []SecretInv
<1>1. Init => SecretInv
  <2> SUFFICES ASSUME Init PROVE SecretInv
      OBVIOUS
  <2>1. Shape
      BY CallsAssumption, EmptySeq DEF Init, Shape
  <2>2. \A v \in Users : Len(queue[v]) = 0 /\ call[v] = {}
      BY DEF Init
  <2>3. MailSound /\ CallSound
      BY <2>2 DEF Init, MailSound, CallSound, Places
  <2> QED
      BY <2>1, <2>3 DEF SecretInv
<1> QED
    BY <1>1, SecretStep, PTL DEF Spec

(***************************************************************************)
(* SameSecret: for any users and any crossing, loss or refusal of signals, *)
(* the two ends of a call that was accepted once by the user called hold   *)
(* the same media secret.                                                  *)
(***************************************************************************)
THEOREM SameSecret == Spec => []SecretsAgree
<1>1. SecretInv => SecretsAgree
  <2> SUFFICES ASSUME SecretInv, NEW u \in Users, NEW v \in Users,
                      NEW c \in call[u], NEW d \in call[v],
                      u # v, c.id = d.id, Straight(c.id),
                      c.state = "Connected", d.state = "Connected"
               PROVE  c.secret = d.secret /\ c.secret = {c.key, d.key}
      BY DEF SecretsAgree
  <2>1. PICK a \in accepted : /\ a.by # c.id[1]
                              /\ {b \in accepted : b.id = c.id} = {a}
      BY DEF Straight
  <2>2. \A b \in accepted : b.id = c.id => b = a
      BY <2>1
  <2>3. ~AcceptedByCaller(c.id)
      BY <2>1, <2>2 DEF AcceptedByCaller
  <2>4. <<u, c.id>> \notin crossed /\ <<v, c.id>> \notin crossed
      BY DEF Straight
  <2>5. CallSoundAt(u, c) /\ CallSoundAt(v, d)
      BY DEF SecretInv, CallSound
  <2>6. \/ u = c.id[1] /\ c.key = c.id /\ c.secret = {c.id, a.key}
        \/ u # c.id[1] /\ c.key = a.key /\ a.by = u /\ c.secret = {c.id, a.key}
      BY <2>2, <2>3, <2>4, <2>5 DEF CallSoundAt
  <2>7. \/ v = c.id[1] /\ d.key = c.id /\ d.secret = {c.id, a.key}
        \/ v # c.id[1] /\ d.key = a.key /\ a.by = v /\ d.secret = {c.id, a.key}
      BY <2>2, <2>3, <2>4, <2>5 DEF CallSoundAt
  <2> QED
      BY <2>6, <2>7
<1> QED
    BY <1>1, SecretInductive, PTL
-----------------------------------------------------------------------------
(***************************************************************************)
(* Peers.  Until a message is refused or lost, the peer of every call is   *)
(* someone one has a session with (Peered): a signal was sent to it or     *)
(* came from it.                                                           *)
(***************************************************************************)
Peered == \A u \in Users : \A c \in call[u] : c.peer = u \/ c.peer \in sessions[u]

PeerInv == SecretInv /\ (faults = 0 => Peered)

(***************************************************************************)
(* PeerStep: every command and every handled message keeps it.             *)
(***************************************************************************)
LEMMA PeerStep == PeerInv /\ [Next]_vars => PeerInv'
<1> SUFFICES ASSUME PeerInv, [Next]_vars PROVE PeerInv'
    OBVIOUS
<1> USE CallsAssumption
<1>0. Shape /\ SecretInv /\ SecretInv' /\ faults \in Nat
    BY SecretStep DEF PeerInv, SecretInv, Shape
<1> DEFINE Goal == faults' = 0 => Peered'
           Known == \A v \in Users : sessions[v] \subseteq sessions'[v]
<1>f. faults = 0 => Peered
    BY DEF PeerInv
<1>c. ASSUME NEW u \in Users, NEW c \in call[u]
      PROVE  c \in ActiveCalls /\ c.peer \in Users /\ c.id \in Keys
    BY <1>0, <1>c DEF Shape, ActiveCalls
<1>p. ASSUME Peered, Known, NEW u \in Users,
             \A v \in Users \ {u} : call'[v] = call[v],
             \A c \in call'[u] : \/ c.peer = u \/ c.peer \in sessions'[u]
                                 \/ \E d \in call[u] : c.peer = d.peer
      PROVE  Peered'
    BY <1>p DEF Peered
<1>1. ASSUME NEW u \in Users, NEW peer \in Users, NEW ok \in BOOLEAN,
             start_call(u, peer, ok)
      PROVE  Goal
  <2>1. PICK f \in Keys : f = Fresh(u)
      BY <1>0, FreshType
  <2>2. PICK s \in Messages : s = Signal("call_offer", u, f, f)
      BY <2>1, SignalIs
  <2>3. send_message(u, peer, s, ok)
      BY <1>1, <2>1, <2>2 DEF start_call
  <2>4. Posted(u, peer, s, ok)
      BY <1>0, <2>3, SignalSent
  <2>5. /\ \A c \in call'[u] : c.peer = peer
        /\ \A v \in Users \ {u} : call'[v] = call[v]
      BY <1>0, <1>1 DEF start_call, Shape
  <2> SUFFICES ASSUME faults' = 0 PROVE Peered'
      OBVIOUS
  <2>6. ok /\ faults = 0
      BY <1>0, <2>4 DEF Posted
  <2>7. Known /\ (peer = u \/ peer \in sessions'[u])
      BY <2>4, <2>6 DEF Posted
  <2> QED
      BY <1>f, <1>p, <2>5, <2>6, <2>7
<1>2. ASSUME NEW u \in Users, NEW ok \in BOOLEAN, accept_call(u, ok)
      PROVE  Goal
  <2>1. PICK f \in Keys : f = Fresh(u)
      BY <1>0, FreshType
  <2>2. PICK c \in call[u] :
          /\ \E x : call' = [call EXCEPT ![u] =
                {[c EXCEPT !.state = "Connected", !.key = Fresh(u),
                           !.secret = x]}]
          /\ send_message(u, c.peer, Signal("call_accept", u, c.id, Fresh(u)), ok)
      BY <1>2 DEF accept_call
  <2>3. PICK s \in Messages : s = Signal("call_accept", u, c.id, f)
      BY <1>c, <2>1, SignalIs
  <2>4. Posted(u, c.peer, s, ok)
      BY <1>0, <1>c, <2>1, <2>2, <2>3, SignalSent
  <2>5. /\ \A e \in call'[u] : e.peer = c.peer
        /\ \A v \in Users \ {u} : call'[v] = call[v]
    <3>1. PICK x : call' = [call EXCEPT ![u] =
                     {[c EXCEPT !.state = "Connected", !.key = Fresh(u),
                                !.secret = x]}]
        BY <2>2
    <3> QED
        BY <1>0, <1>c, <3>1 DEF Shape, ActiveCalls
  <2> SUFFICES ASSUME faults' = 0 PROVE Peered'
      OBVIOUS
  <2>6. ok /\ faults = 0 /\ Known
      BY <1>0, <2>4 DEF Posted
  <2> QED
      BY <1>f, <1>p, <2>5, <2>6
<1>3. ASSUME NEW u \in Users, NEW ok \in BOOLEAN, end_call(u, ok)
      PROVE  Goal
  <2>1. PICK c \in call[u] :
          /\ send_message(u, c.peer, Signal("call_end", u, c.id, NoKey), ok)
          /\ call' = IF ok THEN [call EXCEPT ![u] = {}] ELSE call
      BY <1>3 DEF end_call
  <2>2. PICK s \in Messages : s = Signal("call_end", u, c.id, NoKey)
      BY <1>c, SignalIs
  <2>3. Posted(u, c.peer, s, ok)
      BY <1>0, <1>c, <2>1, <2>2, SignalSent
  <2> SUFFICES ASSUME faults' = 0 PROVE Peered'
      OBVIOUS
  <2>4. ok /\ faults = 0 /\ Known
      BY <1>0, <2>3 DEF Posted
  <2>5. call'[u] = {} /\ \A v \in Users \ {u} : call'[v] = call[v]
      BY <1>0, <2>1, <2>4 DEF Shape
  <2> QED
      BY <1>f, <1>p, <2>4, <2>5
<1>4. ASSUME NEW u \in Users, NEW count \in 1..MaxChunks,
             NEW k \in 0..(MaxChunks + 1), send_call_media(u, count, k)
      PROVE  Goal
  <2>1. PICK c \in call[u], n \in Nat \ {0}, s \in [1..(count + 1) -> Messages] :
          /\ n = count + 1 /\ Len(s) = n /\ k \in 0..n
          /\ send_all(u, c.peer, s, k)
      BY <1>0, <1>4, StreamIs
  <2>2. Grown(u, c.peer, s, n, k)
      BY <1>0, <1>c, <2>1, QueueGrows
  <2>3. call' = call
      BY <1>4 DEF send_call_media
  <2> SUFFICES ASSUME faults' = 0 PROVE Peered'
      OBVIOUS
  <2>4. faults = 0
    <3>1. faults' = faults \/ faults' = faults + 1
        BY <2>2 DEF Grown
    <3> QED
        BY <1>0, <3>1
  <2>5. Known
    <3>1. /\ \A v \in Users \ {u} : sessions'[v] = sessions[v]
          /\ sessions[u] \subseteq sessions'[u]
        BY <2>2 DEF Grown
    <3> QED
        BY <3>1
  <2> QED
      BY <1>f, <2>3, <2>4, <2>5 DEF Peered
<1>5. ASSUME NEW u \in Users, process_call_offer(u) PROVE Goal
  <2>1. NextSignal(u, "call_offer") /\ UNCHANGED faults
      BY <1>5 DEF process_call_offer
  <2>2. Known /\ Head(queue[u]).from \in sessions'[u]
      BY <1>0, <2>1, SignalTaken
  <2>3. /\ \A c \in call'[u] : c.peer = Head(queue[u]).from
        /\ \A v \in Users \ {u} : call'[v] = call[v]
      BY <1>0, <1>5 DEF process_call_offer, Shape
  <2> QED
      BY <1>f, <1>p, <2>1, <2>2, <2>3
<1>6. ASSUME NEW u \in Users, process_call_accept(u) PROVE Goal
  <2>1. NextSignal(u, "call_accept") /\ UNCHANGED faults
      BY <1>6 DEF process_call_accept
  <2>2. Known
      BY <1>0, <2>1, SignalTaken
  <2>3. /\ \A c \in call'[u] : \E d \in call[u] : c.peer = d.peer
        /\ \A v \in Users \ {u} : call'[v] = call[v]
    <3> DEFINE waiting == {c \in call[u] : c.state \in {"Offering", "Ringing"}}
               m == Head(queue[u])
               joined(c) == [c EXCEPT !.peer_key = {m.key}, !.state = "Connected",
                                      !.secret = agree(c.key, m.key)]
    <3>1. call' = [call EXCEPT ![u] = IF waiting = {} THEN @
                                      ELSE {joined(c) : c \in waiting}]
        BY <1>6 DEF process_call_accept
    <3>2. \A c \in waiting : joined(c).peer = c.peer /\ c \in call[u]
        BY <1>c DEF ActiveCalls
    <3> HIDE DEF waiting, joined
    <3>3. /\ call'[u] = IF waiting = {} THEN call[u]
                        ELSE {joined(c) : c \in waiting}
          /\ \A v \in Users \ {u} : call'[v] = call[v]
        BY <1>0, <3>1 DEF Shape
    <3> QED
        BY <3>2, <3>3
  <2> QED
      BY <1>f, <1>p, <2>1, <2>2, <2>3
<1>7. ASSUME NEW u \in Users, process_call_end(u) PROVE Goal
  <2>1. /\ NextSignal(u, "call_end") /\ call' = [call EXCEPT ![u] = {}]
        /\ UNCHANGED faults
      BY <1>7 DEF process_call_end
  <2>2. Known
      BY <1>0, <2>1, SignalTaken
  <2>3. call'[u] = {} /\ \A v \in Users \ {u} : call'[v] = call[v]
      BY <1>0, <2>1 DEF Shape
  <2> QED
      BY <1>f, <1>p, <2>1, <2>2, <2>3
<1>8. ASSUME NEW u \in Users, process_media_chunk(u) PROVE Goal
  <2>1. NextSignal(u, "media_chunk") /\ UNCHANGED <<call, faults>>
      BY <1>8 DEF process_media_chunk
  <2>2. Known
      BY <1>0, <2>1, SignalTaken
  <2> QED
      BY <1>f, <2>1, <2>2 DEF Peered
<1>9. ASSUME NEW u \in Users, pass_over(u) PROVE Goal
  <2>1. /\ UNCHANGED <<call, sessions>>
        /\ faults' = faults \/ faults' = faults + 1
      BY <1>9 DEF pass_over
  <2>2. faults' = 0 => faults = 0
      BY <1>0, <2>1
  <2> QED
      BY <1>f, <2>1, <2>2 DEF Peered
<1>10. ASSUME UNCHANGED vars PROVE Goal
    BY <1>f, <1>10 DEF vars, Peered
<1>11. Goal
    BY <1>1, <1>2, <1>3, <1>4, <1>5, <1>6, <1>7, <1>8, <1>9, <1>10
       DEF Next, process_call_signal
<1> QED
    BY <1>0, <1>11 DEF PeerInv

\* It holds in every reachable state.
LEMMA PeerInductive == Spec => []PeerInv
<1>1. Init /\ SecretInv => PeerInv
    BY DEF Init, PeerInv, Peered
<1> QED
    BY <1>1, PeerStep, SecretInductive, PTL DEF Spec
-----------------------------------------------------------------------------
(***************************************************************************)
(* Ends of calls, first: who can be in a call.  IdsKnown: the id of a call *)
(* is a key that was generated.  Roles: a call is one of its caller with   *)
(* the peer it was offered to; besides the caller at most one user holds   *)
(* it, as a call or as an offer that waits, and never as both or twice.    *)
(***************************************************************************)
Offers(v) == {i \in Places(v) : queue[v][i].type = "call_offer"}

Holds(v, k) ==
    /\ v # k[1]
    /\ \/ \E c \in call[v] : c.id = k
       \/ \E i \in Offers(v) : queue[v][i].id = k

Generated(k) == k[2] =< keys[k[1]]

IdsKnown ==
    /\ \A u \in Users : \A c \in call[u] : Generated(c.id)
    /\ \A u \in Users : \A i \in Places(u) : Generated(queue[u][i].id)
    /\ ended \subseteq Keys /\ \A k \in ended : Generated(k)

CallerOrPeer ==
    \A u \in Users : \A c \in call[u] : c.id[1] \in {u, c.peer}
HeldOnce ==
    \A u, v \in Users : \A k \in Keys : Holds(u, k) /\ Holds(v, k) => u = v
HeldByPeer ==
    \A u, v \in Users : \A c \in call[u] :
        c.id[1] = u /\ Holds(v, c.id) => v = c.peer
NotTwice ==
    \A u \in Users : \A i \in Offers(u) :
        /\ \A c \in call[u] : c.id = queue[u][i].id => c.id[1] = u
        /\ \A j \in Offers(u) : queue[u][j].id = queue[u][i].id => j = i

Roles == CallerOrPeer /\ HeldOnce /\ HeldByPeer /\ NotTwice

(***************************************************************************)
(* Until a message is refused or lost: a user who has a session with       *)
(* someone is known to that one, or the first message of that session      *)
(* waits (Met); every message that waits is preceded by the first of its   *)
(* session (Introduced); and where a call that was ended is still held, a  *)
(* call_end waits behind it (EndPending).                                  *)
(***************************************************************************)
IntroducedBy(v, u, i) ==
    \/ u \in sessions[v]
    \/ \E j \in Places(v) : j =< i /\ queue[v][j].first /\ queue[v][j].from = u

Met ==
    \A u, v \in Users :
        u # v /\ v \in sessions[u] => IntroducedBy(v, u, Len(queue[v]))
Introduced ==
    \A v \in Users : \A i \in Places(v) :
        LET u == queue[v][i].from
        IN u # v => v \in sessions[u] /\ IntroducedBy(v, u, i)

EndBehind(v, i) ==
    \E j \in Places(v) :
        j > i /\ queue[v][j].type = "call_end" /\ queue[v][j].from # v

EndPending ==
    \A v \in Users :
        /\ \A c \in call[v] : c.id \in ended => EndBehind(v, 0)
        /\ \A i \in Offers(v) :
             queue[v][i].from # v /\ queue[v][i].id \in ended => EndBehind(v, i)

EndInv ==
    /\ PeerInv /\ IdsKnown /\ Roles
    /\ faults = 0 => Met /\ Introduced /\ EndPending

\* Appended: what waits stays where it is, and messages of S follow it in the
\* queue of peer.
AppendedTo(v, peer, S) ==
    /\ 1..Len(queue[v]) \subseteq 1..Len(queue'[v])
    /\ Len(queue[v]) \in Nat /\ Len(queue'[v]) \in Nat
    /\ \A i \in 1..Len(queue[v]) : queue'[v][i] = queue[v][i]
    /\ \A i \in 1..Len(queue'[v]) :
         \/ i \in 1..Len(queue[v])
         \/ i > Len(queue[v]) /\ v = peer /\ queue'[v][i] \in S
Appended(peer, S) == \A v \in Users : AppendedTo(v, peer, S)

\* A signal, and a stream, are appended.
LEMMA SignalAppends ==
    ASSUME Shape, NEW u \in Users, NEW peer \in Users, NEW s, NEW ok \in BOOLEAN,
           Posted(u, peer, s, ok)
    PROVE  /\ Appended(peer, {Sent(s, 1, u, peer)})
           /\ ok => /\ Len(queue[peer]) + 1 \in 1..Len(queue'[peer])
                    /\ queue'[peer][Len(queue[peer]) + 1] = Sent(s, 1, u, peer)
<1>1. \A v \in Users : Len(queue[v]) \in Nat
    BY LenProperties DEF Shape
<1>2. \A v \in Users \ {peer} : queue'[v] = queue[v]
    BY DEF Posted
<1>3. /\ Len(queue'[peer]) = Len(queue[peer])
         \/ Len(queue'[peer]) = Len(queue[peer]) + 1
      /\ \A i \in 1..Len(queue[peer]) : queue'[peer][i] = queue[peer][i]
    BY DEF Posted
<1>4. Len(queue'[peer]) = Len(queue[peer]) + 1 =>
        queue'[peer][Len(queue[peer]) + 1] = Sent(s, 1, u, peer)
    BY <1>1 DEF Posted
<1>5. ok => Len(queue'[peer]) = Len(queue[peer]) + 1
    BY DEF Posted
<1>6. ASSUME NEW v \in Users
      PROVE  AppendedTo(v, peer, {Sent(s, 1, u, peer)})
  <2>1. CASE v # peer
    <3>1. queue'[v] = queue[v]
        BY <1>2, <2>1
    <3> QED
        BY <1>1, <3>1 DEF AppendedTo
  <2>2. CASE v = peer
    <3>1. Len(queue[peer]) \in Nat
        BY <1>1
    <3> QED
        BY <1>3, <1>4, <2>2, <3>1 DEF AppendedTo
  <2> QED
      BY <2>1, <2>2
<1>7. Appended(peer, {Sent(s, 1, u, peer)})
    BY <1>6 DEF Appended
<1>8. Len(queue[peer]) \in Nat
    BY <1>1
<1> QED
    BY <1>4, <1>5, <1>7, <1>8

LEMMA StreamAppends ==
    ASSUME Shape, NEW u, NEW peer \in Users, NEW s, NEW n \in Nat,
           NEW k \in 0..n, Grown(u, peer, s, n, k),
           NEW S, \A i \in 1..k : Sent(s[i], i, u, peer) \in S
    PROVE  Appended(peer, S)
<1>1. \A v \in Users : Len(queue[v]) \in Nat
    BY LenProperties DEF Shape
<1>2. \A v \in Users \ {peer} : queue'[v] = queue[v]
    BY DEF Grown
<1>3. /\ Len(queue'[peer]) = Len(queue[peer]) + k
      /\ \A i \in 1..Len(queue[peer]) : queue'[peer][i] = queue[peer][i]
    BY DEF Grown
<1>l. PICK l \in Nat : l = Len(queue[peer])
    BY <1>1
<1>4. ASSUME NEW i \in 1..Len(queue'[peer]), i \notin 1..Len(queue[peer])
      PROVE  i > Len(queue[peer]) /\ queue'[peer][i] \in S
  <2>1. i \in 1..(l + k) /\ i \notin 1..l /\ k \in Nat
      BY <1>3, <1>4, <1>l
  <2>2. i - l \in 1..k /\ i = l + (i - l) /\ i > l
      BY <2>1
  <2>3. queue'[peer][Len(queue[peer]) + (i - l)] = Sent(s[i - l], i - l, u, peer)
      BY <2>2 DEF Grown
  <2> QED
      BY <2>2, <2>3, <1>l
<1>5. ASSUME NEW v \in Users
      PROVE  AppendedTo(v, peer, S)
  <2>1. CASE v # peer
    <3>1. queue'[v] = queue[v]
        BY <1>2, <2>1
    <3> QED
        BY <1>1, <3>1 DEF AppendedTo
  <2>2. CASE v = peer
    <3>1. Len(queue[peer]) \in Nat
        BY <1>1
    <3> QED
        BY <1>3, <1>4, <2>2, <3>1 DEF AppendedTo
  <2> QED
      BY <2>1, <2>2
<1> QED
    BY <1>5 DEF Appended
-----------------------------------------------------------------------------
\* The id of a new call is that of no call, message or end so far.
LEMMA FreshId ==
    ASSUME Shape, IdsKnown, NEW u \in Users, NEW f, f = Fresh(u)
    PROVE  /\ \A v \in Users : \A c \in call[v] : c.id # f
           /\ \A v \in Users : \A i \in Places(v) : queue[v][i].id # f
           /\ f \notin ended
<1>1. f[1] = u /\ f[2] = keys[u] + 1 /\ keys[u] \in Nat
    BY FreshType DEF Shape
<1>2. ~Generated(f)
    BY <1>1 DEF Generated
<1> QED
    BY <1>2 DEF IdsKnown

\* IdsKept: ids that were generated stay so, and new ones are added to them.
LEMMA IdsKept ==
    ASSUME Shape, IdsKnown, \A v \in Users : keys'[v] >= keys[v],
           keys' \in [Users -> Nat],
           NEW peer, NEW S, OldOr(peer, S), \A m \in S : Generated(m.id)',
           \A m \in S : m \in Messages,
           \A v \in Users : \A c \in call'[v] :
             Generated(c.id)' \/ \E d \in call[v] : d.id = c.id,
           ended' \subseteq Keys,
           \A k \in ended' : k \in ended \/ Generated(k)'
    PROVE  IdsKnown'
<1>1. ASSUME NEW k \in Keys, Generated(k) PROVE Generated(k)'
  <2>1. k[1] \in Users /\ k[2] \in Nat
      BY DEF Keys
  <2>2. keys[k[1]] \in Nat /\ keys'[k[1]] \in Nat
      BY <2>1 DEF Shape
  <2> QED
      BY <1>1, <2>1, <2>2 DEF Generated
<1>2. \A v \in Users : \A c \in call[v] : c.id \in Keys
    BY DEF Shape, ActiveCalls
<1>3. \A v \in Users : \A i \in Places(v) : queue[v][i].id \in Keys
  <2> SUFFICES ASSUME NEW v \in Users, NEW i \in Places(v)
               PROVE  queue[v][i].id \in Keys
      OBVIOUS
  <2>1. queue[v][i] \in Messages
      BY ElementOfSeq DEF Shape, Places
  <2> QED
      BY <2>1, KindOf
<1>4. \A v \in Users : \A c \in call'[v] : Generated(c.id)'
    BY <1>1, <1>2 DEF IdsKnown
<1>5. ASSUME NEW v \in Users, NEW i \in 1..Len(queue'[v])
      PROVE  Generated(queue[v][i].id)'
  <2>1. CASE \E j \in Places(v) : queue'[v][i] = queue[v][j]
    <3>1. PICK j \in Places(v) : queue'[v][i] = queue[v][j]
        BY <2>1
    <3>2. PICK k \in Keys : k = queue[v][j].id /\ Generated(k)
        BY <1>3 DEF IdsKnown
    <3>3. Generated(k)'
        BY <1>1, <3>2
    <3> QED
        BY <3>1, <3>2, <3>3 DEF Generated
  <2>2. CASE queue'[v][i] \in S
    <3>1. PICK m \in S : m = queue'[v][i]
        BY <2>2
    <3>2. Generated(m.id)'
        OBVIOUS
    <3> QED
        BY <3>1, <3>2 DEF Generated
  <2> QED
      BY <2>1, <2>2 DEF OldOr
<1>6. \A k \in ended' : Generated(k)'
    BY <1>1 DEF IdsKnown
<1> QED
    BY <1>4, <1>5, <1>6 DEF IdsKnown, Places

\* OffersKept: the offers that wait after a step waited before, at the same
\* place or one place behind it.  CallsKept: the calls after a step were there
\* before.
OffersKept ==
    \A v \in Users : \E d \in {0, 1} : \A i \in 1..Len(queue'[v]) :
        queue'[v][i].type = "call_offer" =>
            i + d \in Offers(v) /\ queue'[v][i] = queue[v][i + d]
CallsKept ==
    \A v \in Users : \A c \in call'[v] :
        \E d \in call[v] : d.id = c.id /\ d.peer = c.peer

LEMMA TakenOffers ==
    ASSUME NEW u \in Users, Took(u)
    PROVE  OffersKept
<1> SUFFICES ASSUME NEW v \in Users
             PROVE  \E d \in {0, 1} : \A i \in 1..Len(queue'[v]) :
                      queue'[v][i].type = "call_offer" =>
                        i + d \in Offers(v) /\ queue'[v][i] = queue[v][i + d]
    BY DEF OffersKept
<1>1. CASE v = u
  <2>1. \A i \in 1..Len(queue'[u]) :
          i + 1 \in 1..Len(queue[u]) /\ queue'[u][i] = queue[u][i + 1]
      BY DEF Took
  <2> QED
      BY <1>1, <2>1 DEF Offers, Places
<1>2. CASE v # u
  <2>1. queue'[v] = queue[v]
      BY <1>2 DEF Took
  <2>2. \A i \in 1..Len(queue'[v]) : i + 0 = i
      OBVIOUS
  <2> QED
      BY <2>1, <2>2 DEF Offers, Places
<1> QED
    BY <1>1, <1>2

LEMMA AppendedOffers ==
    ASSUME NEW peer, NEW S, Appended(peer, S), \A m \in S : m.type # "call_offer"
    PROVE  OffersKept
<1> SUFFICES ASSUME NEW v \in Users
             PROVE  \E d \in {0, 1} : \A i \in 1..Len(queue'[v]) :
                      queue'[v][i].type = "call_offer" =>
                        i + d \in Offers(v) /\ queue'[v][i] = queue[v][i + d]
    BY DEF OffersKept
<1>1. \A i \in 1..Len(queue'[v]) :
        queue'[v][i].type = "call_offer" =>
          i \in 1..Len(queue[v]) /\ queue'[v][i] = queue[v][i]
    BY DEF Appended, AppendedTo
<1>2. \A i \in 1..Len(queue'[v]) : i + 0 = i
    OBVIOUS
<1> QED
    BY <1>1, <1>2 DEF Offers, Places

\* RolesKept: a step that adds neither calls nor offers keeps the roles.
LEMMA RolesKept ==
    ASSUME Roles, OffersKept, CallsKept
    PROVE  Roles'
<1>1. ASSUME NEW v \in Users, NEW k, Holds(v, k)' PROVE Holds(v, k)
  <2>1. v # k[1]
      BY <1>1 DEF Holds
  <2>2. CASE \E c \in call'[v] : c.id = k
      BY <2>1, <2>2 DEF Holds, CallsKept
  <2>3. CASE \E i \in Offers(v)' : queue'[v][i].id = k
    <3>1. PICK i \in 1..Len(queue'[v]) : /\ queue'[v][i].type = "call_offer"
                                         /\ queue'[v][i].id = k
        BY <2>3 DEF Offers, Places
    <3>2. PICK j \in Offers(v) : queue'[v][i] = queue[v][j]
        BY <3>1 DEF OffersKept
    <3> QED
        BY <2>1, <3>1, <3>2 DEF Holds
  <2> QED
      BY <1>1, <2>2, <2>3 DEF Holds
<1>2. CallerOrPeer'
    BY DEF Roles, CallerOrPeer, CallsKept
<1>3. HeldOnce'
    BY <1>1 DEF Roles, HeldOnce
<1>4. HeldByPeer'
  <2> SUFFICES ASSUME NEW u \in Users, NEW v \in Users, NEW c \in call'[u],
                      c.id[1] = u, Holds(v, c.id)'
               PROVE  v = c.peer
      BY DEF HeldByPeer
  <2>1. PICK d \in call[u] : d.id = c.id /\ d.peer = c.peer
      BY DEF CallsKept
  <2>2. Holds(v, c.id)
      BY <1>1
  <2> QED
      BY <2>1, <2>2 DEF Roles, HeldByPeer
<1>5. NotTwice'
  <2> SUFFICES ASSUME NEW u \in Users, NEW i \in 1..Len(queue'[u]),
                      queue'[u][i].type = "call_offer"
               PROVE  /\ \A c \in call'[u] : c.id = queue'[u][i].id => c.id[1] = u
                      /\ \A j \in 1..Len(queue'[u]) :
                           /\ queue'[u][j].type = "call_offer"
                           /\ queue'[u][j].id = queue'[u][i].id
                           => j = i
      BY DEF NotTwice, Offers, Places
  <2>1. PICK d \in {0, 1} : \A j \in 1..Len(queue'[u]) :
          queue'[u][j].type = "call_offer" =>
            j + d \in Offers(u) /\ queue'[u][j] = queue[u][j + d]
      BY DEF OffersKept
  <2>2. i + d \in Offers(u) /\ queue'[u][i] = queue[u][i + d]
      BY <2>1
  <2>3. \A c \in call'[u] : c.id = queue'[u][i].id => c.id[1] = u
      BY <2>2 DEF Roles, NotTwice, CallsKept
  <2>4. ASSUME NEW j \in 1..Len(queue'[u]), queue'[u][j].type = "call_offer",
               queue'[u][j].id = queue'[u][i].id
        PROVE  j = i
    <3>1. j + d \in Offers(u) /\ queue'[u][j] = queue[u][j + d]
        BY <2>1, <2>4
    <3>2. j + d = i + d
        BY <2>2, <2>4, <3>1 DEF Roles, NotTwice
    <3> QED
        BY <3>2
  <2> QED
      BY <2>3, <2>4
<1> QED
    BY <1>2, <1>3, <1>4, <1>5 DEF Roles

\* OfferTaken: an offer that is handled becomes a call of the same holder.
LEMMA OfferTaken ==
    ASSUME Shape, MailSound, Roles, NEW u \in Users, process_call_offer(u)
    PROVE  Roles'
<1>1. NextSignal(u, "call_offer")
    BY DEF process_call_offer
<1>2. PICK m : m = Head(queue[u])
    OBVIOUS
<1>3. Took(u) /\ m.type = "call_offer" /\ m.from # u
    BY <1>1, <1>2, SignalTaken
<1>4. m = queue[u][1] /\ 1 \in Offers(u) /\ m.id[1] = m.from
  <2>1. m = queue[u][1] /\ 1 \in Places(u)
      BY <1>2, <1>3 DEF Took, Places
  <2>2. MailSoundAt(m)
      BY <2>1 DEF MailSound
  <2> QED
      BY <1>3, <2>1, <2>2 DEF Offers, MailSoundAt
<1>5. OffersKept
    BY <1>3, TakenOffers
<1>6. /\ \A c \in call'[u] : c.id = m.id /\ c.peer = m.from
      /\ \A v \in Users \ {u} : call'[v] = call[v]
    BY <1>2 DEF process_call_offer, Shape
<1>7. ASSUME NEW v \in Users, NEW k, Holds(v, k)' PROVE Holds(v, k)
  <2>1. v # k[1]
      BY <1>7 DEF Holds
  <2>2. CASE \E c \in call'[v] : c.id = k
    <3>1. CASE v = u
      <4>1. k = m.id
          BY <1>6, <2>2, <3>1
      <4> QED
          BY <1>4, <2>1, <3>1, <4>1 DEF Holds
    <3>2. CASE v # u
      <4>1. call'[v] = call[v]
          BY <1>6, <3>2
      <4> QED
          BY <2>1, <2>2, <4>1 DEF Holds
    <3> QED
        BY <3>1, <3>2
  <2>3. CASE \E i \in Offers(v)' : queue'[v][i].id = k
    <3>1. PICK i \in 1..Len(queue'[v]) : /\ queue'[v][i].type = "call_offer"
                                         /\ queue'[v][i].id = k
        BY <2>3 DEF Offers, Places
    <3>2. PICK j \in Offers(v) : queue'[v][i] = queue[v][j]
        BY <1>5, <3>1 DEF OffersKept
    <3> QED
        BY <2>1, <3>1, <3>2 DEF Holds
  <2> QED
      BY <1>7, <2>2, <2>3 DEF Holds
<1>8. CallerOrPeer'
    BY <1>4, <1>6 DEF Roles, CallerOrPeer
<1>9. HeldOnce'
    BY <1>7 DEF Roles, HeldOnce
<1>10. HeldByPeer'
  <2> SUFFICES ASSUME NEW w \in Users, NEW v \in Users, NEW c \in call'[w],
                      c.id[1] = w, Holds(v, c.id)'
               PROVE  v = c.peer
      BY DEF HeldByPeer
  <2>1. w # u
      BY <1>3, <1>4, <1>6
  <2>2. c \in call[w]
      BY <1>6, <2>1
  <2>3. Holds(v, c.id)
      BY <1>7
  <2> QED
      BY <2>2, <2>3 DEF Roles, HeldByPeer
<1>11. NotTwice'
  <2> SUFFICES ASSUME NEW w \in Users, NEW i \in 1..Len(queue'[w]),
                      queue'[w][i].type = "call_offer"
               PROVE  /\ \A c \in call'[w] : c.id = queue'[w][i].id => c.id[1] = w
                      /\ \A j \in 1..Len(queue'[w]) :
                           /\ queue'[w][j].type = "call_offer"
                           /\ queue'[w][j].id = queue'[w][i].id
                           => j = i
      BY DEF NotTwice, Offers, Places
  <2>1. PICK d \in {0, 1} : \A j \in 1..Len(queue'[w]) :
          queue'[w][j].type = "call_offer" =>
            j + d \in Offers(w) /\ queue'[w][j] = queue[w][j + d]
      BY <1>5 DEF OffersKept
  <2>2. i + d \in Offers(w) /\ queue'[w][i] = queue[w][i + d]
      BY <2>1
  <2>3. ASSUME NEW c \in call'[w], c.id = queue'[w][i].id PROVE c.id[1] = w
    <3>1. CASE w # u
      <4>1. c \in call[w]
          BY <1>6, <3>1
      <4> QED
          BY <2>2, <2>3, <4>1 DEF Roles, NotTwice
    <3>2. CASE w = u
      <4>1. /\ i + 1 \in 1..Len(queue[u])
            /\ queue'[u][i] = queue[u][i + 1] /\ i + 1 # 1
          BY <1>3, <3>2 DEF Took
      <4>2. i + 1 \in Offers(u)
          BY <3>2, <4>1 DEF Offers, Places
      <4>3. queue[u][i + 1].id = queue[u][1].id
          BY <1>4, <1>6, <2>3, <3>2, <4>1
      <4> QED
          BY <1>4, <4>1, <4>2, <4>3 DEF Roles, NotTwice
    <3> QED
        BY <3>1, <3>2
  <2>4. ASSUME NEW j \in 1..Len(queue'[w]), queue'[w][j].type = "call_offer",
               queue'[w][j].id = queue'[w][i].id
        PROVE  j = i
    <3>1. j + d \in Offers(w) /\ queue'[w][j] = queue[w][j + d]
        BY <2>1, <2>4
    <3>2. j + d = i + d
        BY <2>2, <2>4, <3>1 DEF Roles, NotTwice
    <3> QED
        BY <3>2
  <2> QED
      BY <2>3, <2>4
<1> QED
    BY <1>8, <1>9, <1>10, <1>11 DEF Roles

\* CallStarted: a new call has a new id, and its offer waits with its peer.
LEMMA CallStarted ==
    ASSUME Shape, IdsKnown, Roles, NEW u \in Users, NEW peer \in Users,
           NEW ok \in BOOLEAN, NEW s, NEW f, f = Fresh(u),
           s = Sent(Signal("call_offer", u, f, f), 1, u, peer),
           Appended(peer, {s}), start_call(u, peer, ok)
    PROVE  Roles'
<1>1. f \in Keys /\ f[1] = u
    BY FreshType
<1>2. s.id = f
    BY <1>1, SignalIs, SentIs
<1>3. /\ \A c \in call'[u] : c.id = f /\ c.peer = peer
      /\ \A v \in Users \ {u} : call'[v] = call[v]
    BY DEF start_call, Shape
<1>4. /\ \A v \in Users : \A c \in call[v] : c.id # f
      /\ \A v \in Users : \A i \in Places(v) : queue[v][i].id # f
    BY FreshId
<1>5. ASSUME NEW v \in Users, NEW i \in 1..Len(queue'[v]),
             queue'[v][i].type = "call_offer"
      PROVE  \/ i \in Offers(v) /\ queue'[v][i] = queue[v][i]
                /\ queue'[v][i].id # f
             \/ v = peer /\ queue'[v][i].id = f /\ i > Len(queue[v])
  <2>1. \/ i \in 1..Len(queue[v]) /\ queue'[v][i] = queue[v][i]
        \/ v = peer /\ queue'[v][i] = s /\ i > Len(queue[v])
      BY DEF Appended, AppendedTo
  <2> QED
      BY <1>2, <1>4, <1>5, <2>1 DEF Offers, Places
<1>6. ASSUME NEW v \in Users, NEW k, Holds(v, k)'
      PROVE  IF k = f THEN v = peer /\ v # u ELSE Holds(v, k)
  <2>1. v # k[1]
      BY <1>6 DEF Holds
  <2>2. CASE \E c \in call'[v] : c.id = k
    <3>1. CASE v = u
        BY <1>1, <1>3, <2>1, <2>2, <3>1
    <3>2. CASE v # u
      <4>1. call'[v] = call[v]
          BY <1>3, <3>2
      <4>2. k # f
          BY <1>4, <2>2, <4>1
      <4> QED
          BY <2>1, <2>2, <4>1, <4>2 DEF Holds
    <3> QED
        BY <3>1, <3>2
  <2>3. CASE \E i \in Offers(v)' : queue'[v][i].id = k
    <3>1. PICK i \in 1..Len(queue'[v]) : /\ queue'[v][i].type = "call_offer"
                                         /\ queue'[v][i].id = k
        BY <2>3 DEF Offers, Places
    <3>2. CASE k # f
      <4>1. i \in Offers(v) /\ queue'[v][i] = queue[v][i]
          BY <1>5, <3>1, <3>2
      <4> QED
          BY <2>1, <3>1, <3>2, <4>1 DEF Holds
    <3>3. CASE k = f
        BY <1>1, <1>5, <2>1, <3>1, <3>3
    <3> QED
        BY <3>2, <3>3
  <2> QED
      BY <1>6, <2>2, <2>3 DEF Holds
<1>7. CallerOrPeer'
    BY <1>1, <1>3 DEF Roles, CallerOrPeer
<1>8. HeldOnce'
    BY <1>6 DEF Roles, HeldOnce
<1>9. HeldByPeer'
  <2> SUFFICES ASSUME NEW w \in Users, NEW v \in Users, NEW c \in call'[w],
                      c.id[1] = w, Holds(v, c.id)'
               PROVE  v = c.peer
      BY DEF HeldByPeer
  <2>1. CASE w = u
      BY <1>3, <1>6, <2>1
  <2>2. CASE w # u
    <3>1. c \in call[w] /\ c.id # f
        BY <1>3, <1>4, <2>2
    <3>2. Holds(v, c.id)
        BY <1>6, <3>1
    <3> QED
        BY <3>1, <3>2 DEF Roles, HeldByPeer
  <2> QED
      BY <2>1, <2>2
<1>10. NotTwice'
  <2> SUFFICES ASSUME NEW w \in Users, NEW i \in 1..Len(queue'[w]),
                      queue'[w][i].type = "call_offer"
               PROVE  /\ \A c \in call'[w] : c.id = queue'[w][i].id => c.id[1] = w
                      /\ \A j \in 1..Len(queue'[w]) :
                           /\ queue'[w][j].type = "call_offer"
                           /\ queue'[w][j].id = queue'[w][i].id
                           => j = i
      BY DEF NotTwice, Offers, Places
  <2>1. ASSUME NEW c \in call'[w], c.id = queue'[w][i].id PROVE c.id[1] = w
    <3>1. CASE w = u
        BY <1>1, <1>3, <3>1
    <3>2. CASE w # u
      <4>1. c \in call[w] /\ c.id # f
          BY <1>3, <1>4, <3>2
      <4>2. i \in Offers(w) /\ queue'[w][i] = queue[w][i]
          BY <1>5, <2>1, <4>1
      <4> QED
          BY <2>1, <4>1, <4>2 DEF Roles, NotTwice
    <3> QED
        BY <3>1, <3>2
  <2>2. ASSUME NEW j \in 1..Len(queue'[w]), queue'[w][j].type = "call_offer",
               queue'[w][j].id = queue'[w][i].id
        PROVE  j = i
    <3>1. CASE queue'[w][i].id # f
      <4>1. /\ i \in Offers(w) /\ queue'[w][i] = queue[w][i]
            /\ j \in Offers(w) /\ queue'[w][j] = queue[w][j]
          BY <1>5, <2>2, <3>1
      <4> QED
          BY <2>2, <4>1 DEF Roles, NotTwice
    <3>2. CASE queue'[w][i].id = f
      <4>1. w = peer /\ i > Len(queue[w]) /\ j > Len(queue[w])
          BY <1>5, <2>2, <3>2
      <4>2. Len(queue'[peer]) =< Len(queue[peer]) + 1 /\ Len(queue[peer]) \in Nat
        <5>1. Posted(u, peer, Signal("call_offer", u, f, f), ok)
            BY <1>1, SignalIs, SignalSent DEF start_call
        <5>2. Len(queue[peer]) \in Nat
            BY <5>1 DEF Posted
        <5>3. Len(queue'[peer]) = Len(queue[peer])
              \/ Len(queue'[peer]) = Len(queue[peer]) + 1
            BY <5>1 DEF Posted
        <5> QED
            BY <5>2, <5>3
      <4> QED
          BY <4>1, <4>2
    <3> QED
        BY <3>1, <3>2
  <2> QED
      BY <2>1, <2>2
<1> QED
    BY <1>7, <1>8, <1>9, <1>10 DEF Roles
-----------------------------------------------------------------------------
\* MetSent: the first message to someone is marked as such, and later ones
\* follow it.
LEMMA MetSent ==
    ASSUME Shape, Shape', Met, Introduced, NEW u \in Users, NEW peer \in Users,
           NEW S, Appended(peer, S),
           \A v \in Users \ {u} : sessions'[v] = sessions[v],
           sessions[u] \subseteq sessions'[u],
           sessions'[u] \subseteq sessions[u] \cup {peer},
           \A m \in S : /\ m.from = u
                        /\ peer # u => /\ peer \in sessions'[u]
                                       /\ m.first \/ peer \in sessions[u],
           \/ peer = u \/ peer \in sessions[u]
           \/ \E j \in 1..Len(queue'[peer]) : /\ queue'[peer][j].first
                                              /\ queue'[peer][j].from = u
    PROVE  Met' /\ Introduced'
<1>1. \A v \in Users : sessions[v] \subseteq sessions'[v]
    OBVIOUS
<1>a. ASSUME NEW v \in Users PROVE AppendedTo(v, peer, S)
    BY DEF Appended
<1>2. ASSUME NEW v \in Users, NEW w \in Users, NEW i, IntroducedBy(v, w, i)
      PROVE  IntroducedBy(v, w, i)'
  <2>1. CASE w \in sessions[v]
      BY <1>1, <2>1 DEF IntroducedBy
  <2>2. CASE w \notin sessions[v]
    <3>1. PICK j \in 1..Len(queue[v]) : /\ j =< i /\ queue[v][j].first
                                        /\ queue[v][j].from = w
        BY <1>2, <2>2 DEF IntroducedBy, Places
    <3>2. j \in 1..Len(queue'[v]) /\ queue'[v][j] = queue[v][j]
        BY <1>a DEF AppendedTo
    <3> QED
        BY <3>1, <3>2 DEF IntroducedBy, Places
  <2> QED
      BY <2>1, <2>2
<1>3. ASSUME NEW v \in Users, NEW w \in Users, NEW i \in Int,
             IntroducedBy(v, w, Len(queue[v])), i >= Len(queue[v])
      PROVE  IntroducedBy(v, w, i)'
  <2>1. IntroducedBy(v, w, i)
    <3>1. Len(queue[v]) \in Nat
        BY <1>a DEF AppendedTo
    <3> QED
        BY <1>3, <3>1 DEF IntroducedBy, Places
  <2> QED
      BY <1>2, <2>1
<1>4. ASSUME NEW w \in Users, NEW v \in Users, w # v, v \in sessions'[w]
      PROVE  IntroducedBy(v, w, Len(queue[v]))'
  <2>0. /\ Len(queue'[v]) \in Nat /\ Len(queue[v]) \in Nat
        /\ Len(queue'[v]) >= Len(queue[v])
    <3>1. /\ Len(queue'[v]) \in Nat /\ Len(queue[v]) \in Nat
          /\ 1..Len(queue[v]) \subseteq 1..Len(queue'[v])
        BY <1>a DEF AppendedTo
    <3>2. Len(queue[v]) = 0 \/ Len(queue[v]) \in 1..Len(queue[v])
        BY <3>1
    <3> QED
        BY <3>1, <3>2
  <2>1. CASE v \in sessions[w]
    <3>1. IntroducedBy(v, w, Len(queue[v]))
        BY <1>4, <2>1 DEF Met
    <3>2. PICK l \in Int : l = Len(queue'[v]) /\ l >= Len(queue[v])
        BY <2>0
    <3>3. IntroducedBy(v, w, l)'
        BY <1>3, <3>1, <3>2
    <3> QED
        BY <3>2, <3>3 DEF IntroducedBy
  <2>2. CASE v \notin sessions[w]
    <3>1. w = u /\ v = peer
        BY <1>4, <2>2
    <3>2. PICK j \in 1..Len(queue'[v]) : /\ queue'[v][j].first
                                         /\ queue'[v][j].from = w
        BY <1>4, <2>2, <3>1
    <3>3. j =< Len(queue'[v])
        BY <2>0
    <3> QED
        BY <3>2, <3>3 DEF IntroducedBy, Places
  <2> QED
      BY <2>1, <2>2
<1>5. ASSUME NEW v \in Users, NEW i \in 1..Len(queue'[v]),
             NEW w \in Users, w = queue'[v][i].from, w # v
      PROVE  v \in sessions'[w] /\ IntroducedBy(v, w, i)'
  <2>1. CASE i \in 1..Len(queue[v])
    <3>1. queue'[v][i] = queue[v][i] /\ i \in Places(v)
        BY <1>a, <2>1 DEF AppendedTo, Places
    <3>2. v \in sessions[w] /\ IntroducedBy(v, w, i)
        BY <1>5, <3>1 DEF Introduced
    <3> QED
        BY <1>1, <1>2, <3>2
  <2>2. CASE i \notin 1..Len(queue[v])
    <3>1. i > Len(queue[v]) /\ v = peer /\ queue'[v][i] \in S
        BY <1>a, <2>2 DEF AppendedTo
    <3>2. w = u /\ peer # u
        BY <1>5, <3>1
    <3>3. /\ peer \in sessions'[u]
          /\ queue'[v][i].first \/ peer \in sessions[u]
        BY <3>1, <3>2
    <3>4. i \in Nat /\ Len(queue[v]) \in Nat
        BY <1>a DEF AppendedTo
    <3>5. CASE queue'[v][i].first
        BY <1>5, <3>1, <3>2, <3>3, <3>4, <3>5 DEF IntroducedBy, Places
    <3>6. CASE peer \in sessions[u]
      <4>1. IntroducedBy(v, w, Len(queue[v]))
          BY <3>1, <3>2, <3>6 DEF Met
      <4>2. IntroducedBy(v, w, i)'
          BY <1>3, <3>1, <3>4, <4>1
      <4> QED
          BY <3>1, <3>2, <3>3, <4>2
    <3> QED
        BY <3>3, <3>5, <3>6
  <2> QED
      BY <2>1, <2>2
<1>6. Met'
    BY <1>4 DEF Met
<1>7. Introduced'
  <2> SUFFICES ASSUME NEW v \in Users, NEW i \in 1..Len(queue'[v]),
                      queue'[v][i].from # v
               PROVE  /\ v \in sessions'[queue'[v][i].from]
                      /\ IntroducedBy(v, queue[v][i].from, i)'
      BY DEF Introduced, Places
  <2>1. PICK w \in Users : w = queue'[v][i].from
    <3>1. queue'[v] \in Seq(Messages)
        BY DEF Shape
    <3>2. queue'[v][i] \in Messages
        BY <3>1, ElementOfSeq
    <3> QED
        BY <3>2, KindOf
  <2>2. v \in sessions'[w] /\ IntroducedBy(v, w, i)'
      BY <1>5, <2>1
  <2> QED
      BY <2>1, <2>2 DEF IntroducedBy
<1> QED
    BY <1>6, <1>7

\* MetTaken: who handles the first message of a session has the session.
LEMMA MetTaken ==
    ASSUME Shape, Shape', Met, Introduced, NEW u \in Users, Took(u),
           NEW m, m = Head(queue[u]),
           \A v \in Users \ {u} : sessions'[v] = sessions[v],
           sessions[u] \subseteq sessions'[u],
           sessions'[u] \subseteq sessions[u] \cup {m.from},
           m.from # u => m.from \in sessions'[u]
    PROVE  Met' /\ Introduced'
<1>1. \A v \in Users : sessions[v] \subseteq sessions'[v]
    OBVIOUS
<1>2. /\ m = queue[u][1] /\ 1 \in Places(u)
      /\ Len(queue[u]) \in Nat \ {0} /\ Len(queue'[u]) = Len(queue[u]) - 1
      /\ \A i \in 1..Len(queue'[u]) : queue'[u][i] = queue[u][i + 1]
      /\ \A v \in Users \ {u} : queue'[v] = queue[v]
    BY DEF Took, Places
<1>3. ASSUME NEW v \in Users \ {u}, NEW w, NEW i, IntroducedBy(v, w, i)
      PROVE  IntroducedBy(v, w, i)'
  <2>1. queue'[v] = queue[v] /\ sessions'[v] = sessions[v]
      BY <1>2
  <2> QED
      BY <1>3, <2>1 DEF IntroducedBy, Places
<1>4. ASSUME NEW w, w # u, NEW i \in Nat, IntroducedBy(u, w, i + 1)
      PROVE  IntroducedBy(u, w, i)'
  <2>1. CASE w \in sessions[u]
      BY <1>1, <2>1 DEF IntroducedBy
  <2>2. CASE w \notin sessions[u]
    <3>1. PICK j \in 1..Len(queue[u]) : /\ j =< i + 1 /\ queue[u][j].first
                                        /\ queue[u][j].from = w
        BY <1>4, <2>2 DEF IntroducedBy, Places
    <3>2. CASE j = 1
      <4>1. w \in sessions'[u]
          BY <1>2, <1>4, <3>1, <3>2
      <4> QED
          BY <4>1 DEF IntroducedBy
    <3>3. CASE j # 1
      <4>1. PICK k \in 1..Len(queue'[u]) : k + 1 = j /\ k =< i
        <5>1. j - 1 \in 1..Len(queue'[u]) /\ (j - 1) + 1 = j /\ j - 1 =< i
            BY <1>2, <3>1, <3>3
        <5> QED
            BY <5>1
      <4>2. queue'[u][k] = queue[u][j]
          BY <1>2, <4>1
      <4> QED
          BY <3>1, <4>1, <4>2 DEF IntroducedBy, Places
    <3> QED
        BY <3>2, <3>3
  <2> QED
      BY <2>1, <2>2
<1>5. ASSUME NEW w \in Users, NEW v \in Users, w # v, v \in sessions'[w]
      PROVE  IntroducedBy(v, w, Len(queue[v]))'
  <2>1. CASE v \in sessions[w]
    <3>1. IntroducedBy(v, w, Len(queue[v]))
        BY <1>5, <2>1 DEF Met
    <3>2. CASE v # u
      <4>1. queue'[v] = queue[v]
          BY <1>2, <3>2
      <4>2. PICK l : l = Len(queue[v])
          OBVIOUS
      <4>3. IntroducedBy(v, w, l)'
          BY <1>3, <3>1, <3>2, <4>2
      <4> QED
          BY <4>1, <4>2, <4>3 DEF IntroducedBy
    <3>3. CASE v = u
      <4>1. PICK l \in Nat : l = Len(queue'[u]) /\ l + 1 = Len(queue[u])
          BY <1>2
      <4>2. IntroducedBy(u, w, l)'
          BY <1>4, <1>5, <3>1, <3>3, <4>1
      <4> QED
          BY <3>3, <4>1, <4>2 DEF IntroducedBy
    <3> QED
        BY <3>2, <3>3
  <2>2. CASE v \notin sessions[w]
    <3>1. w = u /\ v = m.from
        BY <1>5, <2>2
    <3>2. u \in sessions[v]
        BY <1>2, <1>5, <3>1 DEF Introduced
    <3>3. w \in sessions'[v]
        BY <1>1, <3>1, <3>2
    <3> QED
        BY <3>3 DEF IntroducedBy
  <2> QED
      BY <2>1, <2>2
<1>6. ASSUME NEW v \in Users, NEW i \in 1..Len(queue'[v]),
             NEW w \in Users, w = queue'[v][i].from, w # v
      PROVE  v \in sessions'[w] /\ IntroducedBy(v, w, i)'
  <2>1. CASE v # u
    <3>1. queue'[v] = queue[v]
        BY <1>2, <2>1
    <3>2. i \in Places(v) /\ w = queue[v][i].from
        BY <1>6, <3>1 DEF Places
    <3>3. v \in sessions[w] /\ IntroducedBy(v, w, i)
        BY <1>6, <3>2 DEF Introduced
    <3> QED
        BY <1>1, <1>3, <2>1, <3>3
  <2>2. CASE v = u
    <3>1. /\ i \in 1..Len(queue'[u]) /\ i \in Nat
          /\ i + 1 \in 1..Len(queue[u]) /\ queue'[u][i] = queue[u][i + 1]
        BY <1>2, <2>2
    <3>2. i + 1 \in Places(u) /\ w = queue[u][i + 1].from
        BY <1>6, <2>2, <3>1 DEF Places
    <3>3. u \in sessions[w] /\ IntroducedBy(u, w, i + 1)
        BY <1>6, <2>2, <3>2 DEF Introduced
    <3>4. IntroducedBy(u, w, i)'
        BY <1>4, <1>6, <2>2, <3>1, <3>3
    <3> QED
        BY <1>1, <2>2, <3>3, <3>4
  <2> QED
      BY <2>1, <2>2
<1>7. Met'
    BY <1>5 DEF Met
<1>8. Introduced'
  <2> SUFFICES ASSUME NEW v \in Users, NEW i \in 1..Len(queue'[v]),
                      queue'[v][i].from # v
               PROVE  /\ v \in sessions'[queue'[v][i].from]
                      /\ IntroducedBy(v, queue[v][i].from, i)'
      BY DEF Introduced, Places
  <2>1. PICK w \in Users : w = queue'[v][i].from
    <3>1. queue'[v] \in Seq(Messages)
        BY DEF Shape
    <3>2. queue'[v][i] \in Messages
        BY <3>1, ElementOfSeq
    <3> QED
        BY <3>2, KindOf
  <2>2. v \in sessions'[w] /\ IntroducedBy(v, w, i)'
      BY <1>6, <2>1
  <2> QED
      BY <2>1, <2>2 DEF IntroducedBy
<1> QED
    BY <1>7, <1>8

\* EndAppended: behind a call or an offer that was ended its end stays.
LEMMA EndAppended ==
    ASSUME EndPending, NEW peer, NEW S, Appended(peer, S),
           \A v \in Users : \A c \in call'[v] :
             c.id \notin ended' \/ \E d \in call[v] : d.id = c.id,
           \A m \in S : m.type = "call_offer" => m.id \notin ended',
           ended' = ended
    PROVE  EndPending'
<1>a. ASSUME NEW v \in Users PROVE AppendedTo(v, peer, S)
    BY DEF Appended
<1>1. ASSUME NEW v \in Users, NEW i, EndBehind(v, i)
      PROVE  EndBehind(v, i)'
  <2>1. PICK j \in 1..Len(queue[v]) : /\ j > i /\ queue[v][j].type = "call_end"
                                      /\ queue[v][j].from # v
      BY <1>1 DEF EndBehind, Places
  <2>2. j \in 1..Len(queue'[v]) /\ queue'[v][j] = queue[v][j]
      BY <1>a DEF AppendedTo
  <2> QED
      BY <2>1, <2>2 DEF EndBehind, Places
<1>2. ASSUME NEW v \in Users, NEW c \in call'[v], c.id \in ended'
      PROVE  EndBehind(v, 0)'
  <2>1. EndBehind(v, 0)
      BY <1>2 DEF EndPending
  <2> QED
      BY <1>1, <2>1
<1>3. ASSUME NEW v \in Users, NEW i \in 1..Len(queue'[v]),
             queue'[v][i].type = "call_offer", queue'[v][i].from # v,
             queue'[v][i].id \in ended'
      PROVE  EndBehind(v, i)'
  <2>1. i \in Offers(v) /\ queue'[v][i] = queue[v][i]
      BY <1>3, <1>a DEF AppendedTo, Offers, Places
  <2>2. EndBehind(v, i)
      BY <1>3, <2>1 DEF EndPending
  <2> QED
      BY <1>1, <2>2
<1> QED
    BY <1>2, <1>3 DEF EndPending, Offers, Places

\* EndSent: a call_end is queued behind all that is held of the call.
LEMMA EndSent ==
    ASSUME Shape, MailSound, Roles, EndPending, NEW u \in Users,
           NEW c \in call[u], NEW s, s.type = "call_end", s.from = u,
           Appended(c.peer, {s}), NEW l \in 1..Len(queue'[c.peer]),
           l = Len(queue[c.peer]) + 1, queue'[c.peer][l] = s,
           call'[u] = {}, \A v \in Users \ {u} : call'[v] = call[v],
           ended' = ended \cup {c.id}
    PROVE  EndPending'
<1>0. c.peer \in Users /\ c.id \in Keys /\ c.id[1] \in {u, c.peer}
    BY DEF Shape, ActiveCalls, Roles, CallerOrPeer
<1>a. ASSUME NEW v \in Users PROVE AppendedTo(v, c.peer, {s})
    BY DEF Appended
<1>1. ASSUME NEW v \in Users, NEW i, EndBehind(v, i)
      PROVE  EndBehind(v, i)'
  <2>1. PICK j \in 1..Len(queue[v]) : /\ j > i /\ queue[v][j].type = "call_end"
                                      /\ queue[v][j].from # v
      BY <1>1 DEF EndBehind, Places
  <2>2. j \in 1..Len(queue'[v]) /\ queue'[v][j] = queue[v][j]
      BY <1>a DEF AppendedTo
  <2> QED
      BY <2>1, <2>2 DEF EndBehind, Places
<1>2. ASSUME c.peer # u, NEW i, i \in 1..Len(queue[c.peer]) \/ i = 0
      PROVE  EndBehind(c.peer, i)'
  <2>1. l > i
    <3>1. Len(queue[c.peer]) \in Nat
        BY <1>0, <1>a DEF AppendedTo
    <3> QED
        BY <1>2, <3>1
  <2>2. queue'[c.peer][l].type = "call_end" /\ queue'[c.peer][l].from # c.peer
      BY <1>2
  <2> QED
      BY <2>1, <2>2 DEF EndBehind, Places
<1>3. ASSUME NEW v \in Users, v # u, \E d \in call[v] : d.id = c.id
      PROVE  v = c.peer
  <2>1. CASE c.id[1] = u
    <3>1. Holds(v, c.id)
        BY <1>3, <2>1 DEF Holds
    <3> QED
        BY <2>1, <3>1 DEF Roles, HeldByPeer
  <2>2. CASE c.id[1] # u
    <3>1. Holds(u, c.id)
        BY <2>2 DEF Holds
    <3>2. v # c.id[1] => Holds(v, c.id)
        BY <1>3 DEF Holds
    <3> QED
        BY <1>0, <1>3, <2>2, <3>1, <3>2 DEF Roles, HeldOnce
  <2> QED
      BY <2>1, <2>2
<1>4. ASSUME NEW v \in Users, NEW i \in Offers(v), queue[v][i].id = c.id,
             queue[v][i].from # v
      PROVE  v = c.peer /\ v # u
  <2>1. v # c.id[1]
    <3>1. MailSoundAt(queue[v][i]) /\ queue[v][i].type = "call_offer"
        BY DEF MailSound, Offers
    <3> QED
        BY <1>4, <3>1 DEF MailSoundAt
  <2>2. Holds(v, c.id)
      BY <1>4, <2>1 DEF Holds
  <2>3. CASE c.id[1] = u
      BY <2>1, <2>2, <2>3 DEF Roles, HeldByPeer
  <2>4. CASE c.id[1] # u
    <3>1. Holds(u, c.id)
        BY <2>4 DEF Holds
    <3>2. v = u
        BY <1>0, <2>2, <3>1 DEF Roles, HeldOnce
    <3> QED
        BY <1>4, <2>4, <3>2 DEF Roles, NotTwice
  <2> QED
      BY <2>3, <2>4
<1>5. ASSUME NEW v \in Users, NEW d \in call'[v], d.id \in ended'
      PROVE  EndBehind(v, 0)'
  <2>1. v # u /\ d \in call[v]
      BY <1>5
  <2>2. CASE d.id = c.id
    <3>1. v = c.peer
        BY <1>3, <2>1, <2>2
    <3> QED
        BY <1>2, <2>1, <3>1
  <2>3. CASE d.id # c.id
    <3>1. EndBehind(v, 0)
        BY <1>5, <2>1, <2>3 DEF EndPending
    <3> QED
        BY <1>1, <3>1
  <2> QED
      BY <2>2, <2>3
<1>6. ASSUME NEW v \in Users, NEW i \in 1..Len(queue'[v]),
             queue'[v][i].type = "call_offer", queue'[v][i].from # v,
             queue'[v][i].id \in ended'
      PROVE  EndBehind(v, i)'
  <2>1. i \in Offers(v) /\ queue'[v][i] = queue[v][i] /\ i \in 1..Len(queue[v])
      BY <1>6, <1>a DEF AppendedTo, Offers, Places
  <2>2. CASE queue[v][i].id = c.id
    <3>1. v = c.peer /\ v # u
        BY <1>4, <1>6, <2>1, <2>2
    <3> QED
        BY <1>2, <2>1, <3>1
  <2>3. CASE queue[v][i].id # c.id
    <3>1. EndBehind(v, i)
        BY <1>6, <2>1, <2>3 DEF EndPending
    <3> QED
        BY <1>1, <3>1
  <2> QED
      BY <2>2, <2>3
<1> QED
    BY <1>5, <1>6 DEF EndPending, Offers, Places

\* EndTaken: the call_end that is handled ends the call; any other message
\* leaves it waiting.
LEMMA EndTaken ==
    ASSUME EndPending, NEW u \in Users, Took(u), NEW m, m = Head(queue[u]),
           \A v \in Users \ {u} : call'[v] = call[v],
           \A c \in call'[u] :
             \/ /\ m.type # "call_end" \/ m.from = u
                /\ \E d \in call[u] : d.id = c.id
             \/ m.type = "call_offer" /\ m.from # u /\ m.id = c.id,
           ended' = ended
    PROVE  EndPending'
<1>1. /\ m = queue[u][1] /\ 1 \in Places(u)
      /\ Len(queue[u]) \in Nat \ {0} /\ Len(queue'[u]) = Len(queue[u]) - 1
      /\ \A i \in 1..Len(queue'[u]) : queue'[u][i] = queue[u][i + 1]
      /\ \A v \in Users \ {u} : queue'[v] = queue[v]
  <2>1. m = queue[u][1] /\ Len(queue[u]) \in Nat \ {0}
      BY DEF Took
  <2>2. 1 \in Places(u)
      BY <2>1 DEF Places
  <2> QED
      BY <2>1, <2>2 DEF Took
<1>2. ASSUME NEW v \in Users \ {u}, NEW i, EndBehind(v, i)
      PROVE  EndBehind(v, i)'
  <2>1. queue'[v] = queue[v]
      BY <1>1
  <2> QED
      BY <1>2, <2>1 DEF EndBehind, Places
<1>3. ASSUME NEW i \in Nat, EndBehind(u, i + 1) PROVE EndBehind(u, i)'
  <2>1. PICK j \in 1..Len(queue[u]) :
          /\ j > i + 1 /\ queue[u][j].type = "call_end" /\ queue[u][j].from # u
      BY <1>3 DEF EndBehind, Places
  <2>2. PICK k \in 1..Len(queue'[u]) : k + 1 = j /\ k > i
    <3>1. j - 1 \in 1..Len(queue'[u]) /\ (j - 1) + 1 = j /\ j - 1 > i
        BY <1>1, <2>1
    <3> QED
        BY <3>1
  <2>3. queue'[u][k] = queue[u][j]
      BY <1>1, <2>2
  <2> QED
      BY <2>1, <2>2, <2>3 DEF EndBehind, Places
<1>4. ASSUME NEW v \in Users, NEW c \in call'[v], c.id \in ended'
      PROVE  EndBehind(v, 0)'
  <2>1. CASE v # u
    <3>1. EndBehind(v, 0)
        BY <1>4, <2>1 DEF EndPending
    <3> QED
        BY <1>2, <2>1, <3>1
  <2>2. CASE v = u
    <3>1. EndBehind(u, 0 + 1)
      <4>1. CASE /\ m.type # "call_end" \/ m.from = u
                 /\ \E d \in call[u] : d.id = c.id
        <5>1. EndBehind(u, 0)
            BY <1>4, <4>1 DEF EndPending
        <5>2. PICK j \in Places(u) : /\ j > 0 /\ queue[u][j].type = "call_end"
                                     /\ queue[u][j].from # u
            BY <5>1 DEF EndBehind
        <5>3. j # 1
            BY <1>1, <4>1, <5>2
        <5>4. j > 0 + 1
            BY <1>1, <5>2, <5>3 DEF Places
        <5> QED
            BY <5>2, <5>4 DEF EndBehind
      <4>2. CASE m.type = "call_offer" /\ m.from # u /\ m.id = c.id
        <5>1. EndBehind(u, 1)
            BY <1>1, <1>4, <4>2 DEF EndPending, Offers
        <5> QED
            BY <5>1 DEF EndBehind
      <4> QED
          BY <1>4, <2>2, <4>1, <4>2
    <3> QED
        BY <1>3, <2>2, <3>1
  <2> QED
      BY <2>1, <2>2
<1>5. ASSUME NEW v \in Users, NEW i \in 1..Len(queue'[v]),
             queue'[v][i].type = "call_offer", queue'[v][i].from # v,
             queue'[v][i].id \in ended'
      PROVE  EndBehind(v, i)'
  <2>1. CASE v # u
    <3>1. queue'[v] = queue[v]
        BY <1>1, <2>1
    <3>2. EndBehind(v, i)
        BY <1>5, <3>1 DEF EndPending, Offers, Places
    <3> QED
        BY <1>2, <2>1, <3>2
  <2>2. CASE v = u
    <3>1. /\ i \in 1..Len(queue'[u]) /\ i \in Nat
          /\ i + 1 \in 1..Len(queue[u]) /\ queue'[u][i] = queue[u][i + 1]
        BY <1>1, <2>2
    <3>2. EndBehind(u, i + 1)
        BY <1>5, <2>2, <3>1 DEF EndPending, Offers, Places
    <3> QED
        BY <1>3, <2>2, <3>1, <3>2
  <2> QED
      BY <2>1, <2>2
<1> QED
    BY <1>4, <1>5 DEF EndPending, Offers, Places

(***************************************************************************)
(* EndStep: every command and every handled message keeps the invariant of *)
(* the ends.                                                               *)
(***************************************************************************)
LEMMA EndStep == EndInv /\ [Next]_vars => EndInv'
<1> SUFFICES ASSUME EndInv, [Next]_vars PROVE EndInv'
    OBVIOUS
<1> USE CallsAssumption
<1>0. /\ Shape /\ Shape' /\ PeerInv /\ PeerInv' /\ MailSound
      /\ IdsKnown /\ Roles /\ faults \in Nat /\ keys \in [Users -> Nat]
    BY PeerStep DEF EndInv, PeerInv, SecretInv, Shape
<1>f. faults = 0 => Met /\ Introduced /\ EndPending /\ Peered
    BY DEF EndInv, PeerInv
<1> DEFINE Clean == Met /\ Introduced /\ EndPending
           Goal == IdsKnown' /\ Roles' /\ (faults' = 0 => Clean')
<1>c. ASSUME NEW u \in Users, NEW c \in call[u]
      PROVE  /\ c \in ActiveCalls /\ c.peer \in Users /\ c.id \in Keys
             /\ Generated(c.id)
    BY <1>0, <1>c DEF Shape, ActiveCalls, IdsKnown
<1>g. ASSUME NEW u \in Users, generate(u)
      PROVE  /\ keys' \in [Users -> Nat] /\ \A v \in Users : keys'[v] >= keys[v]
             /\ \A k \in Keys : Generated(k) => Generated(k)'
  <2>1. keys' \in [Users -> Nat] /\ \A v \in Users : keys'[v] >= keys[v]
      BY <1>0, <1>g DEF generate
  <2>2. ASSUME NEW k \in Keys, Generated(k) PROVE Generated(k)'
    <3>1. k[1] \in Users /\ k[2] \in Nat
        BY DEF Keys
    <3>2. keys[k[1]] \in Nat /\ keys'[k[1]] \in Nat /\ keys'[k[1]] >= keys[k[1]]
        BY <1>0, <2>1, <3>1
    <3> QED
        BY <2>2, <3>1, <3>2 DEF Generated
  <2> QED
      BY <2>1, <2>2
<1>k. ASSUME keys' = keys
      PROVE  /\ keys' \in [Users -> Nat] /\ \A v \in Users : keys'[v] >= keys[v]
             /\ \A k \in Keys : Generated(k) => Generated(k)'
    BY <1>0, <1>k DEF Generated
<1>e. ended \subseteq Keys
    BY <1>0 DEF IdsKnown
<1>t. ASSUME NEW u \in Users, Took(u), NEW x
      PROVE  OffersKept /\ OldOr(x, {})
    BY <1>t, TakenOffers, TakenKeeps DEF OnlyOld, OldOr
<1>1. ASSUME NEW u \in Users, NEW peer \in Users, NEW ok \in BOOLEAN,
             start_call(u, peer, ok)
      PROVE  Goal
  <2>1. PICK f \in Keys : f = Fresh(u) /\ f[1] = u /\ f[2] = keys[u] + 1
      BY <1>0, FreshType
  <2>2. PICK s \in Messages : s = Signal("call_offer", u, f, f)
      BY <2>1, SignalIs
  <2>3. s.type = "call_offer" /\ s.from = u /\ s.id = f
      BY <2>2, SignalIs
  <2>4. send_message(u, peer, s, ok) /\ generate(u) /\ ended' = ended
      BY <1>1, <2>1, <2>2 DEF start_call
  <2>5. Posted(u, peer, s, ok) /\ OldOr(peer, {Sent(s, 1, u, peer)})
      BY <1>0, <2>4, SignalAdds, SignalSent
  <2>6. PICK m \in Messages :
          /\ m = Sent(s, 1, u, peer) /\ m.id = f /\ m.from = u
          /\ m.type = "call_offer" /\ (m.first <=> FirstOf(u, peer))
      BY <2>3, SentIs
  <2>7. /\ Appended(peer, {m}) /\ OldOr(peer, {m})
        /\ ok => /\ Len(queue[peer]) + 1 \in 1..Len(queue'[peer])
                 /\ queue'[peer][Len(queue[peer]) + 1] = m
      BY <1>0, <2>5, <2>6, SignalAppends
  <2>8. /\ \A c \in call'[u] : c.id = f
        /\ \A v \in Users \ {u} : call'[v] = call[v]
      BY <1>0, <1>1, <2>1 DEF start_call, Shape
  <2>9. Generated(f)'
      BY <1>0, <2>1, <2>4 DEF Generated, generate
  <2>10. /\ \A v \in Users : \A c \in call'[v] :
              Generated(c.id)' \/ \E d \in call[v] : d.id = c.id
         /\ \A n \in {m} : n \in Messages /\ Generated(n.id)'
    <3>1. \A v \in Users : \A c \in call'[v] : c.id = f \/ c \in call[v]
        BY <2>8
    <3>2. \A c : c.id = f => Generated(c.id)'
        BY <2>9
    <3> QED
        BY <2>6, <3>1, <3>2
  <2>11. IdsKnown'
      BY <1>0, <1>e, <1>g, <2>4, <2>7, <2>10, IdsKept
  <2>12. Roles'
      BY <1>0, <1>1, <2>1, <2>2, <2>6, <2>7, CallStarted
  <2>13. ASSUME faults' = 0 PROVE Clean'
    <3>1. ok /\ faults = 0
        BY <1>0, <2>5, <2>13 DEF Posted
    <3>2. /\ \A v \in Users \ {u} : sessions'[v] = sessions[v]
          /\ sessions[u] \subseteq sessions'[u]
          /\ sessions'[u] \subseteq sessions[u] \cup {peer}
          /\ peer # u => peer \in sessions'[u]
        BY <2>5, <3>1 DEF Posted
    <3>3. /\ \A n \in {m} : /\ n.from = u
                            /\ peer # u => /\ peer \in sessions'[u]
                                           /\ n.first \/ peer \in sessions[u]
          /\ \/ peer = u \/ peer \in sessions[u]
             \/ \E j \in 1..Len(queue'[peer]) : /\ queue'[peer][j].first
                                                /\ queue'[peer][j].from = u
        BY <2>6, <2>7, <3>1, <3>2 DEF FirstOf
    <3>4. Met' /\ Introduced'
        BY <1>0, <1>f, <2>7, <3>1, <3>2, <3>3, MetSent
    <3>5. f \notin ended
        BY <1>0, <2>1, FreshId
    <3>6. /\ \A v \in Users : \A c \in call'[v] :
               c.id \notin ended' \/ \E d \in call[v] : d.id = c.id
          /\ \A n \in {m} : n.type = "call_offer" => n.id \notin ended'
        BY <2>4, <2>6, <2>8, <3>5
    <3>7. EndPending'
        BY <1>f, <2>4, <2>7, <3>1, <3>6, EndAppended
    <3> QED
        BY <3>4, <3>7
  <2> QED
      BY <2>11, <2>12, <2>13
<1>2. ASSUME NEW u \in Users, NEW ok \in BOOLEAN, accept_call(u, ok)
      PROVE  Goal
  <2>1. PICK f \in Keys : f = Fresh(u)
      BY <1>0, FreshType
  <2>2. PICK c \in call[u] :
          /\ \E x : call' = [call EXCEPT ![u] =
                {[c EXCEPT !.state = "Connected", !.key = Fresh(u),
                           !.secret = x]}]
          /\ send_message(u, c.peer, Signal("call_accept", u, c.id, Fresh(u)), ok)
          /\ generate(u) /\ ended' = ended
      BY <1>2 DEF accept_call
  <2>3. PICK s \in Messages : s = Signal("call_accept", u, c.id, f)
      BY <1>c, <2>1, SignalIs
  <2>4. s.type = "call_accept" /\ s.from = u /\ s.id = c.id
      BY <1>c, <2>3, SignalIs
  <2>5. Posted(u, c.peer, s, ok) /\ OldOr(c.peer, {Sent(s, 1, u, c.peer)})
      BY <1>0, <1>c, <2>1, <2>2, <2>3, SignalAdds, SignalSent
  <2>6. PICK m \in Messages :
          /\ m = Sent(s, 1, u, c.peer) /\ m.id = c.id /\ m.from = u
          /\ m.type = "call_accept" /\ (m.first <=> FirstOf(u, c.peer))
      BY <2>4, SentIs
  <2>7. Appended(c.peer, {m}) /\ OldOr(c.peer, {m}) /\ OffersKept
    <3>1. Appended(c.peer, {m}) /\ OldOr(c.peer, {m})
        BY <1>0, <1>c, <2>5, <2>6, SignalAppends
    <3> QED
        BY <2>6, <3>1, AppendedOffers
  <2>8. /\ \A e \in call'[u] : e.peer = c.peer /\ e.id = c.id
        /\ \A v \in Users \ {u} : call'[v] = call[v]
    <3>1. PICK x : call' = [call EXCEPT ![u] =
                     {[c EXCEPT !.state = "Connected", !.key = Fresh(u),
                                !.secret = x]}]
        BY <2>2
    <3> QED
        BY <1>0, <1>c, <3>1 DEF Shape, ActiveCalls
  <2>9. CallsKept
      BY <2>8 DEF CallsKept
  <2>10. \A n \in {m} : n \in Messages /\ Generated(n.id)'
    <3>1. PICK k \in Keys : k = c.id /\ Generated(k)
        BY <1>c
    <3>2. Generated(k)'
        BY <1>g, <2>2, <3>1
    <3> QED
        BY <2>6, <3>1, <3>2
  <2>11. IdsKnown'
    <3>1. \A v \in Users : \A e \in call'[v] : \E d \in call[v] : d.id = e.id
        BY <2>9 DEF CallsKept
    <3> QED
        BY <1>0, <1>e, <1>g, <2>2, <2>7, <2>10, <3>1, IdsKept
  <2>12. Roles'
      BY <1>0, <2>7, <2>9, RolesKept
  <2>13. ASSUME faults' = 0 PROVE Clean'
    <3>1. ok /\ faults = 0
        BY <1>0, <2>5, <2>13 DEF Posted
    <3>2. c.peer = u \/ c.peer \in sessions[u]
        BY <1>f, <3>1 DEF Peered
    <3>3. /\ \A v \in Users \ {u} : sessions'[v] = sessions[v]
          /\ sessions[u] \subseteq sessions'[u]
          /\ sessions'[u] \subseteq sessions[u] \cup {c.peer}
        BY <2>5 DEF Posted
    <3>4. \A n \in {m} : /\ n.from = u
                         /\ c.peer # u => /\ c.peer \in sessions'[u]
                                          /\ n.first \/ c.peer \in sessions[u]
        BY <2>6, <3>2, <3>3
    <3>5. Met' /\ Introduced'
        BY <1>0, <1>c, <1>f, <2>7, <3>1, <3>2, <3>3, <3>4, MetSent
    <3>6. /\ \A v \in Users : \A e \in call'[v] :
               e.id \notin ended' \/ \E d \in call[v] : d.id = e.id
          /\ \A n \in {m} : n.type = "call_offer" => n.id \notin ended'
        BY <2>6, <2>9 DEF CallsKept
    <3>7. EndPending'
        BY <1>f, <2>2, <2>7, <3>1, <3>6, EndAppended
    <3> QED
        BY <3>5, <3>7
  <2> QED
      BY <2>11, <2>12, <2>13
<1>3. ASSUME NEW u \in Users, NEW ok \in BOOLEAN, end_call(u, ok)
      PROVE  Goal
  <2>1. PICK c \in call[u] :
          /\ send_message(u, c.peer, Signal("call_end", u, c.id, NoKey), ok)
          /\ call' = IF ok THEN [call EXCEPT ![u] = {}] ELSE call
          /\ ended' = IF ok THEN ended \cup {c.id} ELSE ended
          /\ keys' = keys
      BY <1>3 DEF end_call
  <2>2. PICK s \in Messages : s = Signal("call_end", u, c.id, NoKey)
      BY <1>c, SignalIs
  <2>3. s.type = "call_end" /\ s.from = u /\ s.id = c.id
      BY <1>c, <2>2, SignalIs
  <2>4. Posted(u, c.peer, s, ok) /\ OldOr(c.peer, {Sent(s, 1, u, c.peer)})
      BY <1>0, <1>c, <2>1, <2>2, SignalAdds, SignalSent
  <2>5. PICK m \in Messages :
          /\ m = Sent(s, 1, u, c.peer) /\ m.id = c.id /\ m.from = u
          /\ m.type = "call_end" /\ (m.first <=> FirstOf(u, c.peer))
      BY <2>3, SentIs
  <2>6. /\ Appended(c.peer, {m}) /\ OldOr(c.peer, {m}) /\ OffersKept
        /\ ok => /\ Len(queue[c.peer]) + 1 \in 1..Len(queue'[c.peer])
                 /\ queue'[c.peer][Len(queue[c.peer]) + 1] = m
    <3>1. /\ Appended(c.peer, {m}) /\ OldOr(c.peer, {m})
          /\ ok => /\ Len(queue[c.peer]) + 1 \in 1..Len(queue'[c.peer])
                   /\ queue'[c.peer][Len(queue[c.peer]) + 1] = m
        BY <1>0, <1>c, <2>4, <2>5, SignalAppends
    <3> QED
        BY <2>5, <3>1, AppendedOffers
  <2>7. /\ \A v \in Users \ {u} : call'[v] = call[v]
        /\ \A d \in call'[u] : d \in call[u]
        /\ ok => call'[u] = {}
      BY <1>0, <2>1 DEF Shape
  <2>8. CallsKept
      BY <2>7 DEF CallsKept
  <2>9. PICK k \in Keys : k = c.id /\ Generated(k)'
    <3>1. PICK k \in Keys : k = c.id /\ Generated(k)
        BY <1>c
    <3> QED
        BY <1>k, <2>1, <3>1
  <2>10. /\ \A n \in {m} : n \in Messages /\ Generated(n.id)'
         /\ ended' \subseteq Keys /\ \A j \in ended' : j \in ended \/ Generated(j)'
      BY <1>e, <2>1, <2>5, <2>9
  <2>11. IdsKnown'
    <3>1. \A v \in Users : \A e \in call'[v] : \E d \in call[v] : d.id = e.id
        BY <2>8 DEF CallsKept
    <3> QED
        BY <1>0, <1>k, <2>1, <2>6, <2>10, <3>1, IdsKept
  <2>12. Roles'
      BY <1>0, <2>6, <2>8, RolesKept
  <2>13. ASSUME faults' = 0 PROVE Clean'
    <3>1. ok /\ faults = 0
        BY <1>0, <2>4, <2>13 DEF Posted
    <3>2. c.peer = u \/ c.peer \in sessions[u]
        BY <1>f, <3>1 DEF Peered
    <3>3. /\ \A v \in Users \ {u} : sessions'[v] = sessions[v]
          /\ sessions[u] \subseteq sessions'[u]
          /\ sessions'[u] \subseteq sessions[u] \cup {c.peer}
        BY <2>4 DEF Posted
    <3>4. \A n \in {m} : /\ n.from = u
                         /\ c.peer # u => /\ c.peer \in sessions'[u]
                                          /\ n.first \/ c.peer \in sessions[u]
        BY <2>5, <3>2, <3>3
    <3>5. Met' /\ Introduced'
        BY <1>0, <1>c, <1>f, <2>6, <3>1, <3>2, <3>3, <3>4, MetSent
    <3>6. PICK l \in 1..Len(queue'[c.peer]) :
            l = Len(queue[c.peer]) + 1 /\ queue'[c.peer][l] = m
        BY <2>6, <3>1
    <3>7. ended' = ended \cup {c.id} /\ call'[u] = {}
        BY <2>1, <2>7, <3>1
    <3>8. EndPending'
      <4>1. /\ EndPending /\ m.type = "call_end" /\ m.from = u
            /\ Appended(c.peer, {m})
            /\ \A v \in Users \ {u} : call'[v] = call[v]
          BY <1>f, <2>5, <2>6, <2>7, <3>1
      <4> QED
          BY <1>0, <3>6, <3>7, <4>1, EndSent
    <3> QED
        BY <3>5, <3>8
  <2> QED
      BY <2>11, <2>12, <2>13
<1>4. ASSUME NEW u \in Users, NEW count \in 1..MaxChunks,
             NEW k \in 0..(MaxChunks + 1), send_call_media(u, count, k)
      PROVE  Goal
  <2>1. PICK c \in call[u], n \in Nat \ {0}, s \in [1..(count + 1) -> Messages] :
          /\ n = count + 1 /\ Len(s) = n /\ k \in 0..n
          /\ send_all(u, c.peer, s, k)
          /\ \A i \in 1..n : Chunk(s[i], u, c)
      BY <1>0, <1>4, StreamIs
  <2>2. Grown(u, c.peer, s, n, k)
      BY <1>0, <1>c, <2>1, QueueGrows
  <2>3. call' = call /\ keys' = keys /\ ended' = ended
      BY <1>4 DEF send_call_media
  <2>4. PICK S : S = {Sent(s[i], i, u, c.peer) : i \in 1..k}
      OBVIOUS
  <2>5. \A i \in 1..k : Sent(s[i], i, u, c.peer) \in S
      BY <2>4
  <2>6. Appended(c.peer, S) /\ OldOr(c.peer, S)
    <3>1. c.peer \in Users /\ n \in Nat /\ k \in 0..n
        BY <1>c, <2>1
    <3>2. Appended(c.peer, S)
        BY <1>0, <2>2, <2>5, <3>1, StreamAppends
    <3>3. OldOr(c.peer, S)
        BY <1>0, <2>2, <2>5, <3>1, StreamAdds
    <3> QED
        BY <3>2, <3>3
  <2>7. ASSUME NEW m \in S
        PROVE  /\ m \in Messages /\ m.from = u /\ m.id = c.id
               /\ m.type = "media_chunk"
    <3>1. PICK i \in 1..k : m = Sent(s[i], i, u, c.peer)
        BY <2>4
    <3>2. i \in 1..n /\ s[i] \in Messages
        BY <2>1
    <3> QED
        BY <2>1, <3>1, <3>2, SentIs DEF Chunk
  <2>8. OffersKept
      BY <2>6, <2>7, AppendedOffers
  <2>9. CallsKept
      BY <2>3 DEF CallsKept
  <2>10. \A m \in S : m \in Messages /\ Generated(m.id)'
    <3>1. PICK j \in Keys : j = c.id /\ Generated(j)
        BY <1>c
    <3>2. Generated(j)'
        BY <1>k, <2>3, <3>1
    <3> QED
        BY <2>7, <3>1, <3>2
  <2>11. IdsKnown'
    <3>1. \A v \in Users : \A e \in call'[v] : \E d \in call[v] : d.id = e.id
        BY <2>3
    <3> QED
        BY <1>0, <1>e, <1>k, <2>3, <2>6, <2>10, <3>1, IdsKept
  <2>12. Roles'
      BY <1>0, <2>8, <2>9, RolesKept
  <2>13. ASSUME faults' = 0 PROVE Clean'
    <3>1. faults = 0
      <4>1. faults' = faults \/ faults' = faults + 1
          BY <2>2 DEF Grown
      <4> QED
          BY <1>0, <2>13, <4>1
    <3>2. c.peer = u \/ c.peer \in sessions[u]
        BY <1>f, <3>1 DEF Peered
    <3>3. /\ \A v \in Users \ {u} : sessions'[v] = sessions[v]
          /\ sessions[u] \subseteq sessions'[u]
          /\ sessions'[u] \subseteq sessions[u] \cup {c.peer}
        BY <2>2 DEF Grown
    <3>4. \A m \in S : /\ m.from = u
                       /\ c.peer # u => /\ c.peer \in sessions'[u]
                                        /\ m.first \/ c.peer \in sessions[u]
        BY <2>7, <3>2, <3>3
    <3>5. Met' /\ Introduced'
        BY <1>0, <1>c, <1>f, <2>6, <3>1, <3>2, <3>3, <3>4, MetSent
    <3>6. /\ \A v \in Users : \A e \in call'[v] :
               e.id \notin ended' \/ \E d \in call[v] : d.id = e.id
          /\ \A m \in S : m.type = "call_offer" => m.id \notin ended'
        BY <2>3, <2>7
    <3>7. EndPending'
        BY <1>f, <2>3, <2>6, <3>1, <3>6, EndAppended
    <3> QED
        BY <3>5, <3>7
  <2> QED
      BY <2>11, <2>12, <2>13
<1>s. ASSUME NEW u \in Users, NEW type, NextSignal(u, type), NEW m,
             m = Head(queue[u])
      PROVE  /\ Took(u) /\ m.type = type /\ m.from # u
             /\ OffersKept /\ OldOr(u, {})
             /\ Met /\ Introduced => Met' /\ Introduced'
  <2>1. /\ Took(u) /\ m.type = type /\ m.from # u
        /\ sessions'[u] = sessions[u] \cup {m.from}
        /\ \A v \in Users \ {u} : sessions'[v] = sessions[v]
      BY <1>0, <1>s, SignalTaken
  <2>2. /\ sessions[u] \subseteq sessions'[u] /\ m.from \in sessions'[u]
        /\ sessions'[u] \subseteq sessions[u] \cup {m.from}
      BY <2>1
  <2>3. Met /\ Introduced => Met' /\ Introduced'
      BY <1>0, <1>s, <2>1, <2>2, MetTaken
  <2> QED
      BY <1>t, <2>1, <2>3
<1>5. ASSUME NEW u \in Users, process_call_offer(u) PROVE Goal
  <2>1. /\ NextSignal(u, "call_offer") /\ generate(u)
        /\ UNCHANGED <<faults, ended>>
      BY <1>5 DEF process_call_offer
  <2>2. PICK m : m = Head(queue[u])
      OBVIOUS
  <2>3. /\ Took(u) /\ m.type = "call_offer" /\ m.from # u /\ OldOr(u, {})
        /\ Met /\ Introduced => Met' /\ Introduced'
      BY <1>s, <2>1, <2>2
  <2>4. /\ \A c \in call'[u] : c.id = m.id
        /\ \A v \in Users \ {u} : call'[v] = call[v]
      BY <1>0, <1>5, <2>2 DEF process_call_offer, Shape
  <2>5. m \in Messages /\ m.id \in Keys /\ Generated(m.id)
    <3>1. m \in Messages /\ m = queue[u][1] /\ 1 \in Places(u)
        BY <2>2, <2>3 DEF Took, Places
    <3> QED
        BY <1>0, <3>1, KindOf DEF IdsKnown
  <2>6. IdsKnown'
    <3>1. PICK k \in Keys : k = m.id /\ Generated(k)'
        BY <1>g, <2>1, <2>5
    <3>2. \A v \in Users : \A c \in call'[v] : c.id = k \/ c \in call[v]
        BY <2>4, <3>1
    <3>3. \A c : c.id = k => Generated(c.id)'
        BY <3>1
    <3>4. \A v \in Users : \A c \in call'[v] :
            Generated(c.id)' \/ \E d \in call[v] : d.id = c.id
        BY <3>2, <3>3
    <3> QED
        BY <1>0, <1>e, <1>g, <2>1, <2>3, <3>4, IdsKept
  <2>7. Roles'
      BY <1>0, <1>5, OfferTaken
  <2>8. EndPending => EndPending'
      BY <2>1, <2>2, <2>3, <2>4, EndTaken
  <2> QED
      BY <1>f, <2>1, <2>3, <2>6, <2>7, <2>8
<1>q. ASSUME NEW u \in Users, CallsKept, OffersKept, OldOr(u, {}), keys' = keys,
             ended' = ended
      PROVE  IdsKnown' /\ Roles'
  <2>1. \A v \in Users : \A e \in call'[v] : \E d \in call[v] : d.id = e.id
      BY <1>q DEF CallsKept
  <2>2. IdsKnown'
      BY <1>0, <1>e, <1>k, <1>q, <2>1, IdsKept
  <2> QED
      BY <1>0, <1>q, <2>2, RolesKept
<1>6. ASSUME NEW u \in Users, process_call_accept(u) PROVE Goal
  <2>1. /\ NextSignal(u, "call_accept")
        /\ UNCHANGED <<keys, faults, ended>>
      BY <1>6 DEF process_call_accept
  <2>2. PICK m : m = Head(queue[u])
      OBVIOUS
  <2>3. /\ Took(u) /\ m.type = "call_accept" /\ m.from # u
        /\ OldOr(u, {}) /\ OffersKept
        /\ Met /\ Introduced => Met' /\ Introduced'
      BY <1>s, <2>1, <2>2
  <2>4. /\ \A c \in call'[u] : \E d \in call[u] : d.id = c.id /\ d.peer = c.peer
        /\ \A v \in Users \ {u} : call'[v] = call[v]
    <3> DEFINE waiting == {c \in call[u] : c.state \in {"Offering", "Ringing"}}
               joined(c) == [c EXCEPT !.peer_key = {m.key}, !.state = "Connected",
                                      !.secret = agree(c.key, m.key)]
    <3>1. call' = [call EXCEPT ![u] = IF waiting = {} THEN @
                                      ELSE {joined(c) : c \in waiting}]
        BY <1>6, <2>2 DEF process_call_accept
    <3>2. \A c \in waiting : /\ joined(c).peer = c.peer /\ joined(c).id = c.id
                             /\ c \in call[u]
        BY <1>c DEF ActiveCalls
    <3> HIDE DEF waiting, joined
    <3>3. /\ call'[u] = IF waiting = {} THEN call[u]
                        ELSE {joined(c) : c \in waiting}
          /\ \A v \in Users \ {u} : call'[v] = call[v]
        BY <1>0, <3>1 DEF Shape
    <3> QED
        BY <3>2, <3>3
  <2>5. CallsKept
      BY <2>4 DEF CallsKept
  <2>6. IdsKnown' /\ Roles'
      BY <1>q, <2>1, <2>3, <2>5
  <2>7. EndPending => EndPending'
      BY <2>1, <2>2, <2>3, <2>4, EndTaken
  <2> QED
      BY <1>f, <2>1, <2>3, <2>6, <2>7
<1>7. ASSUME NEW u \in Users, process_call_end(u) PROVE Goal
  <2>1. /\ NextSignal(u, "call_end") /\ call' = [call EXCEPT ![u] = {}]
        /\ UNCHANGED <<keys, faults, ended>>
      BY <1>7 DEF process_call_end
  <2>2. PICK m : m = Head(queue[u])
      OBVIOUS
  <2>3. /\ Took(u) /\ OldOr(u, {}) /\ OffersKept
        /\ Met /\ Introduced => Met' /\ Introduced'
      BY <1>s, <2>1, <2>2
  <2>4. call'[u] = {} /\ \A v \in Users \ {u} : call'[v] = call[v]
      BY <1>0, <2>1 DEF Shape
  <2>5. CallsKept
      BY <2>4 DEF CallsKept
  <2>6. IdsKnown' /\ Roles'
      BY <1>q, <2>1, <2>3, <2>5
  <2>7. EndPending => EndPending'
      BY <2>1, <2>2, <2>3, <2>4, EndTaken
  <2> QED
      BY <1>f, <2>1, <2>3, <2>6, <2>7
<1>8. ASSUME NEW u \in Users, process_media_chunk(u) PROVE Goal
  <2>1. /\ NextSignal(u, "media_chunk")
        /\ UNCHANGED <<call, keys, faults, ended>>
      BY <1>8 DEF process_media_chunk
  <2>2. PICK m : m = Head(queue[u])
      OBVIOUS
  <2>3. /\ Took(u) /\ m.type = "media_chunk" /\ OldOr(u, {}) /\ OffersKept
        /\ Met /\ Introduced => Met' /\ Introduced'
      BY <1>s, <2>1, <2>2
  <2>4. CallsKept
      BY <2>1 DEF CallsKept
  <2>5. IdsKnown' /\ Roles'
      BY <1>q, <2>1, <2>3, <2>4
  <2>6. EndPending => EndPending'
      BY <2>1, <2>2, <2>3, EndTaken
  <2> QED
      BY <1>f, <2>1, <2>3, <2>5, <2>6
<1>9. ASSUME NEW u \in Users, pass_over(u) PROVE Goal
  <2>1. /\ queue[u] # <<>> /\ queue' = [queue EXCEPT ![u] = Tail(@)]
        /\ UNCHANGED <<call, sessions, keys, ended>>
      BY <1>9 DEF pass_over
  <2>2. PICK m : m = Head(queue[u])
      OBVIOUS
  <2>3. Took(u) /\ OldOr(u, {}) /\ OffersKept
      BY <1>0, <1>t, <2>1, QueueShrinks
  <2>4. CallsKept
      BY <2>1 DEF CallsKept
  <2>5. IdsKnown' /\ Roles'
      BY <1>q, <2>1, <2>3, <2>4
  <2>6. ASSUME faults' = 0 PROVE faults = 0 /\ m.from = u
    <3>1. /\ faults' = faults
          /\ m.from = u \/ ~(m.first \/ m.from \in sessions[u])
      <4>1. \/ /\ m.from = u \/ ~(m.first \/ m.from \in sessions[u])
               /\ faults' = faults
            \/ faults' = faults + 1
          BY <1>9, <2>2 DEF pass_over
      <4> QED
          BY <1>0, <2>6, <4>1
    <3>2. m = queue[u][1] /\ 1 \in Places(u)
        BY <2>2, <2>3 DEF Took, Places
    <3>3. m.from # u => m.first \/ m.from \in sessions[u]
      <4>1. m.from # u => IntroducedBy(u, m.from, 1)
          BY <1>f, <2>6, <3>1, <3>2 DEF Introduced
      <4>2. \A j \in Places(u) : j =< 1 => j = 1
          BY DEF Places
      <4> QED
          BY <3>2, <4>1, <4>2 DEF IntroducedBy
    <3> QED
        BY <2>6, <3>1, <3>3
  <2>7. ASSUME faults' = 0 PROVE Clean'
    <3>1. /\ \A v \in Users \ {u} : sessions'[v] = sessions[v]
          /\ sessions[u] \subseteq sessions'[u]
          /\ sessions'[u] \subseteq sessions[u] \cup {m.from}
          /\ m.from # u => m.from \in sessions'[u]
        BY <2>1, <2>6, <2>7
    <3>2. Met' /\ Introduced'
        BY <1>0, <1>f, <2>2, <2>3, <2>6, <2>7, <3>1, MetTaken
    <3>3. EndPending'
        BY <1>f, <2>1, <2>2, <2>3, <2>6, <2>7, EndTaken
    <3> QED
        BY <3>2, <3>3
  <2> QED
      BY <2>5, <2>7
<1>10. ASSUME UNCHANGED vars PROVE Goal
  <2>1. IdsKnown'
      BY <1>0, <1>10 DEF vars, IdsKnown, Generated, Places
  <2>2. Roles'
      BY <1>0, <1>10 DEF vars, Roles, CallerOrPeer, HeldOnce, HeldByPeer,
                         NotTwice, Holds, Offers, Places
  <2>3. faults' = 0 => Clean'
      BY <1>f, <1>10 DEF vars, Met, Introduced, IntroducedBy, EndPending,
                         EndBehind, Offers, Places
  <2> QED
      BY <2>1, <2>2, <2>3
<1>11. Goal
    BY <1>1, <1>2, <1>3, <1>4, <1>5, <1>6, <1>7, <1>8, <1>9, <1>10
       DEF Next, process_call_signal
<1> QED
    BY <1>0, <1>11 DEF EndInv

\* The invariant of the ends holds in every reachable state.
LEMMA EndInductive == Spec => []EndInv
<1>1. Init /\ PeerInv => EndInv
  <2> SUFFICES ASSUME Init, PeerInv PROVE EndInv
      OBVIOUS
  <2>1. /\ \A v \in Users : Len(queue[v]) = 0 /\ call[v] = {} /\ sessions[v] = {}
        /\ ended = {}
      BY DEF Init
  <2>2. \A v \in Users : Places(v) = {} /\ Offers(v) = {}
      BY <2>1 DEF Places, Offers
  <2>3. IdsKnown
      BY <2>1, <2>2 DEF IdsKnown
  <2>4. Roles
      BY <2>1, <2>2 DEF Roles, CallerOrPeer, HeldOnce, HeldByPeer, NotTwice, Holds
  <2>5. Met /\ Introduced /\ EndPending
      BY <2>1, <2>2 DEF Met, Introduced, EndPending
  <2> QED
      BY <2>3, <2>4, <2>5 DEF EndInv
<1> QED
    BY <1>1, EndStep, PeerInductive, PTL DEF Spec

(***************************************************************************)
(* EndReachesBoth: for any users and any crossing of offers, accepts and   *)
(* ends, a call that one side ended with /end is over for both once all    *)
(* signals are handled, unless one was lost or refused.                    *)
(***************************************************************************)
THEOREM EndReachesBoth == Spec => []EndedWhenQuiet
<1>1. EndInv => EndedWhenQuiet
  <2> SUFFICES ASSUME EndInv, faults = 0, \A v \in Users : queue[v] = <<>>,
                      NEW u \in Users, NEW c \in call[u], c.id \in ended
               PROVE  FALSE
      BY DEF EndedWhenQuiet, Quiet
  <2>1. EndBehind(u, 0)
      BY DEF EndInv, EndPending
  <2>2. Places(u) = {}
      BY DEF Places
  <2> QED
      BY <2>1, <2>2 DEF EndBehind
<1> QED
    BY <1>1, EndInductive, PTL
=============================================================================
