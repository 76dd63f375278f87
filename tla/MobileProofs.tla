---------------------------- MODULE MobileProofs ----------------------------
(***************************************************************************)
(* Theorems about the mobile apps: their relay client (MobileRelay) and    *)
(* the native libraries they call (Bridge), for any number of calls,       *)
(* connections, messages, threads and faults.  The two specifications have *)
(* nothing in common; each part of this module is about one.               *)
(***************************************************************************)
EXTENDS MobileRelay, Bridge, FiniteSetTheorems, SequenceTheorems,
        WellFoundedInduction, TLAPS

(***************************************************************************)
(*                               MobileRelay                               *)
(***************************************************************************)

\* Messages, answers, pieces of answers and calls.
Letters == [id : Nat, fate : Fates]
Answers == [to : Nat, mail : Seq(Letters), ok : BOOLEAN]
PieceSet == [to : Nat, mail : Seq(Letters), ok : BOOLEAN, first : BOOLEAN,
             last : BOOLEAN]
CallSet == [pc : {"none", "write", "flush", "read", "resume", "done"},
            kind : Kinds \cup {"none"}, on : Nat, cancelled : BOOLEAN, got : Answers]

MobileTypes ==
    /\ platform \in {"android", "ios"}
    /\ conns \in 0..MaxConns /\ relay \in 0..conns /\ open \subseteq 1..conns
    /\ up \in [Conns -> Seq(Calls)] /\ down \in [Conns -> Seq(PieceSet)]
    /\ call \in [Calls -> CallSet] /\ calls \in 0..MaxCalls
    /\ queue \in Seq(Letters) /\ mailed \in Nat /\ gaveUp \in [Conns -> Nat]
    /\ crossed \subseteq Conns

\* A call that has not read has no answer, and one that is under way is on a
\* connection.
CallShape ==
    \A n \in Calls :
        /\ call[n].pc \in {"none", "write", "flush", "read"} => call[n].got = NoAnswer
        /\ call[n].pc \in {"write", "flush", "read", "resume"} => call[n].on \in 1..conns
        /\ n > calls => call[n] = NoCall

\* Nothing has passed on a connection that is still to be made.
Unmade ==
    \A c \in Conns : c > conns => up[c] = <<>> /\ down[c] = <<>> /\ gaveUp[c] = 0

\* What the relay says of call n.
Proper(n, a) ==
    /\ a.to = n
    /\ call[n].kind = "send" /\ a.ok => n \in accepted
    /\ call[n].kind # "receive" => a.mail = <<>>

\* A connection that is open and was never crossed carries one exchange at a
\* time: nothing, the line of its one reader, or the answer to that reader.
Resting(c) == InFlight(c) = {} /\ up[c] = <<>> /\ down[c] = <<>>
Asked(c, n) == InFlight(c) = {n} /\ up[c] = <<n>> /\ down[c] = <<>>
Replied(c, n) ==
    /\ InFlight(c) = {n} /\ up[c] = <<>>
    /\ \E a \in Answers, split \in BOOLEAN : down[c] = Pieces(a, split) /\ Proper(n, a)

\* An answer read on a connection that was not crossed is the call's own.
OwnAnswers ==
    \A n \in Calls : call[n].got # NoAnswer /\ call[n].on \notin crossed =>
        Proper(n, call[n].got)

-----------------------------------------------------------------------------
(***************************************************************************)
(* What a step does to the calls.                                          *)
(***************************************************************************)
Pcs == {"none", "write", "flush", "read", "resume", "done"}

\* Of the calls only n changes, to pc with the answer a.
Moves(n, pc, a) ==
    /\ call' \in [Calls -> CallSet]
    /\ \A m \in Calls \ {n} : call'[m] = call[m]
    /\ call'[n].pc = pc /\ call'[n].got = a /\ call'[n].kind = call[n].kind
    /\ call'[n].on = call[n].on /\ call'[n].cancelled = call[n].cancelled

\* PcMoves: a step that only moves a call along leaves its answer alone.
LEMMA PcMoves ==
    ASSUME MobileTypes, NEW n \in Calls, NEW pc \in Pcs,
           call' = [call EXCEPT ![n].pc = pc]
    PROVE  Moves(n, pc, call[n].got)
<1>1. \A r \in CallSet : LET q == [r EXCEPT !.pc = pc]
                         IN /\ q \in CallSet /\ q.pc = pc /\ q.kind = r.kind
                            /\ q.on = r.on /\ q.cancelled = r.cancelled
                            /\ q.got = r.got
    BY DEF CallSet, Pcs
<1>2. call[n] \in CallSet
    BY DEF MobileTypes
<1>3. call'[n] = [call[n] EXCEPT !.pc = pc] /\ \A m \in Calls \ {n} : call'[m] = call[m]
    BY DEF MobileTypes
<1>4. call' \in [Calls -> CallSet]
    BY <1>1, <1>2 DEF MobileTypes
<1> QED
    BY <1>1, <1>2, <1>3, <1>4 DEF Moves

\* FailsMoves: a call that fails ends with the answer it had, which is none.
LEMMA FailsMoves ==
    ASSUME MobileTypes, NEW n \in Calls, Fails(n)
    PROVE  Moves(n, "done", call[n].got)
BY PcMoves DEF Fails, Pcs

\* AnsweredMoves: a call that is answered goes back to its screen.
LEMMA AnsweredMoves ==
    ASSUME MobileTypes, NEW n \in Calls, NEW a \in Answers, Answered(n, a)
    PROVE  Moves(n, "resume", a)
<1>1. \A r \in CallSet :
        LET q == [r EXCEPT !.got = a, !.pc = "resume"]
        IN /\ q \in CallSet /\ q.pc = "resume" /\ q.kind = r.kind
           /\ q.on = r.on /\ q.cancelled = r.cancelled /\ q.got = a
    BY DEF CallSet
<1>2. call[n] \in CallSet
    BY DEF MobileTypes
<1>3. call' = [call EXCEPT ![n].got = a, ![n].pc = "resume"]
    BY DEF Answered
<1>4. call'[n] = [call[n] EXCEPT !.got = a, !.pc = "resume"]
      /\ \A m \in Calls \ {n} : call'[m] = call[m]
    BY <1>3 DEF MobileTypes
<1>5. call' \in [Calls -> CallSet]
    BY <1>1, <1>2, <1>3 DEF MobileTypes
<1>6. /\ call'[n].pc = "resume" /\ call'[n].got = a /\ call'[n].kind = call[n].kind
      /\ call'[n].on = call[n].on /\ call'[n].cancelled = call[n].cancelled
    BY <1>1, <1>2, <1>4
<1> QED
    BY <1>4, <1>5, <1>6, Zenon DEF Moves

\* MovesInFlight: the readers of a connection after such a step.
LEMMA MovesInFlight ==
    ASSUME NEW n \in Calls, NEW pc, NEW a, Moves(n, pc, a), NEW c
    PROVE  InFlight(c)' = IF call[n].on = c /\ pc = "read" THEN InFlight(c) \cup {n}
                          ELSE InFlight(c) \ {n}
BY DEF Moves, InFlight

\* AnswerType: a piece carries what the whole answer says.
LEMMA AnswerType ==
    ASSUME NEW p \in PieceSet
    PROVE  /\ Answer(p) \in Answers /\ Answer(p).to = p.to
           /\ Answer(p).mail = p.mail /\ Answer(p).ok = p.ok
BY DEF PieceSet, Answer, Answers

\* PiecesType: an answer is one piece or two, the last of which ends the line.
LEMMA PiecesType ==
    ASSUME NEW a \in Answers, NEW split \in BOOLEAN
    PROVE  LET s == Pieces(a, split)
           IN /\ s \in Seq(PieceSet)
              /\ Len(s) = IF split THEN 2 ELSE 1
              /\ \A i \in 1..Len(s) : /\ Answer(s[i]) = a
                                      /\ s[i].mail = a.mail
                                      /\ s[i].first <=> i = 1
                                      /\ s[i].last <=> i = Len(s)
<1>1. PICK p : p = [to |-> a.to, mail |-> a.mail, ok |-> a.ok, first |-> TRUE,
                    last |-> TRUE]
    OBVIOUS
<1>2. /\ p \in PieceSet /\ [p EXCEPT !.last = FALSE] \in PieceSet
      /\ [p EXCEPT !.first = FALSE] \in PieceSet
    BY <1>1 DEF PieceSet, Answers
<1>3. a = [to |-> a.to, mail |-> a.mail, ok |-> a.ok]
    BY DEF Answers
<1>4. CASE split
  <2>1. PICK q, r : q = [p EXCEPT !.last = FALSE] /\ r = [p EXCEPT !.first = FALSE]
      OBVIOUS
  <2>2. Pieces(a, split) = <<q, r>>
      BY <1>1, <1>4, <2>1, Zenon DEF Pieces
  <2>3. /\ q \in PieceSet /\ r \in PieceSet
        /\ q.first /\ ~q.last /\ ~r.first /\ r.last /\ q.mail = a.mail /\ r.mail = a.mail
        /\ q.to = a.to /\ q.ok = a.ok /\ r.to = a.to /\ r.ok = a.ok
      BY <1>1, <1>2, <2>1
  <2>4. Answer(q) = a /\ Answer(r) = a
      BY <1>3, <2>3 DEF Answer
  <2>5. PICK s : s = <<q, r>>
      OBVIOUS
  <2>6. s \in Seq(PieceSet) /\ Len(s) = 2 /\ s[1] = q /\ s[2] = r
      BY <2>3, <2>5
  <2>7. \A i \in 1..Len(s) : i = 1 \/ i = 2
      BY <2>6
  <2> QED
      BY <1>4, <2>2, <2>3, <2>4, <2>5, <2>6, <2>7
<1>5. CASE ~split
  <2>1. Pieces(a, split) = <<p>>
      BY <1>1, <1>5, Zenon DEF Pieces
  <2>2. p.first /\ p.last /\ p.mail = a.mail /\ p.to = a.to /\ p.ok = a.ok
      BY <1>1
  <2>3. Answer(p) = a
      BY <1>3, <2>2 DEF Answer
  <2>4. PICK s : s = <<p>>
      OBVIOUS
  <2>5. s \in Seq(PieceSet) /\ Len(s) = 1 /\ s[1] = p
      BY <1>2, <2>4
  <2> QED
      BY <1>5, <2>1, <2>2, <2>3, <2>4, <2>5
<1> QED
    BY <1>4, <1>5
-----------------------------------------------------------------------------
(***************************************************************************)
(* The type invariant of the proof.                                        *)
(***************************************************************************)
LEMMA ConstantTypes == MaxCalls \in Nat /\ MaxConns \in Nat /\ Calls \subseteq Nat
                       /\ Conns \subseteq Nat
BY MobileAssumption DEF Calls, Conns

\* OpenIsMade: a connection that is open is one of the instance's.
LEMMA OpenIsMade == ASSUME MobileTypes PROVE \A c \in open : c \in Conns
BY ConstantTypes DEF MobileTypes, Conns

\* AppendTypes, TailTypes, CutTypes: the sequences that the steps build.
LEMMA AppendTypes ==
    ASSUME NEW S, NEW s \in Seq(S), NEW x \in S
    PROVE  /\ Append(s, x) \in Seq(S) /\ Len(Append(s, x)) = Len(s) + 1
           /\ Append(s, x)[Len(s) + 1] = x
           /\ \A i \in 1..Len(s) : Append(s, x)[i] = s[i]
BY AppendProperties

\* CutTypes: what is left of a stream when its first pieces are read.
LEMMA CutTypes ==
    ASSUME NEW S, NEW s \in Seq(S), NEW k \in 0..Len(s)
    PROVE  /\ SubSeq(s, k + 1, Len(s)) \in Seq(S)
           /\ Len(SubSeq(s, k + 1, Len(s))) = Len(s) - k
           /\ \A i \in 1..(Len(s) - k) : SubSeq(s, k + 1, Len(s))[i] = s[k + i]
<1>1. Len(s) \in Nat
    BY LenProperties
<1> QED
    BY <1>1, SubSeqProperties

\* LineEndsType, MinType: the end of the first line.
LEMMA LineEndsType ==
    ASSUME MobileTypes, NEW c \in Conns
    PROVE  /\ LineEnds(c) \subseteq 1..Len(down[c]) /\ Len(down[c]) \in Nat
           /\ LineEnds(c) = {k \in 1..Len(down[c]) : down[c][k].last}
<1>1. down[c] \in Seq(PieceSet)
    BY DEF MobileTypes
<1>2. DOMAIN down[c] = 1..Len(down[c]) /\ Len(down[c]) \in Nat
    BY <1>1, LenProperties
<1> QED
    BY <1>2 DEF LineEnds

\* MinType: the first line is there and ends before the others.
LEMMA MinType ==
    ASSUME NEW S \in SUBSET Nat, S # {}
    PROVE  Min(S) \in S /\ \A k \in S : Min(S) =< k
<1>1. PICK x \in S : \A y \in S : ~(<<y, x>> \in OpToRel(<, Nat))
    BY NatLessThanWellFounded, WFMin
<1>2. ASSUME NEW y \in S PROVE x =< y
  <2>1. y < x => <<y, x>> \in OpToRel(<, Nat)
      BY Zenon DEF OpToRel
  <2>2. ~(y < x)
      BY <1>1, <2>1
  <2> QED
      BY <2>2
<1> QED
    BY <1>2, Zenon DEF Min

\* The shape of the state.
ShapeInv == MobileTypes /\ CallShape /\ Unmade

\* BegunCall: a call that does something has begun.
LEMMA BegunCall ==
    ASSUME ShapeInv, NEW n \in Calls, call[n].pc # "none"
    PROVE  n =< calls
<1>1. call[n] # NoCall
    BY DEF NoCall
<1>2. n \in Nat /\ calls \in Nat
    BY ConstantTypes DEF ShapeInv, MobileTypes
<1> QED
    BY <1>1, <1>2 DEF ShapeInv, CallShape

\* MovesShape: a call that goes on keeps the shape of the calls.
LEMMA MovesShape ==
    ASSUME ShapeInv, NEW n \in Calls, NEW pc \in Pcs \ {"none"}, NEW a,
           Moves(n, pc, a), call[n].pc \in {"write", "flush", "read", "resume"},
           pc \in {"write", "flush", "read"} => a = NoAnswer, UNCHANGED <<conns, calls>>
    PROVE  CallShape'
<1>1. n =< calls /\ n \in Nat /\ calls \in Nat
    BY BegunCall, ConstantTypes DEF ShapeInv, MobileTypes
<1>2. call[n].on \in 1..conns
    BY DEF ShapeInv, CallShape
<1>3. ASSUME NEW m \in Calls
      PROVE  /\ call'[m].pc \in {"none", "write", "flush", "read"} => call'[m].got = NoAnswer
             /\ call'[m].pc \in {"write", "flush", "read", "resume"} => call'[m].on \in 1..conns
             /\ m > calls => call'[m] = NoCall
  <2>1. CASE m = n
    <3>1. ~(n > calls)
        BY <1>1
    <3> QED
        BY <1>2, <2>1, <3>1 DEF Moves
  <2>2. CASE m # n
      BY <2>2 DEF Moves, ShapeInv, CallShape
  <2> QED
      BY <2>1, <2>2
<1> QED
    BY <1>3 DEF CallShape

\* StillUnmade: a step on an open connection is not on one to be made.
LEMMA StillUnmade ==
    ASSUME ShapeInv, NEW c \in open, conns' = conns,
           \A d \in Conns \ {c} : up'[d] = up[d] /\ down'[d] = down[d] /\ gaveUp'[d] = gaveUp[d]
    PROVE  Unmade'
<1>1. ~(c > conns)
    BY DEF ShapeInv, MobileTypes
<1> QED
    BY <1>1 DEF ShapeInv, Unmade

\* ConnectShape: a new connection keeps the shape of the state.
LEMMA ConnectShape ==
    ASSUME ShapeInv, connect PROVE ShapeInv'
<1>1. /\ conns < MaxConns /\ conns' = conns + 1 /\ relay' = conns + 1
      /\ open' \subseteq open \cup {conns + 1}
      /\ UNCHANGED <<platform, up, down, call, calls, queue, mailed, gaveUp, crossed>>
    BY DEF connect, mailbox
<1>2. conns \in Nat /\ MaxConns \in Nat
    BY ConstantTypes DEF ShapeInv, MobileTypes
<1>3. /\ conns' \in 0..MaxConns /\ relay' \in 0..conns' /\ open' \subseteq 1..conns'
      /\ 1..conns \subseteq 1..conns'
    BY <1>1, <1>2 DEF ShapeInv, MobileTypes
<1>4. MobileTypes'
    BY <1>1, <1>3 DEF ShapeInv, MobileTypes
<1>5. CallShape'
    BY <1>1, <1>3 DEF ShapeInv, CallShape
<1>6. Unmade'
  <2>1. \A c \in Conns : c > conns' => c > conns
      BY <1>1, <1>2, ConstantTypes
  <2> QED
      BY <1>1, <2>1 DEF ShapeInv, Unmade
<1> QED
    BY <1>4, <1>5, <1>6 DEF ShapeInv

\* CloseShape: so does closing one.
LEMMA CloseShape ==
    ASSUME ShapeInv, disconnect \/ \E c \in Conns : close(c) PROVE ShapeInv'
<1>1. /\ relay' \in {relay, 0} /\ open' \subseteq open
      /\ UNCHANGED <<platform, conns, up, down, call, calls, queue, mailed, gaveUp,
                     crossed>>
    BY DEF disconnect, close, mailbox, None
<1>2. relay' \in 0..conns'
    BY <1>1 DEF ShapeInv, MobileTypes
<1>3. MobileTypes'
    BY <1>1, <1>2 DEF ShapeInv, MobileTypes
<1> QED
    BY <1>1, <1>3 DEF ShapeInv, CallShape, Unmade

\* BeginDoes: a new call waits to write.
LEMMA BeginDoes ==
    ASSUME ShapeInv, NEW kind \in Kinds, begin(kind)
    PROVE  /\ calls + 1 \in Calls /\ calls' = calls + 1
           /\ call' \in [Calls -> CallSet]
           /\ call[calls + 1] = NoCall
           /\ call'[calls + 1].pc = "write" /\ call'[calls + 1].got = NoAnswer
           /\ call'[calls + 1].on = relay /\ ~call'[calls + 1].cancelled
           /\ \A m \in Calls : m # calls + 1 => call'[m] = call[m]
<1>1. calls \in Nat /\ MaxCalls \in Nat /\ calls < MaxCalls
    BY ConstantTypes DEF ShapeInv, MobileTypes, begin
<1>2. calls + 1 \in Calls /\ calls + 1 > calls
    BY <1>1 DEF Calls
<1>3. PICK r : r = [NoCall EXCEPT !.pc = "write", !.kind = kind, !.on = relay]
    OBVIOUS
<1>4. call' = [call EXCEPT ![calls + 1] = r]
    BY <1>3, Zenon DEF begin
<1>5. relay \in Nat
    BY DEF ShapeInv, MobileTypes
<1>6. NoAnswer \in Answers
  <2>1. <<>> \in Seq(Letters)
      BY EmptySeq
  <2> QED
      BY <2>1 DEF NoAnswer, Answers, None
<1>7. /\ r \in CallSet /\ r.pc = "write" /\ r.got = NoAnswer /\ r.on = relay
      /\ ~r.cancelled
  <2>1. r = [pc |-> "write", kind |-> kind, on |-> relay, cancelled |-> FALSE,
             got |-> NoAnswer]
      BY <1>3 DEF NoCall
  <2> QED
      BY <1>5, <1>6, <2>1 DEF CallSet
<1>8. call' \in [Calls -> CallSet] /\ call'[calls + 1] = r
      /\ \A m \in Calls : m # calls + 1 => call'[m] = call[m]
    BY <1>2, <1>4, <1>7 DEF ShapeInv, MobileTypes
<1>9. call[calls + 1] = NoCall
    BY <1>2 DEF ShapeInv, CallShape
<1> QED
    BY <1>2, <1>7, <1>8, <1>9 DEF begin

\* BeginShape: a new call keeps the shape of the state.
LEMMA BeginShape ==
    ASSUME ShapeInv, NEW kind \in Kinds, begin(kind) PROVE ShapeInv'
<1>1. /\ relay # None
      /\ UNCHANGED <<platform, relay, conns, open, up, down, queue, mailed, gaveUp,
                     crossed>>
    BY DEF begin, links, mailbox
<1>2. calls \in Nat /\ MaxCalls \in Nat /\ relay \in 1..conns
    BY <1>1, ConstantTypes DEF ShapeInv, MobileTypes, None
<1>3. calls' \in 0..MaxCalls
    BY <1>2, BeginDoes DEF Calls
<1>4. MobileTypes'
    BY <1>1, <1>3, BeginDoes DEF ShapeInv, MobileTypes
<1>5. ASSUME NEW n \in Calls
      PROVE  /\ call'[n].pc \in {"none", "write", "flush", "read"} => call'[n].got = NoAnswer
             /\ call'[n].pc \in {"write", "flush", "read", "resume"} => call'[n].on \in 1..conns
             /\ n > calls' => call'[n] = NoCall
  <2>1. CASE n = calls + 1
    <3>1. ~(n > calls')
        BY <1>2, <2>1, BeginDoes
    <3> QED
        BY <1>2, <2>1, <3>1, BeginDoes
  <2>2. CASE n # calls + 1
    <3>1. n > calls' => n > calls
        BY <1>2, ConstantTypes, BeginDoes
    <3> QED
        BY <2>2, <3>1, BeginDoes DEF ShapeInv, CallShape
  <2> QED
      BY <2>1, <2>2
<1>6. CallShape'
    BY <1>1, <1>5 DEF CallShape
<1>7. Unmade'
    BY <1>1 DEF ShapeInv, Unmade
<1> QED
    BY <1>4, <1>6, <1>7 DEF ShapeInv

\* SendDoes: a call gets its turn to write, or fails; or its line is with the relay.
LEMMA SendDoes ==
    ASSUME ShapeInv, NEW n \in Calls, sendJson(n) \/ flush(n)
    PROVE  /\ call[n].pc \in {"write", "flush"}
           /\ \/ /\ \E pc \in {"flush", "done"} : Moves(n, pc, call[n].got)
                 /\ UNCHANGED <<up, crossed>>
              \/ /\ call[n].on \in open /\ Written(n)
                 /\ Moves(n, "read", call[n].got)
           /\ UNCHANGED <<platform, relay, conns, open, down, calls, queue, mailed,
                          handled, faults, accepted, gaveUp>>
<1>1. /\ call[n].pc \in {"write", "flush"}
      /\ UNCHANGED <<platform, relay, conns, open, down, calls, queue, mailed, handled,
                     faults, accepted, gaveUp>>
    BY DEF sendJson, flush, links, mailbox
<1>2. \/ /\ Fails(n) \/ call' = [call EXCEPT ![n].pc = "flush"]
         /\ UNCHANGED <<up, crossed>>
      \/ call[n].on \in open /\ Written(n)
    BY DEF sendJson, flush
<1>3. ASSUME Fails(n) PROVE Moves(n, "done", call[n].got)
    BY <1>3, FailsMoves DEF ShapeInv
<1>4. ASSUME call' = [call EXCEPT ![n].pc = "flush"] PROVE Moves(n, "flush", call[n].got)
    BY <1>4, PcMoves DEF ShapeInv, Pcs
<1>5. ASSUME Written(n) PROVE Moves(n, "read", call[n].got)
    BY <1>5, PcMoves DEF Written, ShapeInv, Pcs
<1> QED
    BY <1>1, <1>2, <1>3, <1>4, <1>5

\* SendShape: writing a line keeps the shape of the state.
LEMMA SendShape ==
    ASSUME ShapeInv, NEW n \in Calls, sendJson(n) \/ flush(n) PROVE ShapeInv'
<1> DEFINE c == call[n].on
<1>1. call[n].pc \in {"write", "flush"} /\ call[n].got = NoAnswer /\ c \in 1..conns
    BY SendDoes DEF ShapeInv, CallShape
<1>2. UNCHANGED <<platform, relay, conns, open, down, calls, queue, mailed, gaveUp>>
    BY SendDoes
<1>3. ASSUME NEW pc \in {"flush", "done"}, Moves(n, pc, call[n].got),
             UNCHANGED <<up, crossed>>
      PROVE  ShapeInv'
  <2>1. CallShape'
      BY <1>1, <1>2, <1>3, MovesShape DEF Pcs
  <2> QED
      BY <1>2, <1>3, <2>1 DEF ShapeInv, MobileTypes, Moves, Unmade
<1>4. ASSUME c \in open, Written(n), Moves(n, "read", call[n].got)
      PROVE  ShapeInv'
  <2>1. up' = [up EXCEPT ![c] = Append(@, n)] /\ crossed' \subseteq crossed \cup {c}
      BY <1>4 DEF Written
  <2>2. CallShape'
      BY <1>1, <1>2, <1>4, MovesShape DEF Pcs
  <2>3. c \in Conns
      BY <1>4, OpenIsMade DEF ShapeInv
  <2>4. Append(up[c], n) \in Seq(Calls)
      BY <2>3, AppendTypes DEF ShapeInv, MobileTypes
  <2>5. up' \in [Conns -> Seq(Calls)] /\ \A d \in Conns \ {c} : up'[d] = up[d]
      BY <2>1, <2>3, <2>4 DEF ShapeInv, MobileTypes
  <2>6. MobileTypes'
      BY <1>2, <1>4, <2>1, <2>3, <2>5 DEF ShapeInv, MobileTypes, Moves
  <2>7. Unmade'
      BY <1>2, <1>4, <2>5, StillUnmade
  <2> QED
      BY <2>2, <2>6, <2>7 DEF ShapeInv
<1> QED
    BY <1>3, <1>4, SendDoes

\* ReadLineDoes: the first line of the stream is the answer, if it is whole.
LEMMA ReadLineDoes ==
    ASSUME ShapeInv, NEW n \in Calls, readLine(n)
    PROVE  LET c == call[n].on
               k == Min(LineEnds(c))
           IN /\ c \in Conns /\ c \in open /\ call[n].pc = "read"
              /\ platform = "android"
              /\ k \in LineEnds(c) /\ k \in 1..Len(down[c])
              /\ \A j \in LineEnds(c) : k =< j
              /\ down[c][1] \in PieceSet
              /\ \/ Moves(n, "resume", Answer(down[c][1]))
                 \/ ~down[c][1].first /\ Moves(n, "done", call[n].got)
              /\ down' \in [Conns -> Seq(PieceSet)]
              /\ down'[c] = SubSeq(down[c], k + 1, Len(down[c]))
              /\ \A d \in Conns \ {c} : down'[d] = down[d]
              /\ UNCHANGED <<platform, relay, conns, open, up, calls, queue, mailed,
                             handled, faults, accepted, gaveUp, crossed>>
<1> DEFINE c == call[n].on
           k == Min(LineEnds(c))
<1>1. /\ c \in open /\ LineEnds(c) # {}
      /\ IF down[c][1].first THEN Answered(n, Answer(down[c][1])) ELSE Fails(n)
      /\ down' = [down EXCEPT ![c] = SubSeq(@, k + 1, Len(@))]
      /\ platform = "android" /\ call[n].pc = "read"
      /\ UNCHANGED <<platform, relay, conns, open, up, calls, queue, mailed, handled,
                     faults, accepted, gaveUp, crossed>>
    BY DEF readLine, links, mailbox
<1>2. c \in Conns /\ down[c] \in Seq(PieceSet)
    BY <1>1, OpenIsMade DEF ShapeInv, MobileTypes
<1>3. LineEnds(c) \subseteq 1..Len(down[c]) /\ Len(down[c]) \in Nat
    BY <1>2, LineEndsType DEF ShapeInv
<1>4. LineEnds(c) \in SUBSET Nat
    BY <1>3
<1>5. k \in LineEnds(c) /\ \A j \in LineEnds(c) : k =< j
    BY <1>1, <1>4, MinType
<1> HIDE DEF k
<1>6. k \in 0..Len(down[c]) /\ 1 \in 1..Len(down[c])
    BY <1>3, <1>5
<1>7. down[c][1] \in PieceSet
    BY <1>2, <1>6, ElementOfSeq
<1>8. SubSeq(down[c], k + 1, Len(down[c])) \in Seq(PieceSet)
    BY <1>2, <1>6, CutTypes
<1>9. \/ Moves(n, "resume", Answer(down[c][1]))
      \/ ~down[c][1].first /\ Moves(n, "done", call[n].got)
    BY <1>1, <1>7, AnswerType, AnsweredMoves, FailsMoves DEF ShapeInv
<1>10. /\ down' \in [Conns -> Seq(PieceSet)]
       /\ down'[c] = SubSeq(down[c], k + 1, Len(down[c]))
       /\ \A d \in Conns \ {c} : down'[d] = down[d]
    BY <1>1, <1>2, <1>8 DEF ShapeInv, MobileTypes
<1> QED
    BY <1>1, <1>2, <1>3, <1>5, <1>7, <1>9, <1>10 DEF k

\* ReceiveBytesDoes: whatever is there is the answer, or is not one.
LEMMA ReceiveBytesDoes ==
    ASSUME ShapeInv, NEW n \in Calls, receiveBytes(n)
    PROVE  LET c == call[n].on
           IN /\ c \in Conns /\ c \in open /\ call[n].pc = "read"
              /\ platform = "ios"
              /\ down' \in [Conns -> Seq(PieceSet)]
              /\ \A d \in Conns \ {c} : down'[d] = down[d]
              /\ \E k \in 1..Len(down[c]) :
                   /\ down'[c] = SubSeq(down[c], k + 1, Len(down[c]))
                   /\ \/ /\ OneAnswer(SubSeq(down[c], 1, k))
                         /\ down[c][1] \in PieceSet
                         /\ Moves(n, "resume", Answer(down[c][1]))
                         /\ crossed' = crossed
                      \/ /\ Moves(n, "done", call[n].got)
                         /\ crossed' = crossed \cup {c}
              /\ UNCHANGED <<platform, relay, conns, open, up, calls, queue, mailed,
                             handled, faults, accepted, gaveUp>>
<1> DEFINE c == call[n].on
<1>1. /\ c \in open /\ platform = "ios" /\ call[n].pc = "read"
      /\ UNCHANGED <<platform, relay, conns, open, up, calls, queue, mailed, handled,
                     faults, accepted, gaveUp>>
    BY DEF receiveBytes, links, mailbox
<1>2. c \in Conns /\ down[c] \in Seq(PieceSet)
    BY <1>1, OpenIsMade DEF ShapeInv, MobileTypes
<1>3. DOMAIN down[c] = 1..Len(down[c]) /\ Len(down[c]) \in Nat
    BY <1>2, LenProperties
<1>4. PICK k \in 1..Len(down[c]) :
        /\ down' = [down EXCEPT ![c] = SubSeq(@, k + 1, Len(@))]
        /\ IF OneAnswer(SubSeq(down[c], 1, k))
           THEN Answered(n, Answer(SubSeq(down[c], 1, k)[1])) /\ UNCHANGED crossed
           ELSE Fails(n) /\ crossed' = crossed \cup {c}
    BY <1>3 DEF receiveBytes
<1>5. k \in 0..Len(down[c]) /\ 1 \in 1..Len(down[c])
    BY <1>3
<1>6. SubSeq(down[c], k + 1, Len(down[c])) \in Seq(PieceSet)
    BY <1>2, <1>5, CutTypes
<1>7. /\ down' \in [Conns -> Seq(PieceSet)]
      /\ down'[c] = SubSeq(down[c], k + 1, Len(down[c]))
      /\ \A d \in Conns \ {c} : down'[d] = down[d]
    BY <1>2, <1>4, <1>6 DEF ShapeInv, MobileTypes
<1>8. SubSeq(down[c], 1, k)[1] = down[c][1] /\ down[c][1] \in PieceSet
    BY <1>2, <1>3, <1>5, SubSeqProperties, ElementOfSeq
<1>9. CASE OneAnswer(SubSeq(down[c], 1, k))
  <2>1. Answered(n, Answer(down[c][1])) /\ UNCHANGED crossed
      BY <1>4, <1>8, <1>9
  <2>2. Moves(n, "resume", Answer(down[c][1]))
      BY <1>8, <2>1, AnswerType, AnsweredMoves DEF ShapeInv
  <2> QED
      BY <1>1, <1>2, <1>7, <1>8, <1>9, <2>1, <2>2
<1>10. CASE ~OneAnswer(SubSeq(down[c], 1, k))
  <2>1. Moves(n, "done", call[n].got) /\ crossed' = crossed \cup {c}
      BY <1>4, <1>10, FailsMoves DEF ShapeInv
  <2> QED
      BY <1>1, <1>2, <1>7, <2>1
<1> QED
    BY <1>9, <1>10

\* ReadShape: reading an answer keeps the shape of the state.
LEMMA ReadShape ==
    ASSUME ShapeInv, NEW n \in Calls, readLine(n) \/ receiveBytes(n) PROVE ShapeInv'
<1> DEFINE c == call[n].on
<1>1. /\ c \in Conns /\ c \in open /\ call[n].pc = "read"
      /\ down' \in [Conns -> Seq(PieceSet)]
      /\ \A d \in Conns \ {c} : down'[d] = down[d]
      /\ crossed' \subseteq crossed \cup {c}
      /\ UNCHANGED <<platform, relay, conns, open, up, calls, queue, mailed, gaveUp>>
    BY ReadLineDoes, ReceiveBytesDoes
<1>2. \E a, pc : Moves(n, pc, a) /\ pc \in {"done", "resume"}
    BY ReadLineDoes, ReceiveBytesDoes
<1>3. CallShape'
    BY <1>1, <1>2, MovesShape DEF Pcs
<1>4. MobileTypes'
    BY <1>1, <1>2 DEF ShapeInv, MobileTypes, Moves
<1>5. Unmade'
    BY <1>1, StillUnmade
<1> QED
    BY <1>3, <1>4, <1>5 DEF ShapeInv

\* TimesOutDoes: nothing of a stream is lost by a timeout but the first pieces of a
\* line.
LEMMA TimesOutDoes ==
    ASSUME ShapeInv, NEW n \in Calls, readTimesOut(n)
    PROVE  LET c == call[n].on
           IN /\ c \in Conns /\ c \in open /\ call[n].pc = "read"
              /\ platform = "android" /\ Moves(n, "done", call[n].got)
              /\ down' \in [Conns -> Seq(PieceSet)]
              /\ \/ down[c] = <<>> /\ down'[c] = <<>>
                 \/ /\ 1 \in 1..Len(down[c]) /\ ~down[c][1].last
                    /\ down'[c] = SubSeq(down[c], 2, Len(down[c]))
              /\ \A d \in Conns \ {c} : down'[d] = down[d]
              /\ gaveUp' \in [Conns -> Nat] /\ gaveUp'[c] = gaveUp[c] + 1
              /\ \A d \in Conns \ {c} : gaveUp'[d] = gaveUp[d]
              /\ crossed' = crossed \cup {c}
              /\ UNCHANGED <<platform, relay, conns, open, up, calls, queue, mailed,
                             handled, faults, accepted>>
<1> DEFINE c == call[n].on
<1>1. /\ c \in open /\ platform = "android" /\ call[n].pc = "read"
      /\ down[c] # <<>> => ~down[c][1].last
      /\ down' = [down EXCEPT ![c] = SubSeq(@, 2, Len(@))]
      /\ gaveUp' = [gaveUp EXCEPT ![c] = @ + 1]
      /\ crossed' = crossed \cup {c}
      /\ UNCHANGED <<platform, relay, conns, open, up, calls, queue, mailed, handled,
                     faults, accepted>>
    BY DEF readTimesOut, links, mailbox
<1>2. Moves(n, "done", call[n].got)
    BY FailsMoves DEF readTimesOut, ShapeInv
<1>3. c \in Conns /\ down[c] \in Seq(PieceSet) /\ Len(down[c]) \in Nat
    BY <1>1, OpenIsMade, LenProperties DEF ShapeInv, MobileTypes
<1>4. PICK t : t = SubSeq(down[c], 2, Len(down[c]))
    OBVIOUS
<1>5. /\ t \in Seq(PieceSet)
      /\ \/ down[c] = <<>> /\ t = <<>>
         \/ 1 \in 1..Len(down[c]) /\ ~down[c][1].last
  <2>1. CASE down[c] = <<>>
    <3>1. SubSeq(down[c], 2, Len(down[c])) = <<>>
        BY <2>1
    <3> QED
        BY <1>4, <2>1, <3>1
  <2>2. CASE down[c] # <<>>
    <3>1. Len(down[c]) # 0
        BY <1>3, <2>2, EmptySeq
    <3>2. 1 \in 0..Len(down[c]) /\ 1 \in 1..Len(down[c])
        BY <1>3, <3>1
    <3>3. SubSeq(down[c], 1 + 1, Len(down[c])) \in Seq(PieceSet)
        BY <1>3, <3>2, CutTypes
    <3> QED
        BY <1>1, <1>4, <2>2, <3>2, <3>3
  <2> QED
      BY <2>1, <2>2
<1>6. /\ down' \in [Conns -> Seq(PieceSet)] /\ down'[c] = t
      /\ \A d \in Conns \ {c} : down'[d] = down[d]
    BY <1>1, <1>3, <1>4, <1>5 DEF ShapeInv, MobileTypes
<1>7. /\ gaveUp' \in [Conns -> Nat] /\ gaveUp'[c] = gaveUp[c] + 1
      /\ \A d \in Conns \ {c} : gaveUp'[d] = gaveUp[d]
    BY <1>1, <1>3 DEF ShapeInv, MobileTypes
<1> QED
    BY <1>1, <1>2, <1>3, <1>4, <1>5, <1>6, <1>7

\* GiveUpShape: a read that times out or fails keeps the shape of the state.
LEMMA GiveUpShape ==
    ASSUME ShapeInv, NEW n \in Calls, readTimesOut(n) \/ readFails(n) PROVE ShapeInv'
<1>1. /\ call[n].pc = "read" /\ Moves(n, "done", call[n].got)
      /\ UNCHANGED <<platform, relay, conns, open, up, calls, queue, mailed>>
    BY FailsMoves DEF readTimesOut, readFails, links, mailbox, ShapeInv
<1>2. CallShape'
    BY <1>1, MovesShape DEF Pcs
<1>3. CASE readFails(n)
    BY <1>1, <1>2, <1>3 DEF ShapeInv, MobileTypes, Moves, Unmade, readFails
<1>4. CASE readTimesOut(n)
  <2>1. PICK c : c = call[n].on
      OBVIOUS
  <2>2. /\ c \in Conns /\ c \in open /\ down' \in [Conns -> Seq(PieceSet)]
        /\ gaveUp' \in [Conns -> Nat] /\ crossed' = crossed \cup {c}
        /\ \A d \in Conns \ {c} : down'[d] = down[d] /\ gaveUp'[d] = gaveUp[d]
      BY <1>4, <2>1, TimesOutDoes
  <2>3. MobileTypes'
      BY <1>1, <2>2 DEF ShapeInv, MobileTypes, Moves
  <2>4. Unmade'
      BY <1>1, <2>2, StillUnmade
  <2> QED
      BY <1>2, <2>3, <2>4 DEF ShapeInv
<1> QED
    BY <1>3, <1>4

\* Of the calls only n changes, and only by being cancelled.
Cancels(n) ==
    /\ call' \in [Calls -> CallSet]
    /\ \A m \in Calls \ {n} : call'[m] = call[m]
    /\ call'[n].pc = call[n].pc /\ call'[n].got = call[n].got
    /\ call'[n].kind = call[n].kind /\ call'[n].on = call[n].on
    /\ call'[n].cancelled

\* LeaveScreenDoes: the call fails before it wrote, or is cancelled.
LEMMA LeaveScreenDoes ==
    ASSUME ShapeInv, NEW n \in Calls, leaveScreen(n)
    PROVE  /\ call[n].pc \in {"write", "flush", "read", "resume"}
           /\ \/ call[n].pc = "write" /\ Moves(n, "done", call[n].got)
              \/ Cancels(n)
           /\ UNCHANGED <<platform, relay, conns, open, up, down, calls, queue, mailed,
                          handled, accepted, gaveUp, crossed>>
<1>1. /\ call[n].pc \in {"write", "flush", "read", "resume"}
      /\ UNCHANGED <<platform, relay, conns, open, up, down, calls, queue, mailed,
                     handled, accepted, gaveUp, crossed>>
    BY DEF leaveScreen, links, mailbox
<1>2. CASE call[n].pc = "write" /\ Fails(n)
    BY <1>1, <1>2, FailsMoves DEF ShapeInv
<1>3. CASE call' = [call EXCEPT ![n].cancelled = TRUE]
  <2>1. \A r \in CallSet : LET q == [r EXCEPT !.cancelled = TRUE]
                           IN /\ q \in CallSet /\ q.pc = r.pc /\ q.kind = r.kind
                              /\ q.on = r.on /\ q.got = r.got /\ q.cancelled
      BY DEF CallSet
  <2>2. call[n] \in CallSet
      BY DEF ShapeInv, MobileTypes
  <2>3. call'[n] = [call[n] EXCEPT !.cancelled = TRUE]
        /\ \A m \in Calls \ {n} : call'[m] = call[m]
      BY <1>3 DEF ShapeInv, MobileTypes
  <2>4. call' \in [Calls -> CallSet]
      BY <1>3, <2>1, <2>2 DEF ShapeInv, MobileTypes
  <2>5. Cancels(n)
      BY <2>1, <2>2, <2>3, <2>4 DEF Cancels
  <2> QED
      BY <1>1, <2>5
<1> QED
    BY <1>2, <1>3 DEF leaveScreen

\* LeaveScreenShape: leaving a screen keeps the shape of the state.
LEMMA LeaveScreenShape ==
    ASSUME ShapeInv, NEW n \in Calls, leaveScreen(n) PROVE ShapeInv'
<1>1. /\ call[n].pc \in {"write", "flush", "read", "resume"}
      /\ UNCHANGED <<platform, relay, conns, open, up, down, calls, queue, mailed,
                     gaveUp, crossed>>
    BY LeaveScreenDoes
<1>2. CallShape' /\ call' \in [Calls -> CallSet]
  <2>1. CASE Moves(n, "done", call[n].got)
      BY <1>1, <2>1, MovesShape DEF Pcs, Moves
  <2>2. CASE Cancels(n)
    <3>1. n =< calls /\ n \in Nat /\ calls \in Nat
        BY <1>1, BegunCall, ConstantTypes DEF ShapeInv, MobileTypes
    <3>2. ~(n > calls)
        BY <3>1
    <3> QED
        BY <1>1, <2>2, <3>2 DEF Cancels, ShapeInv, CallShape
  <2> QED
      BY <2>1, <2>2, LeaveScreenDoes
<1> QED
    BY <1>1, <1>2 DEF ShapeInv, MobileTypes, Unmade

\* ResumeShape: a screen that goes on ends the call and touches no connection.
LEMMA ResumeShape ==
    ASSUME ShapeInv, NEW n \in Calls, resume(n)
    PROVE  /\ ShapeInv'
           /\ call[n].pc = "resume" /\ Moves(n, "done", call[n].got)
           /\ UNCHANGED <<platform, relay, conns, open, up, down, calls, queue, mailed,
                          accepted, gaveUp, crossed>>
<1>1. /\ call[n].pc = "resume" /\ call' = [call EXCEPT ![n].pc = "done"]
      /\ UNCHANGED <<platform, relay, conns, open, up, down, calls, queue, mailed,
                     accepted, gaveUp, crossed>>
    BY DEF resume, links
<1>2. Moves(n, "done", call[n].got)
    BY <1>1, PcMoves DEF ShapeInv, Pcs
<1>3. CallShape'
    BY <1>1, <1>2, MovesShape DEF Pcs
<1> QED
    BY <1>1, <1>2, <1>3 DEF ShapeInv, MobileTypes, Moves, Unmade

\* ServeDoes: the relay answers the oldest line.
LEMMA ServeDoes ==
    ASSUME ShapeInv, NEW c \in Conns, serve(c)
    PROVE  LET n == Head(up[c])
           IN /\ c \in open /\ up[c] # <<>> /\ n \in Calls
              /\ up' \in [Conns -> Seq(Calls)] /\ up'[c] = Tail(up[c])
              /\ down' \in [Conns -> Seq(PieceSet)]
              /\ \A d \in Conns \ {c} : up'[d] = up[d] /\ down'[d] = down[d]
              /\ accepted \subseteq accepted'
              /\ \E a \in Answers, split \in BOOLEAN :
                   /\ down'[c] = down[c] \o Pieces(a, split)
                   /\ a.to = n
                   /\ call[n].kind = "send" /\ a.ok => n \in accepted'
                   /\ call[n].kind # "receive" => a.mail = <<>> /\ queue' = queue
                   /\ call[n].kind = "receive" => a.mail = queue /\ queue' = <<>>
              /\ UNCHANGED <<platform, relay, conns, open, call, calls, mailed, handled,
                             gaveUp, crossed>>
<1> DEFINE n == Head(up[c])
           polled == call[n].kind = "receive"
<1>1. /\ c \in open /\ up[c] # <<>> /\ up' = [up EXCEPT ![c] = Tail(@)]
      /\ UNCHANGED <<platform, relay, conns, open, call, calls, mailed, handled,
                     gaveUp, crossed>>
    BY DEF serve, links
<1>2. up[c] \in Seq(Calls)
    BY DEF ShapeInv, MobileTypes
<1>3. n \in Calls /\ Tail(up[c]) \in Seq(Calls)
    BY <1>1, <1>2, HeadTailProperties
<1>4. PICK ok \in BOOLEAN, split \in BOOLEAN :
        /\ down' = [down EXCEPT ![c] = @ \o
             Pieces([to |-> n, ok |-> ok, mail |-> IF polled THEN queue ELSE <<>>], split)]
        /\ queue' = IF polled THEN <<>> ELSE queue
        /\ accepted' = IF ok /\ call[n].kind = "send" THEN accepted \cup {n} ELSE accepted
    BY DEF serve
<1>5. PICK a : a = [to |-> n, ok |-> ok, mail |-> IF polled THEN queue ELSE <<>>]
    OBVIOUS
<1>6. <<>> \in Seq(Letters) /\ queue \in Seq(Letters)
    BY EmptySeq DEF ShapeInv, MobileTypes
<1>7. /\ a \in Answers /\ a.to = n /\ a.ok = ok
      /\ a.mail = IF polled THEN queue ELSE <<>>
    BY <1>3, <1>5, <1>6, ConstantTypes DEF Answers
<1>8. down' = [down EXCEPT ![c] = @ \o Pieces(a, split)]
    BY <1>4, <1>5, Zenon
<1>9. Pieces(a, split) \in Seq(PieceSet)
    BY <1>7, PiecesType
<1>10. down[c] \in Seq(PieceSet)
    BY DEF ShapeInv, MobileTypes
<1>11. down[c] \o Pieces(a, split) \in Seq(PieceSet)
    BY <1>9, <1>10, ConcatProperties
<1>12. /\ down' \in [Conns -> Seq(PieceSet)] /\ down'[c] = down[c] \o Pieces(a, split)
       /\ \A d \in Conns \ {c} : down'[d] = down[d]
    BY <1>8, <1>11 DEF ShapeInv, MobileTypes
<1>13. /\ up' \in [Conns -> Seq(Calls)] /\ up'[c] = Tail(up[c])
       /\ \A d \in Conns \ {c} : up'[d] = up[d]
    BY <1>1, <1>3 DEF ShapeInv, MobileTypes
<1>14. /\ accepted \subseteq accepted'
       /\ call[n].kind = "send" /\ a.ok => n \in accepted'
       /\ call[n].kind # "receive" => a.mail = <<>> /\ queue' = queue
       /\ call[n].kind = "receive" => a.mail = queue /\ queue' = <<>>
    BY <1>4, <1>7
<1> HIDE DEF n, polled
<1>15. /\ accepted \subseteq accepted'
       /\ \E b \in Answers, t \in BOOLEAN :
            /\ down'[c] = down[c] \o Pieces(b, t)
            /\ b.to = n
            /\ call[n].kind = "send" /\ b.ok => n \in accepted'
            /\ call[n].kind # "receive" => b.mail = <<>> /\ queue' = queue
            /\ call[n].kind = "receive" => b.mail = queue /\ queue' = <<>>
    BY <1>7, <1>12, <1>14, Zenon
<1> QED
    BY <1>1, <1>3, <1>12, <1>13, <1>15 DEF n

\* ServeShape: the relay's answer keeps the shape of the state.
LEMMA ServeShape ==
    ASSUME ShapeInv, NEW c \in Conns, serve(c) PROVE ShapeInv'
<1>1. /\ c \in open
      /\ up' \in [Conns -> Seq(Calls)] /\ down' \in [Conns -> Seq(PieceSet)]
      /\ \A d \in Conns \ {c} : up'[d] = up[d] /\ down'[d] = down[d]
      /\ UNCHANGED <<platform, relay, conns, open, call, calls, mailed, gaveUp, crossed>>
    BY ServeDoes
<1>2. queue' \in {queue, <<>>}
    BY ServeDoes
<1>3. queue' \in Seq(Letters)
    BY <1>2, EmptySeq DEF ShapeInv, MobileTypes
<1>4. Unmade'
    BY <1>1, StillUnmade
<1> QED
    BY <1>1, <1>3, <1>4 DEF ShapeInv, MobileTypes, CallShape

\* MailShape: new mail is put at the end of the queue, under an id of its own.
LEMMA MailShape ==
    ASSUME ShapeInv, NEW fate \in Fates, mail(fate)
    PROVE  /\ ShapeInv'
           /\ mailed' = mailed + 1
           /\ queue' = Append(queue, [id |-> mailed + 1, fate |-> fate])
           /\ [id |-> mailed + 1, fate |-> fate] \in Letters
           /\ UNCHANGED <<platform, relay, conns, open, up, down, call, calls, handled,
                          accepted, gaveUp, crossed>>
<1>1. /\ mailed' = mailed + 1
      /\ queue' = Append(queue, [id |-> mailed + 1, fate |-> fate])
      /\ UNCHANGED <<platform, relay, conns, open, up, down, call, calls, handled,
                     accepted, gaveUp, crossed>>
    BY DEF mail, links
<1>2. [id |-> mailed + 1, fate |-> fate] \in Letters
    BY DEF Letters, ShapeInv, MobileTypes
<1>3. queue' \in Seq(Letters)
    BY <1>1, <1>2, AppendTypes DEF ShapeInv, MobileTypes
<1> QED
    BY <1>1, <1>2, <1>3 DEF ShapeInv, MobileTypes, CallShape, Unmade

\* ShapeStep: every step keeps the shape of the state.
LEMMA ShapeStep == ASSUME ShapeInv, [Next]_vars PROVE ShapeInv'
<1>1. CASE connect
    BY <1>1, ConnectShape
<1>2. CASE disconnect \/ \E c \in Conns : close(c)
    BY <1>2, CloseShape
<1>3. ASSUME NEW kind \in Kinds, begin(kind) PROVE ShapeInv'
    BY <1>3, BeginShape
<1>4. ASSUME NEW n \in Calls, Client(n) \/ flush(n) PROVE ShapeInv'
    BY <1>4, SendShape, ReadShape, GiveUpShape, ResumeShape DEF Client
<1>5. ASSUME NEW n \in Calls, leaveScreen(n) PROVE ShapeInv'
    BY <1>5, LeaveScreenShape
<1>6. ASSUME NEW c \in Conns, serve(c) PROVE ShapeInv'
    BY <1>6, ServeShape
<1>7. ASSUME NEW fate \in Fates, mail(fate) PROVE ShapeInv'
    BY <1>7, MailShape
<1>8. CASE UNCHANGED vars
    BY <1>8 DEF vars, ShapeInv, MobileTypes, CallShape, Unmade
<1> QED
    BY <1>1, <1>2, <1>3, <1>4, <1>5, <1>6, <1>7, <1>8 DEF Next
-----------------------------------------------------------------------------
(***************************************************************************)
(* One connection at a time.                                               *)
(***************************************************************************)
\* LagIsTimeouts, of one connection, and whose turn it is on one.
LagOn(c) == Len(up[c]) + Cardinality(LineEnds(c)) = Cardinality(InFlight(c)) + gaveUp[c]
TurnOn(c) ==
    c \notin crossed => Resting(c) \/ \E n \in Calls : Asked(c, n) \/ Replied(c, n)

\* The same of every open connection.
StreamInv == platform = "android" => \A c \in open : LagOn(c)
TurnsInv == \A c \in open : TurnOn(c)

\* Nothing happens on connection c.
Undisturbed(c) ==
    /\ up'[c] = up[c] /\ down'[c] = down[c] /\ gaveUp'[c] = gaveUp[c]
    /\ InFlight(c)' = InFlight(c)
    /\ c \in crossed => c \in crossed'
    /\ accepted \subseteq accepted'
    /\ \A n \in InFlight(c) : call'[n].kind = call[n].kind

\* UndisturbedKeeps: what holds of a connection holds while nothing happens on it.
LEMMA UndisturbedKeeps ==
    ASSUME NEW c, Undisturbed(c)
    PROVE  (LagOn(c) => LagOn(c)') /\ (TurnOn(c) => TurnOn(c)')
<1>1. LineEnds(c)' = LineEnds(c)
    BY DEF Undisturbed, LineEnds
<1>2. LagOn(c) => LagOn(c)'
    BY <1>1, Zenon DEF Undisturbed, LagOn
<1>3. ASSUME TurnOn(c), c \notin crossed' PROVE TurnOn(c)'
  <2>1. c \notin crossed
      BY <1>3 DEF Undisturbed
  <2>2. CASE Resting(c)
      BY <2>2, Zenon DEF Undisturbed, Resting, TurnOn
  <2>3. ASSUME NEW n \in Calls, Asked(c, n) PROVE TurnOn(c)'
      BY <2>3, Zenon DEF Undisturbed, Asked, TurnOn
  <2>4. ASSUME NEW n \in Calls, Replied(c, n) PROVE TurnOn(c)'
    <3>1. PICK a \in Answers, split \in BOOLEAN :
            down[c] = Pieces(a, split) /\ Proper(n, a)
        BY <2>4 DEF Replied
    <3>2. n \in InFlight(c)
        BY <2>4 DEF Replied
    <3>3. Proper(n, a)'
        BY <3>1, <3>2 DEF Proper, Undisturbed
    <3>4. Replied(c, n)'
        BY <2>4, <3>1, <3>3, Zenon DEF Replied, Undisturbed
    <3> QED
        BY <3>4 DEF TurnOn
  <2> QED
      BY <1>3, <2>1, <2>2, <2>3, <2>4 DEF TurnOn
<1>4. c \in crossed' => TurnOn(c)'
    BY DEF TurnOn
<1> QED
    BY <1>2, <1>3, <1>4

\* NewConnection: nothing is owed on a connection just made.
LEMMA NewConnection ==
    ASSUME ShapeInv, NEW c \in Conns, c > conns, UNCHANGED <<up, down, gaveUp>>,
           InFlight(c)' = {}
    PROVE  LagOn(c)' /\ TurnOn(c)'
<1>1. up'[c] = <<>> /\ down'[c] = <<>> /\ gaveUp'[c] = 0
    BY DEF ShapeInv, Unmade
<1>2. LineEnds(c)' = {}
    BY <1>1 DEF LineEnds
<1>3. Cardinality({}) = 0
    BY FS_EmptySet
<1>4. Len(<<>>) = 0
    OBVIOUS
<1>5. Len(up'[c]) = 0 /\ Cardinality(LineEnds(c)') = 0 /\ Cardinality(InFlight(c)') = 0
    BY <1>1, <1>2, <1>3, <1>4, Zenon
<1>6. LagOn(c)'
    BY <1>1, <1>5 DEF LagOn
<1>7. Resting(c)'
    BY <1>1 DEF Resting
<1> QED
    BY <1>6, <1>7 DEF TurnOn

\* Counts: the sets that are counted are finite.
LEMMA Counts ==
    ASSUME ShapeInv, NEW c \in Conns
    PROVE  /\ IsFiniteSet(InFlight(c)) /\ IsFiniteSet(LineEnds(c))
           /\ Cardinality(InFlight(c)) \in Nat /\ Cardinality(LineEnds(c)) \in Nat
           /\ Len(up[c]) \in Nat /\ gaveUp[c] \in Nat
<1>1. IsFiniteSet(Calls) /\ InFlight(c) \subseteq Calls
    BY FS_Interval, MobileAssumption DEF Calls, InFlight
<1>2. IsFiniteSet(1..Len(down[c])) /\ LineEnds(c) \subseteq 1..Len(down[c])
    BY FS_Interval, LineEndsType DEF ShapeInv
<1>3. IsFiniteSet(InFlight(c)) /\ IsFiniteSet(LineEnds(c))
    BY <1>1, <1>2, FS_Subset
<1>4. Len(up[c]) \in Nat /\ gaveUp[c] \in Nat
    BY LenProperties DEF ShapeInv, MobileTypes
<1> QED
    BY <1>3, <1>4, FS_CardinalityType

\* FirstLineOff: taking the first line away takes one line end away.
LEMMA FirstLineOff ==
    ASSUME NEW s \in Seq(PieceSet), NEW k \in 1..Len(s), s[k].last,
           \A j \in 1..Len(s) : s[j].last => k =< j,
           NEW r, r = SubSeq(s, k + 1, Len(s))
    PROVE  Cardinality({i \in 1..Len(r) : r[i].last}) + 1
             = Cardinality({i \in 1..Len(s) : s[i].last})
<1>1. Len(s) \in Nat
    BY LenProperties
<1>2. Len(r) = Len(s) - k /\ \A i \in 1..Len(r) : r[i] = s[k + i]
    BY <1>1, CutTypes
<1>3. PICK A, B : /\ A = {i \in 1..Len(r) : r[i].last}
                  /\ B = {i \in 1..Len(s) : s[i].last}
    OBVIOUS
<1>4. IsFiniteSet(A) /\ IsFiniteSet(B) /\ k \in B
  <2>1. A \subseteq 1..Len(r) /\ B \subseteq 1..Len(s) /\ k \in B
      BY <1>3
  <2>2. 1 \in Int /\ Len(r) \in Int /\ Len(s) \in Int
      BY <1>1, <1>2
  <2>3. IsFiniteSet(1..Len(r)) /\ IsFiniteSet(1..Len(s))
      BY <2>2, FS_Interval
  <2> QED
      BY <2>1, <2>3, FS_Subset
<1>5. PICK f : f = [i \in A |-> k + i]
    OBVIOUS
<1>6. f \in Bijection(A, B \ {k})
  <2>1. \A i \in A : i \in Nat /\ f[i] = k + i /\ f[i] \in B \ {k}
      BY <1>1, <1>2, <1>3, <1>5
  <2>2. f \in [A -> B \ {k}]
      BY <1>5, <2>1
  <2>3. \A i, j \in A : f[i] = f[j] => i = j
      BY <2>1
  <2>4. \A j \in B \ {k} : \E i \in A : f[i] = j
    <3> TAKE j \in B \ {k}
    <3>1. j \in 1..Len(s) /\ s[j].last /\ k =< j /\ j # k
        BY <1>3
    <3>2. j - k \in 1..Len(r) /\ k + (j - k) = j
        BY <1>1, <1>2, <3>1
    <3>3. r[j - k].last
        BY <1>2, <3>1, <3>2
    <3>4. j - k \in A
        BY <1>3, <3>2, <3>3
    <3>5. f[j - k] = j
        BY <2>1, <3>2, <3>4
    <3> QED
        BY <3>4, <3>5
  <2> QED
      BY <2>2, <2>3, <2>4 DEF Bijection, Injection, Surjection, IsInjective
<1>7. Cardinality(A) = Cardinality(B \ {k})
    BY <1>4, <1>6, FS_Bijection DEF ExistsBijection
<1>8. Cardinality(B \ {k}) = Cardinality(B) - 1 /\ Cardinality(B) \in Nat
    BY <1>4, FS_RemoveElement, FS_CardinalityType
<1>9. Cardinality(A) + 1 = Cardinality(B)
    BY <1>7, <1>8
<1> QED
    BY <1>3, <1>9, Zenon

\* HeadOff: taking a first piece away that is not a last one takes no line end away.
LEMMA HeadOff ==
    ASSUME NEW s \in Seq(PieceSet), 1 \in 1..Len(s), ~s[1].last,
           NEW r, r = SubSeq(s, 2, Len(s))
    PROVE  Cardinality({i \in 1..Len(r) : r[i].last})
             = Cardinality({i \in 1..Len(s) : s[i].last})
<1>1. Len(s) \in Nat
    BY LenProperties
<1>2. Len(r) = Len(s) - 1 /\ \A i \in 1..Len(r) : r[i] = s[1 + i]
  <2>1. PICK k : k = 1
      OBVIOUS
  <2>2. k \in 0..Len(s) /\ k + 1 = 2
      BY <1>1, <2>1
  <2>3. r = SubSeq(s, k + 1, Len(s))
      BY <2>2
  <2>4. Len(r) = Len(s) - k /\ \A i \in 1..(Len(s) - k) : r[i] = s[k + i]
      BY <2>2, <2>3, CutTypes
  <2> QED
      BY <2>1, <2>4
<1>3. PICK A, B : /\ A = {i \in 1..Len(r) : r[i].last}
                  /\ B = {i \in 1..Len(s) : s[i].last}
    OBVIOUS
<1>4. IsFiniteSet(A) /\ IsFiniteSet(B)
  <2>1. A \subseteq 1..Len(r) /\ B \subseteq 1..Len(s)
      BY <1>3
  <2>2. IsFiniteSet(1..Len(r)) /\ IsFiniteSet(1..Len(s))
    <3>1. 1 \in Int /\ Len(r) \in Int /\ Len(s) \in Int
        BY <1>1, <1>2
    <3> QED
        BY <3>1, FS_Interval
  <2> QED
      BY <2>1, <2>2, FS_Subset
<1>5. PICK f : f = [i \in A |-> 1 + i]
    OBVIOUS
<1>6. f \in Bijection(A, B)
  <2>1. \A i \in A : i \in Nat /\ f[i] = 1 + i /\ f[i] \in B
      BY <1>1, <1>2, <1>3, <1>5
  <2>2. f \in [A -> B]
      BY <1>5, <2>1
  <2>3. \A i, j \in A : f[i] = f[j] => i = j
      BY <2>1
  <2>4. \A j \in B : \E i \in A : f[i] = j
    <3> TAKE j \in B
    <3>1. j \in 1..Len(s) /\ s[j].last /\ j # 1
        BY <1>3
    <3>2. j - 1 \in 1..Len(r) /\ 1 + (j - 1) = j
        BY <1>1, <1>2, <3>1
    <3>3. r[j - 1].last
        BY <1>2, <3>1, <3>2
    <3>4. j - 1 \in A
        BY <1>3, <3>2, <3>3
    <3>5. f[j - 1] = j
        BY <2>1, <3>2, <3>4
    <3> QED
        BY <3>4, <3>5
  <2> QED
      BY <2>2, <2>3, <2>4 DEF Bijection, Injection, Surjection, IsInjective
<1>7. Cardinality(A) = Cardinality(B)
    BY <1>4, <1>6, FS_Bijection DEF ExistsBijection
<1> QED
    BY <1>3, <1>7, Zenon

\* OnlyOn: a step on one connection is judged by that connection.
LEMMA OnlyOn ==
    ASSUME StreamInv, TurnsInv, UNCHANGED <<platform, open>>, NEW c,
           \A d \in open \ {c} : Undisturbed(d),
           c \in open => (platform = "android" => LagOn(c)') /\ TurnOn(c)'
    PROVE  StreamInv' /\ TurnsInv'
<1>1. \A d \in open \ {c} : (LagOn(d) => LagOn(d)') /\ (TurnOn(d) => TurnOn(d)')
    BY UndisturbedKeeps
<1>2. StreamInv'
    BY <1>1 DEF StreamInv
<1>3. TurnsInv'
    BY <1>1 DEF TurnsInv
<1> QED
    BY <1>2, <1>3

\* MovesElsewhere: a call that moves is felt on its own connection only.
LEMMA MovesElsewhere ==
    ASSUME NEW n \in Calls, NEW pc, NEW a, Moves(n, pc, a), NEW d,
           call[n].on = d => call[n].pc # "read" /\ pc # "read",
           up'[d] = up[d], down'[d] = down[d], gaveUp'[d] = gaveUp[d],
           d \in crossed => d \in crossed', accepted \subseteq accepted'
    PROVE  Undisturbed(d)
<1>1. InFlight(d)' = InFlight(d)
    BY MovesInFlight DEF InFlight
<1>2. \A m \in InFlight(d) : call'[m].kind = call[m].kind
    BY DEF InFlight, Moves
<1> QED
    BY <1>1, <1>2 DEF Undisturbed

\* SendStream: a line more is owed to one reader more; a second reader crosses the
\* connection.
LEMMA SendStream ==
    ASSUME ShapeInv, StreamInv, TurnsInv, NEW n \in Calls, sendJson(n) \/ flush(n)
    PROVE  StreamInv' /\ TurnsInv'
<1>0. PICK c : c = call[n].on
    OBVIOUS
<1>1. /\ call[n].pc # "read"
      /\ UNCHANGED <<platform, open, down, gaveUp, accepted>>
    BY SendDoes
<1>2. ASSUME NEW pc \in {"flush", "done"}, Moves(n, pc, call[n].got),
             UNCHANGED <<up, crossed>>
      PROVE  StreamInv' /\ TurnsInv'
  <2>1. \A d : Undisturbed(d)
      BY <1>1, <1>2, MovesElsewhere
  <2>2. \A d \in open : (LagOn(d) => LagOn(d)') /\ (TurnOn(d) => TurnOn(d)')
      BY <2>1, UndisturbedKeeps
  <2> QED
      BY <1>1, <2>2 DEF StreamInv, TurnsInv
<1>3. ASSUME c \in open, Written(n), Moves(n, "read", call[n].got)
      PROVE  StreamInv' /\ TurnsInv'
  <2>1. /\ up' = [up EXCEPT ![c] = Append(@, n)]
        /\ crossed' = IF InFlight(c) = {} THEN crossed ELSE crossed \cup {c}
      BY <1>0, <1>3 DEF Written
  <2>2. Moves(n, "read", call[n].got)
      BY <1>3
  <2>3. c \in Conns
      BY <1>3, OpenIsMade DEF ShapeInv
  <2>4. up'[c] = Append(up[c], n) /\ \A d \in Conns \ {c} : up'[d] = up[d]
      BY <2>1, <2>3 DEF ShapeInv, MobileTypes
  <2>5. \A d \in open \ {c} : Undisturbed(d)
    <3> TAKE d \in open \ {c}
    <3>1. d \in Conns
        BY OpenIsMade DEF ShapeInv
    <3>2. /\ call[n].on # d /\ up'[d] = up[d] /\ down'[d] = down[d]
          /\ gaveUp'[d] = gaveUp[d] /\ (d \in crossed => d \in crossed')
          /\ accepted \subseteq accepted'
        BY <1>0, <1>1, <2>1, <2>4, <3>1
    <3> QED
        BY <2>2, <3>2, MovesElsewhere
  <2>6. InFlight(c)' = InFlight(c) \cup {n} /\ n \notin InFlight(c)
      BY <1>0, <1>1, <2>2, MovesInFlight DEF InFlight
  <2>7. ASSUME platform = "android" PROVE LagOn(c)'
    <3>1. Len(up'[c]) = Len(up[c]) + 1
        BY <2>3, <2>4, AppendTypes DEF ShapeInv, MobileTypes
    <3>2. Cardinality(InFlight(c)') = Cardinality(InFlight(c)) + 1
        BY <2>3, <2>6, Counts, FS_AddElement
    <3>3. LineEnds(c)' = LineEnds(c) /\ gaveUp'[c] = gaveUp[c]
        BY <1>1 DEF LineEnds
    <3>4. Cardinality(LineEnds(c)') = Cardinality(LineEnds(c))
        BY <3>3
    <3>5. Len(up[c]) + Cardinality(LineEnds(c)) = Cardinality(InFlight(c)) + gaveUp[c]
        BY <1>3, <2>7 DEF StreamInv, LagOn
    <3>6. Len(up[c]) + 1 + Cardinality(LineEnds(c)) = Cardinality(InFlight(c)) + 1 + gaveUp[c]
        BY <2>3, <3>5, Counts
    <3> QED
        BY <3>1, <3>2, <3>3, <3>4, <3>6, Zenon DEF LagOn
  <2>8. TurnOn(c)'
    <3> SUFFICES ASSUME c \notin crossed' PROVE Asked(c, n)'
        BY DEF TurnOn
    <3>1. InFlight(c) = {} /\ c \notin crossed
        BY <2>1
    <3>2. Resting(c)
        BY <1>3, <3>1 DEF TurnsInv, TurnOn, Asked, Replied
    <3>3. Append(<<>>, n) = <<n>>
        OBVIOUS
    <3>4. up'[c] = <<n>>
        BY <2>4, <3>2, <3>3 DEF Resting
    <3> QED
        BY <1>1, <2>6, <3>1, <3>2, <3>4 DEF Asked, Resting
  <2> QED
      BY <1>1, <1>3, <2>5, <2>7, <2>8, OnlyOn
<1> QED
    BY <1>0, <1>2, <1>3, SendDoes

\* OneReader: a reader of an uncrossed connection is its only one; if there is
\* something to read, it is the answer to it, whole.
LEMMA OneReader ==
    ASSUME ShapeInv, TurnsInv, NEW n \in Calls, call[n].pc = "read",
           call[n].on \in open \ crossed
    PROVE  LET c == call[n].on
           IN /\ InFlight(c) = {n}
              /\ down[c] # <<>> =>
                   /\ up[c] = <<>>
                   /\ \E a \in Answers, split \in BOOLEAN :
                        down[c] = Pieces(a, split) /\ Proper(n, a)
<1> DEFINE c == call[n].on
<1>1. n \in InFlight(c)
    BY DEF InFlight
<1>2. TurnOn(c) /\ c \notin crossed
    BY DEF TurnsInv
<1>3. ~Resting(c)
    BY <1>1 DEF Resting
<1>4. PICK m \in Calls : Asked(c, m) \/ Replied(c, m)
    BY <1>2, <1>3 DEF TurnOn
<1>5. m = n /\ InFlight(c) = {n}
    BY <1>1, <1>4 DEF Asked, Replied
<1> QED
    BY <1>4, <1>5 DEF Asked, Replied

\* WholeAnswer: a read of an answer that ends with its last piece leaves nothing.
LEMMA WholeAnswer ==
    ASSUME NEW a \in Answers, NEW split \in BOOLEAN, NEW s, s = Pieces(a, split),
           NEW k \in 1..Len(s), s[k].last
    PROVE  SubSeq(s, k + 1, Len(s)) = <<>> /\ Answer(s[1]) = a
<1>1. /\ s \in Seq(PieceSet) /\ Len(s) \in {1, 2}
      /\ \A i \in 1..Len(s) : Answer(s[i]) = a /\ (s[i].last <=> i = Len(s))
    BY PiecesType
<1>2. k = Len(s) /\ k \in 0..Len(s) /\ 1 \in 1..Len(s)
    BY <1>1
<1>3. SubSeq(s, k + 1, Len(s)) \in Seq(PieceSet) /\ Len(SubSeq(s, k + 1, Len(s))) = Len(s) - k
    BY <1>1, <1>2, CutTypes
<1>4. Len(SubSeq(s, k + 1, Len(s))) = 0
    BY <1>1, <1>2, <1>3
<1>5. SubSeq(s, k + 1, Len(s)) = <<>>
    BY <1>3, <1>4, EmptySeq
<1> QED
    BY <1>1, <1>2, <1>5

\* ReadLineStream: the reader and the line it takes leave together.
LEMMA ReadLineStream ==
    ASSUME ShapeInv, StreamInv, TurnsInv, NEW n \in Calls, readLine(n)
    PROVE  StreamInv' /\ TurnsInv'
<1>1. PICK c, k : c = call[n].on /\ k = Min(LineEnds(c))
    OBVIOUS
<1>2. /\ c \in Conns /\ c \in open /\ call[n].pc = "read"
      /\ k \in LineEnds(c) /\ k \in 1..Len(down[c])
      /\ \A j \in LineEnds(c) : k =< j
      /\ \E pc, a : Moves(n, pc, a) /\ pc # "read"
      /\ down' \in [Conns -> Seq(PieceSet)]
      /\ down'[c] = SubSeq(down[c], k + 1, Len(down[c]))
      /\ \A d \in Conns \ {c} : down'[d] = down[d]
      /\ UNCHANGED <<platform, open, up, accepted, gaveUp, crossed>>
  <2>1. \E pc, a : Moves(n, pc, a) /\ pc # "read"
    <3>1. CASE Moves(n, "resume", Answer(down[c][1]))
        BY <3>1
    <3>2. CASE Moves(n, "done", call[n].got)
        BY <3>2
    <3> QED
        BY <1>1, <3>1, <3>2, ReadLineDoes
  <2> QED
      BY <1>1, <2>1, ReadLineDoes
<1>3. \A d \in open \ {c} : Undisturbed(d)
  <2> TAKE d \in open \ {c}
  <2>1. d \in Conns
      BY OpenIsMade DEF ShapeInv
  <2>2. /\ call[n].on # d /\ up'[d] = up[d] /\ down'[d] = down[d]
        /\ gaveUp'[d] = gaveUp[d] /\ (d \in crossed => d \in crossed')
        /\ accepted \subseteq accepted'
      BY <1>1, <1>2, <2>1
  <2> QED
      BY <1>2, <2>2, MovesElsewhere
<1>4. InFlight(c)' = InFlight(c) \ {n} /\ n \in InFlight(c)
  <2>1. PICK pc, a : Moves(n, pc, a) /\ pc # "read"
      BY <1>2
  <2>2. n \in InFlight(c)
      BY <1>1, <1>2 DEF InFlight
  <2> QED
      BY <2>1, <2>2, MovesInFlight
<1>5. down[c] \in Seq(PieceSet) /\ down'[c] \in Seq(PieceSet)
    BY <1>2 DEF ShapeInv, MobileTypes
<1>6. LineEnds(c) = {i \in 1..Len(down[c]) : down[c][i].last}
    BY <1>2, LineEndsType DEF ShapeInv
<1>7. LagOn(c)
  <2>1. platform = "android"
      BY ReadLineDoes
  <2> QED
      BY <1>2, <2>1 DEF StreamInv
<1>8. LagOn(c)'
  <2>1. LineEnds(c)' = {i \in 1..Len(down'[c]) : down'[c][i].last}
    <3>1. DOMAIN down'[c] = 1..Len(down'[c])
        BY <1>5, LenProperties
    <3> QED
        BY <3>1 DEF LineEnds
  <2>2. Cardinality(LineEnds(c)') + 1 = Cardinality(LineEnds(c))
    <3>1. down[c][k].last /\ \A j \in 1..Len(down[c]) : down[c][j].last => k =< j
        BY <1>2, <1>6
    <3>2. PICK s, r : s = down[c] /\ r = down'[c]
        OBVIOUS
    <3>3. /\ s \in Seq(PieceSet) /\ k \in 1..Len(s) /\ s[k].last
          /\ \A j \in 1..Len(s) : s[j].last => k =< j
          /\ r = SubSeq(s, k + 1, Len(s))
        BY <1>2, <1>5, <3>1, <3>2, Zenon
    <3>4. Cardinality({i \in 1..Len(r) : r[i].last}) + 1
            = Cardinality({i \in 1..Len(s) : s[i].last})
        BY <3>3, FirstLineOff
    <3> QED
        BY <1>6, <2>1, <3>2, <3>4, Zenon
  <2>3. Cardinality(InFlight(c)') = Cardinality(InFlight(c)) - 1
      BY <1>2, <1>4, Counts, FS_RemoveElement
  <2>4. IsFiniteSet(LineEnds(c)')
    <3>1. Len(down'[c]) \in Nat
        BY <1>5, LenProperties
    <3>2. IsFiniteSet(1..Len(down'[c])) /\ LineEnds(c)' \subseteq 1..Len(down'[c])
        BY <2>1, <3>1, FS_Interval
    <3> QED
        BY <3>2, FS_Subset
  <2>5. Cardinality(LineEnds(c)') \in Nat
      BY <2>4, FS_CardinalityType
  <2>6. \A l, e, x, f, y, g \in Int : l + e = f + g /\ x + 1 = e /\ y = f - 1
                                     => l + x = y + g
      OBVIOUS
  <2>7. Len(up[c]) + Cardinality(LineEnds(c)) = Cardinality(InFlight(c)) + gaveUp[c]
      BY <1>7 DEF LagOn
  <2>8. /\ Cardinality(InFlight(c)') \in Int /\ Cardinality(InFlight(c)) \in Int
        /\ Cardinality(LineEnds(c)) \in Int /\ Cardinality(LineEnds(c)') \in Int
        /\ Len(up[c]) \in Int /\ gaveUp[c] \in Int
      BY <1>2, <2>3, <2>5, Counts
  <2>9. Len(up[c]) + Cardinality(LineEnds(c)') = Cardinality(InFlight(c)') + gaveUp[c]
    <3>1. PICK l, e, x, f, y, g :
            /\ l = Len(up[c]) /\ e = Cardinality(LineEnds(c)) /\ g = gaveUp[c]
            /\ x = Cardinality(LineEnds(c)') /\ f = Cardinality(InFlight(c))
            /\ y = Cardinality(InFlight(c)')
        OBVIOUS
    <3>2. /\ l \in Int /\ e \in Int /\ x \in Int /\ f \in Int /\ y \in Int /\ g \in Int
          /\ l + e = f + g /\ x + 1 = e /\ y = f - 1
        BY <2>2, <2>3, <2>7, <2>8, <3>1, Zenon
    <3>3. l + x = y + g
        BY <2>6, <3>2
    <3> QED
        BY <3>1, <3>3, Zenon
  <2> QED
      BY <1>2, <2>9, Zenon DEF LagOn
<1>9. TurnOn(c)'
  <2> SUFFICES ASSUME c \notin crossed PROVE Resting(c)'
      BY <1>2 DEF TurnOn
  <2>1. down[c] # <<>>
    <3>1. Len(down[c]) # 0
        BY <1>2
    <3> QED
        BY <3>1
  <2>2. InFlight(c) = {n} /\ up[c] = <<>>
        /\ \E a \in Answers, split \in BOOLEAN : down[c] = Pieces(a, split)
      BY <1>1, <1>2, <2>1, OneReader
  <2>3. down'[c] = <<>>
      BY <1>2, <1>6, <2>2, WholeAnswer
  <2> QED
      BY <1>2, <1>4, <2>2, <2>3 DEF Resting
<1> QED
    BY <1>2, <1>3, <1>8, <1>9, OnlyOn

\* TimesOutStream: a read that gives up leaves its line behind, and is counted.
LEMMA TimesOutStream ==
    ASSUME ShapeInv, StreamInv, TurnsInv, NEW n \in Calls, readTimesOut(n)
    PROVE  StreamInv' /\ TurnsInv'
<1>1. PICK c : c = call[n].on
    OBVIOUS
<1>2. /\ c \in Conns /\ c \in open /\ call[n].pc = "read"
      /\ Moves(n, "done", call[n].got) /\ platform = "android"
      /\ \/ down[c] = <<>> /\ down'[c] = <<>>
         \/ /\ 1 \in 1..Len(down[c]) /\ ~down[c][1].last
            /\ down'[c] = SubSeq(down[c], 2, Len(down[c]))
      /\ down' \in [Conns -> Seq(PieceSet)]
      /\ \A d \in Conns \ {c} : down'[d] = down[d]
      /\ gaveUp'[c] = gaveUp[c] + 1
      /\ \A d \in Conns \ {c} : gaveUp'[d] = gaveUp[d]
      /\ crossed' = crossed \cup {c}
      /\ UNCHANGED <<platform, open, up, accepted>>
    BY <1>1, TimesOutDoes
<1>3. \A d \in open \ {c} : Undisturbed(d)
  <2> TAKE d \in open \ {c}
  <2>1. d \in Conns
      BY OpenIsMade DEF ShapeInv
  <2>2. /\ call[n].on # d /\ up'[d] = up[d] /\ down'[d] = down[d]
        /\ gaveUp'[d] = gaveUp[d] /\ (d \in crossed => d \in crossed')
        /\ accepted \subseteq accepted'
      BY <1>1, <1>2, <2>1
  <2> QED
      BY <1>2, <2>2, MovesElsewhere
<1>4. InFlight(c)' = InFlight(c) \ {n} /\ n \in InFlight(c)
  <2>1. PICK pc, a : pc = "done" /\ a = call[n].got /\ Moves(n, pc, a)
      BY <1>2
  <2>2. InFlight(c)' = InFlight(c) \ {n}
      BY <2>1, MovesInFlight
  <2> QED
      BY <1>1, <1>2, <2>2 DEF InFlight
<1>5. Cardinality(LineEnds(c)') = Cardinality(LineEnds(c))
  <2>1. PICK s, r : s = down[c] /\ r = down'[c]
      OBVIOUS
  <2>2. s \in Seq(PieceSet) /\ r \in Seq(PieceSet)
      BY <1>2, <2>1 DEF ShapeInv, MobileTypes
  <2>3. /\ LineEnds(c) = {k \in 1..Len(s) : s[k].last}
        /\ LineEnds(c)' = {k \in 1..Len(r) : r[k].last}
    <3>1. DOMAIN s = 1..Len(s) /\ DOMAIN r = 1..Len(r)
        BY <2>2, LenProperties
    <3> QED
        BY <2>1, <3>1 DEF LineEnds
  <2>4. CASE s = r
      BY <2>3, <2>4, Zenon
  <2>5. CASE 1 \in 1..Len(s) /\ ~s[1].last /\ r = SubSeq(s, 2, Len(s))
    <3>1. Cardinality({k \in 1..Len(r) : r[k].last})
            = Cardinality({k \in 1..Len(s) : s[k].last})
        BY <2>2, <2>5, HeadOff
    <3> QED
        BY <2>3, <3>1, Zenon
  <2> QED
      BY <1>2, <2>1, <2>4, <2>5
<1>6. LagOn(c)'
  <2>1. Cardinality(InFlight(c)') = Cardinality(InFlight(c)) - 1
      BY <1>2, <1>4, Counts, FS_RemoveElement
  <2>2. Len(up[c]) + Cardinality(LineEnds(c)) = Cardinality(InFlight(c)) + gaveUp[c]
      BY <1>2 DEF StreamInv, LagOn
  <2>3. Len(up[c]) + Cardinality(LineEnds(c)) = Cardinality(InFlight(c)') + gaveUp'[c]
    <3>1. PICK x, y, z : x = Cardinality(InFlight(c)) /\ y = Cardinality(InFlight(c)')
                         /\ z = Len(up[c]) + Cardinality(LineEnds(c))
        OBVIOUS
    <3>2. x \in Nat /\ gaveUp[c] \in Nat
        BY <1>2, <3>1, Counts
    <3>3. y = x - 1 /\ z = x + gaveUp[c]
        BY <2>1, <2>2, <3>1
    <3>4. z = y + (gaveUp[c] + 1)
        BY <3>2, <3>3
    <3> QED
        BY <1>2, <3>1, <3>4
  <2> QED
      BY <1>2, <1>5, <2>3, Zenon DEF LagOn
<1>7. TurnOn(c)'
    BY <1>2 DEF TurnOn
<1> QED
    BY <1>2, <1>3, <1>6, <1>7, OnlyOn

\* LastOfOne: an answer that is read whole ends with a last piece.
LEMMA LastOfOne ==
    ASSUME NEW s \in Seq(PieceSet), NEW k \in 1..Len(s), OneAnswer(SubSeq(s, 1, k))
    PROVE  s[k].last
<1>1. Len(s) \in Nat
    BY LenProperties
<1>2. Len(SubSeq(s, 1, k)) = k /\ SubSeq(s, 1, k)[k] = s[k]
    BY <1>1, SubSeqProperties
<1> QED
    BY <1>2 DEF OneAnswer

\* ReceiveStream: a read of one whole answer leaves an iOS connection at rest; any
\* other read crosses it.
LEMMA ReceiveStream ==
    ASSUME ShapeInv, StreamInv, TurnsInv, NEW n \in Calls, receiveBytes(n)
    PROVE  StreamInv' /\ TurnsInv'
<1>1. PICK c : c = call[n].on
    OBVIOUS
<1>2. /\ c \in Conns /\ c \in open /\ call[n].pc = "read" /\ platform = "ios"
      /\ \A d \in Conns \ {c} : down'[d] = down[d]
      /\ crossed \subseteq crossed' /\ crossed' \subseteq crossed \cup {c}
      /\ UNCHANGED <<platform, open, up, accepted, gaveUp>>
    BY <1>1, ReceiveBytesDoes
<1>3. PICK k \in 1..Len(down[c]) :
        /\ down'[c] = SubSeq(down[c], k + 1, Len(down[c]))
        /\ \/ /\ OneAnswer(SubSeq(down[c], 1, k))
              /\ Moves(n, "resume", Answer(down[c][1]))
           \/ Moves(n, "done", call[n].got) /\ crossed' = crossed \cup {c}
    BY <1>1, ReceiveBytesDoes
<1>4. PICK pc, a : Moves(n, pc, a) /\ pc # "read"
    BY <1>3
<1>5. \A d \in open \ {c} : Undisturbed(d)
  <2> TAKE d \in open \ {c}
  <2>1. d \in Conns
      BY OpenIsMade DEF ShapeInv
  <2>2. /\ call[n].on # d /\ up'[d] = up[d] /\ down'[d] = down[d]
        /\ gaveUp'[d] = gaveUp[d] /\ (d \in crossed => d \in crossed')
        /\ accepted \subseteq accepted'
      BY <1>1, <1>2, <2>1
  <2> QED
      BY <1>4, <2>2, MovesElsewhere
<1>6. InFlight(c)' = InFlight(c) \ {n}
    BY <1>1, <1>4, MovesInFlight
<1>7. TurnOn(c)'
  <2> SUFFICES ASSUME c \notin crossed' PROVE Resting(c)'
      BY DEF TurnOn
  <2>1. c \notin crossed /\ OneAnswer(SubSeq(down[c], 1, k))
      BY <1>2, <1>3
  <2>2. down[c] \in Seq(PieceSet)
      BY <1>2 DEF ShapeInv, MobileTypes
  <2>3. down[c][k].last
      BY <1>3, <2>1, <2>2, LastOfOne
  <2>4. Len(down[c]) # 0
      BY <1>3
  <2>5. down[c] # <<>>
      BY <2>4
  <2>6. InFlight(c) = {n} /\ up[c] = <<>>
        /\ \E b \in Answers, split \in BOOLEAN : down[c] = Pieces(b, split)
      BY <1>1, <1>2, <2>1, <2>5, OneReader
  <2>7. down'[c] = <<>>
      BY <1>3, <2>3, <2>6, WholeAnswer
  <2> QED
      BY <1>2, <1>6, <2>6, <2>7 DEF Resting
<1> QED
    BY <1>2, <1>5, <1>7, OnlyOn

\* OneLineMore: an answer adds one line end, after the others.
LEMMA OneLineMore ==
    ASSUME NEW s \in Seq(PieceSet), NEW p \in Seq(PieceSet),
           Len(p) \in {1, 2}, \A i \in 1..Len(p) : p[i].last <=> i = Len(p),
           NEW r, r = s \o p
    PROVE  /\ \A i \in 1..Len(r) : r[i].last <=> (i \in 1..Len(s) /\ s[i].last) \/ i = Len(r)
           /\ Len(r) \in 1..Len(r) /\ Len(r) \notin 1..Len(s)
           /\ \A i \in 1..Len(s) : i \in 1..Len(r)
<1>1. r \in Seq(PieceSet)
    BY ConcatProperties
<1>2. \A i \in 1..Len(p) : p[i].last <=> i = Len(p)
    OBVIOUS
<1>3. Len(s) \in Nat
    BY LenProperties
<1>4. /\ Len(r) = Len(s) + Len(p)
      /\ \A i \in 1..Len(r) : r[i] = IF i =< Len(s) THEN s[i] ELSE p[i - Len(s)]
    BY ConcatProperties
<1>5. \A i \in 1..Len(r) : r[i].last <=> (i \in 1..Len(s) /\ s[i].last) \/ i = Len(r)
  <2> TAKE i \in 1..Len(r)
  <2>1. CASE i =< Len(s)
    <3>1. \A u, v, w, j \in Int : w = u + v /\ v >= 1 /\ j >= 1 /\ j =< u
                                  => j \in 1..u /\ j # w
        OBVIOUS
    <3>2. PICK u, v, w : u = Len(s) /\ v = Len(p) /\ w = Len(r)
        OBVIOUS
    <3>3. /\ u \in Int /\ v \in Int /\ w \in Int /\ w = u + v /\ v >= 1
          /\ i \in Int /\ i >= 1 /\ i =< u
        BY <1>3, <1>4, <2>1, <3>2
    <3>4. i \in 1..u /\ i # w
        BY <3>1, <3>3
    <3>5. r[i] = s[i]
        BY <1>4, <2>1
    <3> QED
        BY <3>2, <3>4, <3>5, Zenon
  <2>2. CASE ~(i =< Len(s))
    <3>1. /\ i \notin 1..Len(s) /\ r[i] = p[i - Len(s)] /\ i - Len(s) \in 1..Len(p)
          /\ i - Len(s) = Len(p) <=> i = Len(r)
        BY <1>3, <1>4, <2>2
    <3> QED
        BY <1>2, <3>1
  <2> QED
      BY <2>1, <2>2
<1>6. Len(r) \in 1..Len(r) /\ Len(r) \notin 1..Len(s) /\ \A i \in 1..Len(s) : i \in 1..Len(r)
  <2>1. \A u \in Nat, v \in {1, 2} :
          u + v \in 1..(u + v) /\ u + v \notin 1..u /\ \A i \in 1..u : i \in 1..(u + v)
      OBVIOUS
  <2>2. PICK u, v, w : u = Len(s) /\ v = Len(p) /\ w = Len(r)
      OBVIOUS
  <2>3. w = u + v /\ u \in Nat /\ v \in {1, 2}
      BY <1>3, <1>4, <2>2
  <2>4. w \in 1..w /\ w \notin 1..u /\ \A i \in 1..u : i \in 1..w
      BY <2>1, <2>3
  <2> QED
      BY <2>2, <2>4, Zenon
<1> QED
    BY <1>5, <1>6, Zenon

\* ServeStream: a line of the request becomes a line of the answer.
LEMMA ServeStream ==
    ASSUME ShapeInv, StreamInv, TurnsInv, NEW c \in Conns, serve(c)
    PROVE  StreamInv' /\ TurnsInv'
<1>1. PICK n : n = Head(up[c])
    OBVIOUS
<1>2. /\ c \in open /\ up[c] # <<>> /\ n \in Calls /\ up'[c] = Tail(up[c])
      /\ down' \in [Conns -> Seq(PieceSet)]
      /\ \A d \in Conns \ {c} : up'[d] = up[d] /\ down'[d] = down[d]
      /\ accepted \subseteq accepted'
      /\ UNCHANGED <<platform, open, call, gaveUp, crossed>>
    BY <1>1, ServeDoes
<1>3. PICK a \in Answers, split \in BOOLEAN :
        /\ down'[c] = down[c] \o Pieces(a, split)
        /\ a.to = n
        /\ call[n].kind = "send" /\ a.ok => n \in accepted'
        /\ call[n].kind # "receive" => a.mail = <<>>
    BY <1>1, ServeDoes
<1>4. InFlight(c)' = InFlight(c)
    BY <1>2 DEF InFlight
<1>5. \A d \in open \ {c} : Undisturbed(d)
  <2> TAKE d \in open \ {c}
  <2>1. d \in Conns
      BY OpenIsMade DEF ShapeInv
  <2> QED
      BY <1>2, <2>1 DEF Undisturbed, InFlight
<1>6. up[c] \in Seq(Calls) /\ down[c] \in Seq(PieceSet) /\ down'[c] \in Seq(PieceSet)
    BY <1>2 DEF ShapeInv, MobileTypes
<1>7. ASSUME platform = "android" PROVE LagOn(c)'
  <2>1. Len(up'[c]) = Len(up[c]) - 1
      BY <1>2, <1>6, HeadTailProperties
  <2>2. LineEnds(c) = {i \in 1..Len(down[c]) : down[c][i].last}
      BY LineEndsType DEF ShapeInv
  <2>3. LineEnds(c)' = {i \in 1..Len(down'[c]) : down'[c][i].last}
    <3>1. DOMAIN down'[c] = 1..Len(down'[c])
        BY <1>6, LenProperties
    <3> QED
        BY <3>1 DEF LineEnds
  <2>4. \E x : LineEnds(c)' = LineEnds(c) \cup {x} /\ x \notin LineEnds(c)
    <3>1. PICK s, r : s = down[c] /\ r = down'[c]
        OBVIOUS
    <3>2. PICK p : p = Pieces(a, split)
        OBVIOUS
    <3>6. /\ s \in Seq(PieceSet) /\ r = s \o p /\ p \in Seq(PieceSet)
          /\ Len(p) \in {1, 2} /\ \A i \in 1..Len(p) : p[i].last <=> i = Len(p)
      <4>1. s \in Seq(PieceSet) /\ r = s \o p
          BY <1>3, <1>6, <3>1, <3>2, Zenon
      <4> QED
          BY <3>2, <4>1, PiecesType
    <3>3. /\ \A i \in 1..Len(r) : r[i].last <=> (i \in 1..Len(s) /\ s[i].last) \/ i = Len(r)
          /\ Len(r) \in 1..Len(r) /\ Len(r) \notin 1..Len(s)
          /\ \A i \in 1..Len(s) : i \in 1..Len(r)
        BY <3>6, OneLineMore
    <3>4. PICK l, d : l = Len(r) /\ d = Len(s)
        OBVIOUS
    <3>5. /\ \A i \in 1..l : r[i].last <=> (i \in 1..d /\ s[i].last) \/ i = l
          /\ l \in 1..l /\ l \notin 1..d /\ \A i \in 1..d : i \in 1..l
        BY <3>3, <3>4, Zenon
    <3>7. \A i : i \in {j \in 1..l : r[j].last} <=> i \in {j \in 1..d : s[j].last} \cup {l}
        BY <3>5, Zenon
    <3>8. LineEnds(c) = {j \in 1..d : s[j].last} /\ LineEnds(c)' = {j \in 1..l : r[j].last}
        BY <2>2, <2>3, <3>1, <3>4, Zenon
    <3>9. l \notin {j \in 1..d : s[j].last}
        BY <3>5, Zenon
    <3> QED
        BY <3>7, <3>8, <3>9, Zenon
  <2>5. Cardinality(LineEnds(c)') = Cardinality(LineEnds(c)) + 1
      BY <2>4, Counts, FS_AddElement
  <2>6. \A l, e, x, f, y, g \in Int : l + e = f + g /\ x = e + 1 /\ y = l - 1
                                     => y + x = f + g
      OBVIOUS
  <2>7. Len(up[c]) + Cardinality(LineEnds(c)) = Cardinality(InFlight(c)) + gaveUp[c]
      BY <1>2, <1>7 DEF StreamInv, LagOn
  <2>8. /\ Cardinality(InFlight(c)) \in Int
        /\ Cardinality(LineEnds(c)) \in Int /\ Cardinality(LineEnds(c)') \in Int
        /\ Len(up[c]) \in Int /\ Len(up'[c]) \in Int /\ gaveUp[c] \in Int
      BY <2>1, <2>5, Counts
  <2>9. Len(up'[c]) + Cardinality(LineEnds(c)') = Cardinality(InFlight(c)) + gaveUp[c]
    <3>1. PICK l, e, x, f, y, g :
            /\ l = Len(up[c]) /\ e = Cardinality(LineEnds(c)) /\ g = gaveUp[c]
            /\ x = Cardinality(LineEnds(c)') /\ f = Cardinality(InFlight(c))
            /\ y = Len(up'[c])
        OBVIOUS
    <3>2. /\ l \in Int /\ e \in Int /\ x \in Int /\ f \in Int /\ y \in Int /\ g \in Int
          /\ l + e = f + g /\ x = e + 1 /\ y = l - 1
        BY <2>1, <2>5, <2>7, <2>8, <3>1, Zenon
    <3>3. y + x = f + g
        BY <2>6, <3>2
    <3> QED
        BY <3>1, <3>3, Zenon
  <2> QED
      BY <1>2, <1>4, <2>9, Zenon DEF LagOn
<1>8. TurnOn(c)'
  <2> SUFFICES ASSUME c \notin crossed PROVE TurnOn(c)'
      BY <1>2 DEF TurnOn
  <2>1. PICK m \in Calls : Asked(c, m)
      BY <1>2 DEF TurnsInv, TurnOn, Resting, Replied
  <2>2. up[c] = <<m>> /\ down[c] = <<>> /\ InFlight(c) = {m}
      BY <2>1 DEF Asked
  <2>3. Head(<<m>>) = m /\ Tail(<<m>>) = <<>>
      OBVIOUS
  <2>4. n = m /\ up'[c] = <<>>
      BY <1>1, <1>2, <2>2, <2>3
  <2>5. <<>> \o Pieces(a, split) = Pieces(a, split)
      BY PiecesType, ConcatEmptySeq
  <2>6. down'[c] = Pieces(a, split)
      BY <1>3, <2>2, <2>5
  <2>7. Proper(n, a)'
      BY <1>2, <1>3 DEF Proper
  <2>8. Replied(c, n)'
      BY <1>4, <2>2, <2>4, <2>6, <2>7 DEF Replied
  <2> QED
      BY <1>2, <2>8 DEF TurnOn
<1> QED
    BY <1>2, <1>5, <1>7, <1>8, OnlyOn

\* QuietStream: a step without reads and writes, which may make connections.
LEMMA QuietStream ==
    ASSUME ShapeInv, StreamInv, TurnsInv,
           UNCHANGED <<platform, up, down, gaveUp, crossed, accepted>>,
           \A c \in open' : c \in open \/ (c > conns /\ c \in Conns),
           \A c \in open : c \in open' => /\ InFlight(c)' = InFlight(c)
                                          /\ \A n \in InFlight(c) : call'[n].kind = call[n].kind,
           \A c \in Conns : c > conns => InFlight(c)' = {}
    PROVE  StreamInv' /\ TurnsInv'
<1>1. \A c \in open : c \in open' => Undisturbed(c)
    BY DEF Undisturbed
<1>2. \A c \in open' : /\ platform = "android" => LagOn(c)'
                       /\ TurnOn(c)'
  <2> TAKE c \in open'
  <2>1. CASE c \in open
      BY <1>1, <2>1, UndisturbedKeeps DEF StreamInv, TurnsInv
  <2>2. CASE c > conns /\ c \in Conns
      BY <2>2, NewConnection
  <2> QED
      BY <2>1, <2>2
<1> QED
    BY <1>2 DEF StreamInv, TurnsInv

\* ConnectStream and the others: nothing is read or written.
LEMMA ConnectStream ==
    ASSUME ShapeInv, StreamInv, TurnsInv, connect
    PROVE  StreamInv' /\ TurnsInv'
<1>1. /\ conns \in Int /\ conns < MaxConns /\ MaxConns \in Int /\ conns >= 0
      /\ open' \subseteq open \cup {conns + 1}
      /\ UNCHANGED <<platform, up, down, gaveUp, crossed, accepted, call>>
    BY ConstantTypes DEF connect, ShapeInv, MobileTypes
<1>2. conns + 1 > conns /\ conns + 1 \in Conns
    BY <1>1 DEF Conns
<1>3. \A c : InFlight(c)' = InFlight(c)
    BY <1>1 DEF InFlight
<1>4. \A c \in Conns : c > conns => InFlight(c) = {}
    BY <1>1 DEF InFlight, ShapeInv, CallShape, Conns
<1>5. \A c \in open' : c \in open \/ (c > conns /\ c \in Conns)
    BY <1>1, <1>2
<1>6. \A c \in open : c \in open' => /\ InFlight(c)' = InFlight(c)
                                     /\ \A n \in InFlight(c) : call'[n].kind = call[n].kind
    BY <1>1, <1>3, Zenon
<1>7. \A c \in Conns : c > conns => InFlight(c)' = {}
    BY <1>3, <1>4, Zenon
<1> QED
    BY <1>1, <1>5, <1>6, <1>7, QuietStream

\* StillStream: a step that keeps each connection's readers disturbs nothing.
LEMMA StillStream ==
    ASSUME ShapeInv, StreamInv, TurnsInv, open' \subseteq open,
           UNCHANGED <<platform, up, down, gaveUp, crossed, accepted>>,
           \A c \in open' : /\ InFlight(c)' = InFlight(c)
                            /\ \A n \in InFlight(c) : call'[n].kind = call[n].kind
    PROVE  StreamInv' /\ TurnsInv'
<1>1. \A c \in open' : Undisturbed(c)
    BY DEF Undisturbed
<1>2. \A c \in open' : /\ platform = "android" => LagOn(c)'
                       /\ TurnOn(c)'
  <2> TAKE c \in open'
  <2> QED
      BY <1>1, UndisturbedKeeps DEF StreamInv, TurnsInv
<1> QED
    BY <1>2 DEF StreamInv, TurnsInv

\* CloseStream: nothing is claimed of a closed connection.
LEMMA CloseStream ==
    ASSUME ShapeInv, StreamInv, TurnsInv, disconnect \/ \E c \in Conns : close(c)
    PROVE  StreamInv' /\ TurnsInv'
<1>1. /\ open' \subseteq open
      /\ UNCHANGED <<platform, up, down, gaveUp, crossed, accepted, call>>
    BY DEF disconnect, close
<1>2. \A c \in open' : /\ InFlight(c)' = InFlight(c)
                       /\ \A n \in InFlight(c) : call'[n].kind = call[n].kind
    BY <1>1 DEF InFlight
<1> QED
    BY <1>1, <1>2, StillStream

\* BeginStream: a call that has not written is not owed a line.
LEMMA BeginStream ==
    ASSUME ShapeInv, StreamInv, TurnsInv, NEW kind \in Kinds, begin(kind)
    PROVE  StreamInv' /\ TurnsInv'
<1>1. PICK k : k = calls + 1
    OBVIOUS
<1>2. /\ k \in Calls /\ call[k] = NoCall /\ call'[k].pc = "write"
      /\ \A m \in Calls : m # k => call'[m] = call[m]
    BY <1>1, BeginDoes
<1>3. open' = open /\ UNCHANGED <<platform, up, down, gaveUp, crossed, accepted>>
    BY DEF begin, links
<1>4. NoCall.pc = "none"
    BY DEF NoCall
<1>5. \A c \in open' : /\ InFlight(c)' = InFlight(c)
                       /\ \A n \in InFlight(c) : call'[n].kind = call[n].kind
    BY <1>2, <1>4 DEF InFlight
<1> QED
    BY <1>3, <1>5, StillStream

\* LeaveStream: a call that goes on or fails was not owed a line of an open
\* connection.
LEMMA LeaveStream ==
    ASSUME ShapeInv, StreamInv, TurnsInv, NEW n \in Calls,
           leaveScreen(n) \/ resume(n) \/ readFails(n)
    PROVE  StreamInv' /\ TurnsInv'
<1>1. open' = open /\ UNCHANGED <<platform, up, down, gaveUp, crossed, accepted>>
    BY DEF leaveScreen, resume, readFails, links
<1>2. CASE Cancels(n)
  <2>1. \A c \in open' : /\ InFlight(c)' = InFlight(c)
                         /\ \A m \in InFlight(c) : call'[m].kind = call[m].kind
      BY <1>2 DEF InFlight, Cancels
  <2> QED
      BY <1>1, <2>1, StillStream
<1>3. CASE Moves(n, "done", call[n].got) /\ (call[n].pc # "read" \/ call[n].on \notin open)
  <2>1. \A c \in open' : /\ InFlight(c)' = InFlight(c)
                         /\ \A m \in InFlight(c) : call'[m].kind = call[m].kind
      BY <1>1, <1>3 DEF InFlight, Moves
  <2> QED
      BY <1>1, <2>1, StillStream
<1>4. CASE readFails(n)
  <2>1. Moves(n, "done", call[n].got)
      BY <1>4, FailsMoves DEF readFails, ShapeInv
  <2> QED
      BY <1>3, <1>4, <2>1 DEF readFails
<1>5. CASE resume(n)
    BY <1>3, <1>5, ResumeShape
<1>6. CASE leaveScreen(n)
    BY <1>2, <1>3, <1>6, LeaveScreenDoes
<1> QED
    BY <1>4, <1>5, <1>6

\* StreamStep: every step keeps what is claimed of the connections.
LEMMA StreamStep ==
    ASSUME ShapeInv, StreamInv, TurnsInv, [Next]_vars
    PROVE  StreamInv' /\ TurnsInv'
<1>1. CASE connect
    BY <1>1, ConnectStream
<1>2. CASE disconnect \/ \E c \in Conns : close(c)
    BY <1>2, CloseStream
<1>3. CASE \E kind \in Kinds : begin(kind)
    BY <1>3, BeginStream
<1>4. CASE \E n \in Calls : sendJson(n) \/ flush(n)
    BY <1>4, SendStream
<1>5. CASE \E n \in Calls : readLine(n)
    BY <1>5, ReadLineStream
<1>6. CASE \E n \in Calls : readTimesOut(n)
    BY <1>6, TimesOutStream
<1>7. CASE \E n \in Calls : receiveBytes(n)
    BY <1>7, ReceiveStream
<1>8. CASE \E n \in Calls : leaveScreen(n) \/ resume(n) \/ readFails(n)
    BY <1>8, LeaveStream
<1>9. CASE \E c \in Conns : serve(c)
    BY <1>9, ServeStream
<1>10. CASE UNCHANGED vars \/ \E fate \in Fates : mail(fate)
  <2>1. UNCHANGED <<platform, open, up, down, gaveUp, crossed, accepted, call>>
      BY <1>10 DEF vars, mail, links
  <2>2. \A c \in open' : /\ InFlight(c)' = InFlight(c)
                         /\ \A n \in InFlight(c) : call'[n].kind = call[n].kind
      BY <2>1 DEF InFlight
  <2> QED
      BY <2>1, <2>2, StillStream
<1> QED
    BY <1>1, <1>2, <1>3, <1>4, <1>5, <1>6, <1>7, <1>8, <1>9, <1>10 DEF Next, Client

\* AnswersKept: calls keep their answer, and the relay keeps what it accepted.
LEMMA AnswersKept ==
    ASSUME OwnAnswers, crossed \subseteq crossed', accepted \subseteq accepted',
           \A n \in Calls :
               \/ call'[n].got = NoAnswer
               \/ /\ call'[n].got = call[n].got /\ call'[n].on = call[n].on
                  /\ call'[n].kind = call[n].kind
               \/ call'[n].on \notin crossed' => Proper(n, call[n].got)'
    PROVE  OwnAnswers'
<1> SUFFICES ASSUME NEW n \in Calls, call'[n].got # NoAnswer, call'[n].on \notin crossed'
             PROVE  Proper(n, call[n].got)'
    BY DEF OwnAnswers
<1>1. CASE /\ call'[n].got = call[n].got /\ call'[n].on = call[n].on
           /\ call'[n].kind = call[n].kind
  <2>1. Proper(n, call[n].got)
      BY <1>1 DEF OwnAnswers
  <2> QED
      BY <1>1, <2>1 DEF Proper
<1> QED
    BY <1>1

\* MovesAnswers: a call that only moves along keeps its answer.
LEMMA MovesAnswers ==
    ASSUME OwnAnswers, crossed \subseteq crossed', accepted \subseteq accepted',
           NEW n \in Calls, NEW pc, Moves(n, pc, call[n].got) \/ Cancels(n)
    PROVE  OwnAnswers'
<1>1. \A m \in Calls : /\ call'[m].got = call[m].got /\ call'[m].on = call[m].on
                       /\ call'[m].kind = call[m].kind
    BY DEF Moves, Cancels
<1> QED
    BY <1>1, AnswersKept

\* ReadsProper: what a call reads on a connection that was not crossed is its own
\* answer, read whole.
LEMMA ReadsProper ==
    ASSUME ShapeInv, TurnsInv, NEW n \in Calls, call[n].pc = "read",
           call[n].on \in open \ crossed, NEW s, s = down[call[n].on],
           NEW k \in 1..Len(s), s[k].last
    PROVE  /\ Proper(n, Answer(s[1])) /\ s[1].first
           /\ SubSeq(s, k + 1, Len(s)) = <<>>
           /\ \A i \in 1..Len(s) : s[i].mail = Answer(s[1]).mail
<1>1. PICK c : c = call[n].on
    OBVIOUS
<1>2. down[c] \in Seq(PieceSet)
    BY <1>1, OpenIsMade DEF ShapeInv, MobileTypes
<1>3. down[c] # <<>>
    BY <1>1, <1>2, EmptySeq
<1>4. PICK a \in Answers, split \in BOOLEAN : down[c] = Pieces(a, split) /\ Proper(n, a)
    BY <1>1, <1>3, OneReader
<1>5. s = Pieces(a, split)
    BY <1>1, <1>4
<1>6. SubSeq(s, k + 1, Len(s)) = <<>> /\ Answer(s[1]) = a
    BY <1>5, WholeAnswer
<1>7. /\ \A i \in 1..Len(s) : s[i].mail = a.mail
      /\ \A i \in 1..Len(s) : s[i].first <=> i = 1
    BY <1>5, PiecesType
<1>8. 1 \in 1..Len(s)
    OBVIOUS
<1>9. s[1].first
    BY <1>7, <1>8
<1> QED
    BY <1>4, <1>6, <1>7, <1>9, Zenon

\* ReadAnswers: what is read on a connection in turn is the reader's own answer.
LEMMA ReadAnswers ==
    ASSUME ShapeInv, TurnsInv, OwnAnswers, NEW n \in Calls,
           readLine(n) \/ receiveBytes(n)
    PROVE  OwnAnswers'
<1>1. PICK c : c = call[n].on
    OBVIOUS
<1>2. /\ crossed \subseteq crossed' /\ accepted' = accepted /\ c \in open
      /\ call[n].pc = "read" /\ down[c] \in Seq(PieceSet)
    BY <1>1, ReadLineDoes, ReceiveBytesDoes DEF readLine, receiveBytes, ShapeInv, MobileTypes
<1>3. CASE \E pc : Moves(n, pc, call[n].got)
    BY <1>2, <1>3, MovesAnswers
<1>4. CASE /\ \E pc : Moves(n, pc, Answer(down[c][1]))
           /\ \E k \in 1..Len(down[c]) : down[c][k].last
  <2>1. PICK s : s = down[c]
      OBVIOUS
  <2>2. PICK k \in 1..Len(s) : s[k].last
      BY <1>4, <2>1, Zenon
  <2>3. ASSUME c \notin crossed PROVE Proper(n, Answer(s[1]))
      BY <1>1, <1>2, <2>1, <2>2, <2>3, ReadsProper
  <2>4. PICK pc : Moves(n, pc, Answer(s[1]))
      BY <1>4, <2>1
  <2>5. call'[n].on \notin crossed' => Proper(n, call[n].got)'
      BY <1>1, <1>2, <2>3, <2>4 DEF Proper, Moves
  <2>6. \A m \in Calls \ {n} : call'[m] = call[m]
      BY <2>4 DEF Moves
  <2>7. \A m \in Calls :
           \/ call'[m].got = NoAnswer
           \/ /\ call'[m].got = call[m].got /\ call'[m].on = call[m].on
              /\ call'[m].kind = call[m].kind
           \/ call'[m].on \notin crossed' => Proper(m, call[m].got)'
    <3> TAKE m \in Calls
    <3>1. CASE m = n
        BY <2>5, <3>1
    <3>2. CASE m # n
        BY <2>6, <3>2
    <3> QED
        BY <3>1, <3>2
  <2> QED
      BY <1>2, <2>7, AnswersKept
<1>5. CASE readLine(n)
  <2>1. PICK k : k = Min(LineEnds(c))
      OBVIOUS
  <2>2. /\ k \in LineEnds(c) /\ k \in 1..Len(down[c])
        /\ Moves(n, "resume", Answer(down[c][1])) \/ Moves(n, "done", call[n].got)
      BY <1>1, <1>5, <2>1, ReadLineDoes
  <2> QED
      BY <1>3, <1>4, <2>2 DEF LineEnds
<1>6. CASE receiveBytes(n)
  <2>1. PICK k \in 1..Len(down[c]) :
          \/ /\ OneAnswer(SubSeq(down[c], 1, k))
             /\ Moves(n, "resume", Answer(down[c][1]))
          \/ Moves(n, "done", call[n].got)
      BY <1>1, <1>6, ReceiveBytesDoes
  <2>2. CASE Moves(n, "done", call[n].got)
      BY <1>3, <2>2
  <2>3. CASE /\ OneAnswer(SubSeq(down[c], 1, k))
             /\ Moves(n, "resume", Answer(down[c][1]))
      BY <1>2, <1>4, <2>3, LastOfOne
  <2> QED
      BY <2>1, <2>2, <2>3
<1> QED
    BY <1>5, <1>6

\* AnswersStep: every step keeps the answers with their calls.
LEMMA AnswersStep ==
    ASSUME ShapeInv, TurnsInv, OwnAnswers, [Next]_vars
    PROVE  OwnAnswers'
<1>1. CASE call' = call /\ crossed' = crossed /\ accepted \subseteq accepted'
  <2>1. \A n \in Calls : /\ call'[n].got = call[n].got /\ call'[n].on = call[n].on
                         /\ call'[n].kind = call[n].kind
      BY <1>1
  <2> QED
      BY <1>1, <2>1, AnswersKept
<1>2. CASE connect \/ disconnect \/ UNCHANGED vars
    BY <1>1, <1>2 DEF connect, disconnect, vars
<1>3. CASE \E c \in Conns : close(c) \/ serve(c)
    BY <1>1, <1>3, ServeDoes DEF close
<1>4. CASE \E fate \in Fates : mail(fate)
    BY <1>1, <1>4 DEF mail
<1>5. ASSUME NEW kind \in Kinds, begin(kind) PROVE OwnAnswers'
  <2>1. \A m \in Calls : \/ call'[m].got = NoAnswer
                         \/ /\ call'[m].got = call[m].got /\ call'[m].on = call[m].on
                            /\ call'[m].kind = call[m].kind
    <3> TAKE m \in Calls
    <3>1. PICK k : k = calls + 1
        OBVIOUS
    <3>2. call'[k].got = NoAnswer /\ (m # k => call'[m] = call[m])
        BY <1>5, <3>1, BeginDoes
    <3> QED
        BY <3>2
  <2>2. crossed' = crossed /\ accepted' = accepted
      BY <1>5 DEF begin
  <2> QED
      BY <2>1, <2>2, AnswersKept
<1>6. ASSUME NEW n \in Calls, sendJson(n) \/ flush(n) \/ readTimesOut(n) \/ readFails(n)
      PROVE  OwnAnswers'
  <2>1. crossed \subseteq crossed' /\ accepted' = accepted
      BY <1>6, SendDoes DEF Written, readTimesOut, readFails
  <2>2. \E pc \in Pcs : Moves(n, pc, call[n].got)
      BY <1>6, SendDoes, FailsMoves DEF readTimesOut, readFails, ShapeInv, Pcs
  <2> QED
      BY <2>1, <2>2, MovesAnswers
<1>7. CASE \E n \in Calls : readLine(n) \/ receiveBytes(n)
    BY <1>7, ReadAnswers
<1>8. CASE \E n \in Calls : resume(n)
    BY <1>8, ResumeShape, MovesAnswers
<1>9. ASSUME NEW n \in Calls, leaveScreen(n) PROVE OwnAnswers'
  <2>1. /\ Moves(n, "done", call[n].got) \/ Cancels(n)
        /\ crossed' = crossed /\ accepted' = accepted
      BY <1>9, LeaveScreenDoes
  <2> QED
      BY <2>1, MovesAnswers
<1> QED
    BY <1>2, <1>3, <1>4, <1>5, <1>6, <1>7, <1>8, <1>9 DEF Next, Client

\* Where a message can be: at the relay, in a stream, in hand, shown or refused.
InStream(m) ==
    \E c \in Conns : \E i \in DOMAIN down[c] : m \in Ids(down[c][i].mail)
OnTheWay(m) ==
    \E n \in Calls : call[n].pc = "resume" /\ m \in Ids(call[n].got.mail)
Kept(m) ==
    m \in Ids(queue) \/ InStream(m) \/ OnTheWay(m) \/ m \in handled \/ Refused(m)

\* MailKeptIs: MailKept, message by message.
LEMMA MailKeptIs ==
    MailKept <=> (~Spoilt => \A m \in 1..mailed : Kept(m))
<1>1. \A m : m \in InTransit <=> InStream(m)
    BY DEF InTransit, InStream
<1>2. \A m : m \in InHand <=> OnTheWay(m)
    BY DEF InHand, OnTheWay
<1> QED
    BY <1>1, <1>2, Zenon DEF MailKept, Kept

\* MailKeptNext: the same of the next state.
LEMMA MailKeptNext ==
    ASSUME ~Spoilt' => \A m \in 1..mailed' : Kept(m)'
    PROVE  MailKept'
<1>1. \A m : (m \in InTransit)' <=> InStream(m)'
    BY DEF InTransit, InStream
<1>2. \A m : (m \in InHand)' <=> OnTheWay(m)'
    BY DEF InHand, OnTheWay
<1> QED
    BY <1>1, <1>2, Zenon DEF MailKept, Kept

\* SpoiltStays: what may cost messages is not undone.
LEMMA SpoiltStays ==
    ASSUME ShapeInv, [Next]_vars, ~Spoilt'
    PROVE  ~Spoilt
<1>1. /\ crossed' = {} /\ open' = 1..conns' /\ \A n \in Calls : ~call'[n].cancelled
    BY DEF Spoilt
<1>2. /\ conns \in Int /\ conns >= 0 /\ relay \in 0..conns /\ open \subseteq 1..conns
      /\ call \in [Calls -> CallSet]
    BY ConstantTypes DEF ShapeInv, MobileTypes
<1>3. SUFFICES crossed = {} /\ 1..conns \subseteq open /\ \A n \in Calls : ~call[n].cancelled
    BY <1>2 DEF Spoilt
<1>4. CASE call' = call /\ crossed' = crossed /\ conns' = conns /\ open' \subseteq open
    BY <1>1, <1>4
<1>5. CASE UNCHANGED vars \/ disconnect \/ (\E c \in Conns : close(c) \/ serve(c))
           \/ \E fate \in Fates : mail(fate)
    BY <1>4, <1>5 DEF vars, disconnect, close, serve, mail, links
<1>6. CASE connect
  <2>1. /\ call' = call /\ crossed' = crossed /\ conns' = conns + 1
        /\ open' \subseteq open \cup {conns + 1}
      BY <1>6 DEF connect
  <2>2. \A i \in 1..conns : i \in 1..(conns + 1) /\ i # conns + 1
      BY <1>2
  <2> QED
      BY <1>1, <2>1, <2>2
<1>7. CASE crossed \subseteq crossed' /\ conns' = conns /\ open' = open
           /\ \A n \in Calls : call[n].cancelled => call'[n].cancelled
    BY <1>1, <1>7
<1>8. ASSUME NEW kind \in Kinds, begin(kind)
      PROVE  crossed = {} /\ 1..conns \subseteq open /\ \A n \in Calls : ~call[n].cancelled
  <2>1. PICK k : k = calls + 1
      OBVIOUS
  <2>2. call[k] = NoCall /\ \A m \in Calls : m # k => call'[m] = call[m]
      BY <1>8, <2>1, BeginDoes
  <2>3. ~NoCall.cancelled
      BY DEF NoCall
  <2>4. crossed \subseteq crossed' /\ conns' = conns /\ open' = open
      BY <1>8 DEF begin, links
  <2> QED
      BY <1>7, <2>2, <2>3, <2>4
<1>9. ASSUME NEW n \in Calls, Client(n) \/ flush(n) \/ leaveScreen(n)
      PROVE  crossed = {} /\ 1..conns \subseteq open /\ \A m \in Calls : ~call[m].cancelled
  <2>1. CASE Cancels(n)
      BY <1>1, <2>1 DEF Cancels
  <2>2. crossed \subseteq crossed' /\ conns' = conns /\ open' = open
    <3>1. ASSUME sendJson(n) \/ flush(n)
          PROVE  crossed \subseteq crossed' /\ conns' = conns /\ open' = open
        BY <3>1, SendDoes DEF Written
    <3>2. CASE readLine(n) \/ readTimesOut(n) \/ receiveBytes(n) \/ readFails(n)
                 \/ resume(n) \/ leaveScreen(n)
        BY <3>2, Zenon DEF readLine, readTimesOut, receiveBytes, readFails, resume,
                           leaveScreen, links
    <3> QED
        BY <1>9, <3>1, <3>2 DEF Client
  <2>3. CASE \E pc, a : Moves(n, pc, a)
      BY <1>7, <2>2, <2>3 DEF Moves
  <2>4. CASE sendJson(n) \/ flush(n) \/ readTimesOut(n) \/ readFails(n)
    <3>1. \E pc \in Pcs : Moves(n, pc, call[n].got)
        BY <2>4, SendDoes, FailsMoves DEF readTimesOut, readFails, ShapeInv, Pcs
    <3> QED
        BY <2>3, <3>1
  <2>5. CASE readLine(n) \/ receiveBytes(n)
      BY <2>3, <2>5, ReadLineDoes, ReceiveBytesDoes
  <2>6. CASE resume(n)
      BY <2>3, <2>6, ResumeShape
  <2>7. CASE leaveScreen(n)
      BY <2>1, <2>3, <2>7, LeaveScreenDoes
  <2> QED
      BY <1>9, <2>4, <2>5, <2>6, <2>7 DEF Client
<1> QED
    BY <1>5, <1>6, <1>8, <1>9 DEF Next

\* NoIds: an empty answer carries no message.
LEMMA NoIds == Ids(<<>>) = {}
BY DEF Ids

\* IdsMember: the messages that an answer carries.
LEMMA IdsMember ==
    ASSUME NEW s \in Seq(Letters), NEW m
    PROVE  m \in Ids(s) <=> \E i \in 1..Len(s) : s[i].id = m
<1>1. DOMAIN s = 1..Len(s)
    BY LenProperties
<1> QED
    BY <1>1, Zenon DEF Ids

\* RefusedStays: a message that was refused stays so, as answers are kept.
LEMMA RefusedStays ==
    ASSUME platform' = platform, NEW m, Refused(m),
           \A n \in Calls : call[n].got = NoAnswer \/ call'[n].got = call[n].got
    PROVE  Refused(m)'
<1>1. PICK n \in Calls : \E i \in DOMAIN call[n].got.mail :
                         /\ call[n].got.mail[i].id = m
                         /\ \/ call[n].got.mail[i].fate # "good"
                            \/ platform = "ios" /\ \E k \in 1..i : call[n].got.mail[k].fate = "bad"
    BY DEF Refused
<1>2. NoAnswer.mail = <<>> /\ DOMAIN <<>> = {}
    BY DEF NoAnswer
<1>3. call'[n].got = call[n].got
    BY <1>1, <1>2
<1>4. PICK s : s = call[n].got.mail
    OBVIOUS
<1>5. \E i \in DOMAIN s : /\ s[i].id = m
                         /\ \/ s[i].fate # "good"
                            \/ platform = "ios" /\ \E k \in 1..i : s[k].fate = "bad"
    BY <1>1, <1>4, Zenon
<1>6. s = call'[n].got.mail
    BY <1>3, <1>4
<1> QED
    BY <1>5, <1>6 DEF Refused

\* QuietMail: a step that takes nothing out of the mailbox, the streams or the
\* calls' hands.
LEMMA QuietMail ==
    ASSUME UNCHANGED <<platform, queue, down, handled, mailed>>,
           \A n \in Calls : /\ call[n].got = NoAnswer \/ call'[n].got = call[n].got
                            /\ call[n].pc = "resume" => /\ call'[n].pc = "resume"
                                                        /\ call'[n].got = call[n].got,
           NEW m, Kept(m)
    PROVE  Kept(m)'
<1>1. CASE Refused(m)
    BY <1>1, RefusedStays DEF Kept
<1>2. CASE OnTheWay(m)
  <2>1. PICK n \in Calls : call[n].pc = "resume" /\ m \in Ids(call[n].got.mail)
      BY <1>2 DEF OnTheWay
  <2>2. call'[n].pc = "resume" /\ call'[n].got = call[n].got
      BY <2>1
  <2>3. OnTheWay(m)'
      BY <2>1, <2>2 DEF OnTheWay
  <2> QED
      BY <2>3 DEF Kept
<1>3. CASE InStream(m)
  <2>1. InStream(m)'
      BY <1>3 DEF InStream
  <2> QED
      BY <2>1 DEF Kept
<1>4. CASE m \in handled
    BY <1>4 DEF Kept
<1>5. CASE m \in Ids(queue)
  <2>1. (m \in Ids(queue))'
      BY <1>5
  <2> QED
      BY <2>1 DEF Kept
<1> QED
    BY <1>1, <1>2, <1>3, <1>4, <1>5 DEF Kept

\* NewMail: a new message is at the relay.
LEMMA NewMail ==
    ASSUME ShapeInv, NEW fate \in Fates, mail(fate), \A m \in 1..mailed : Kept(m)
    PROVE  \A m \in 1..mailed' : Kept(m)'
<1> SUFFICES ASSUME NEW m \in 1..mailed' PROVE Kept(m)'
    OBVIOUS
<1>1. /\ mailed' = mailed + 1 /\ mailed \in Nat /\ queue \in Seq(Letters)
      /\ queue' = Append(queue, [id |-> mailed + 1, fate |-> fate])
      /\ [id |-> mailed + 1, fate |-> fate] \in Letters
      /\ UNCHANGED <<platform, down, call, handled>>
    BY MailShape DEF ShapeInv, MobileTypes
<1>2. PICK l : l = [id |-> mailed + 1, fate |-> fate]
    OBVIOUS
<1>3. l \in Letters /\ l.id = mailed + 1 /\ queue' = Append(queue, l)
    BY <1>1, <1>2
<1>4. /\ queue' \in Seq(Letters) /\ Len(queue') = Len(queue) + 1 /\ Len(queue) \in Nat
      /\ queue'[Len(queue) + 1] = l
      /\ \A i \in 1..Len(queue) : queue'[i] = queue[i]
    BY <1>1, <1>3, AppendProperties
<1>5. 1..Len(queue) \subseteq 1..Len(queue') /\ Len(queue) + 1 \in 1..Len(queue')
    BY <1>4
<1>6. m = mailed + 1 \/ m \in Ids(queue) => m \in Ids(queue')
  <2>1. PICK s, t, k : s = queue /\ t = queue' /\ k = Len(queue) + 1
      OBVIOUS
  <2>2. /\ s \in Seq(Letters) /\ t \in Seq(Letters) /\ k \in 1..Len(t) /\ t[k].id = mailed + 1
        /\ \A i \in 1..Len(s) : i \in 1..Len(t) /\ t[i] = s[i]
      BY <1>1, <1>3, <1>4, <1>5, <2>1
  <2>3. /\ m \in Ids(s) <=> \E i \in 1..Len(s) : s[i].id = m
        /\ m \in Ids(t) <=> \E i \in 1..Len(t) : t[i].id = m
      BY <2>2, IdsMember
  <2>4. m = mailed + 1 \/ m \in Ids(s) => m \in Ids(t)
      BY <2>2, <2>3, Zenon
  <2> QED
      BY <2>1, <2>4, Zenon
<1>7. CASE m = mailed + 1 \/ m \in Ids(queue)
    BY <1>6, <1>7 DEF Kept
<1>8. CASE m # mailed + 1 /\ m \notin Ids(queue)
  <2>1. m \in 1..mailed
      BY <1>1, <1>8
  <2>2. Kept(m)
      BY <2>1
  <2>3. \/ InStream(m) \/ OnTheWay(m) \/ m \in handled \/ Refused(m)
      BY <1>8, <2>2 DEF Kept
  <2>4. CASE InStream(m)
      BY <1>1, <2>4 DEF Kept, InStream
  <2>5. CASE OnTheWay(m)
      BY <1>1, <2>5 DEF Kept, OnTheWay
  <2>6. CASE m \in handled
      BY <1>1, <2>6 DEF Kept
  <2>7. CASE Refused(m)
      BY <1>1, <2>7, RefusedStays DEF Kept
  <2> QED
      BY <2>3, <2>4, <2>5, <2>6, <2>7
<1> QED
    BY <1>7, <1>8

\* ServeMail: a fetch moves what was queued into the stream, all of it.
LEMMA ServeMail ==
    ASSUME ShapeInv, NEW c \in Conns, serve(c), NEW m, Kept(m)
    PROVE  Kept(m)'
<1>1. PICK n : n = Head(up[c])
    OBVIOUS
<1>2. PICK a \in Answers, split \in BOOLEAN :
        /\ down'[c] = down[c] \o Pieces(a, split)
        /\ call[n].kind # "receive" => queue' = queue
        /\ call[n].kind = "receive" => a.mail = queue /\ queue' = <<>>
    BY <1>1, ServeDoes
<1>3. /\ down' \in [Conns -> Seq(PieceSet)]
      /\ \A d \in Conns \ {c} : down'[d] = down[d]
      /\ UNCHANGED <<platform, call, handled>>
    BY ServeDoes
<1>4. PICK s, p, r : s = down[c] /\ p = Pieces(a, split) /\ r = down'[c]
    OBVIOUS
<1>5. /\ s \in Seq(PieceSet) /\ p \in Seq(PieceSet) /\ r = s \o p /\ Len(p) \in {1, 2}
      /\ p[1].mail = a.mail
  <2>1. s \in Seq(PieceSet) /\ r = s \o p
      BY <1>2, <1>4 DEF ShapeInv, MobileTypes
  <2>2. p \in Seq(PieceSet) /\ Len(p) \in {1, 2} /\ \A i \in 1..Len(p) : p[i].mail = a.mail
      BY <1>4, PiecesType
  <2>3. 1 \in 1..Len(p)
      BY <2>2
  <2> QED
      BY <2>1, <2>2, <2>3
<1>6. /\ DOMAIN s = 1..Len(s) /\ DOMAIN r = 1..Len(r) /\ Len(s) \in Nat
      /\ Len(r) = Len(s) + Len(p)
      /\ \A i \in 1..Len(r) : r[i] = IF i =< Len(s) THEN s[i] ELSE p[i - Len(s)]
  <2>1. r \in Seq(PieceSet)
      BY <1>5, ConcatProperties
  <2> QED
      BY <1>5, <2>1, ConcatProperties, LenProperties
<1>7. /\ \A i \in DOMAIN s : i \in DOMAIN r /\ r[i] = s[i]
      /\ Len(s) + 1 \in DOMAIN r /\ r[Len(s) + 1] = p[1]
  <2>1. \A i \in 1..Len(s) : i \in 1..Len(r) /\ i =< Len(s)
      BY <1>5, <1>6
  <2>2. Len(s) + 1 \in 1..Len(r) /\ ~(Len(s) + 1 =< Len(s)) /\ (Len(s) + 1) - Len(s) = 1
      BY <1>5, <1>6
  <2> QED
      BY <1>6, <2>1, <2>2
<1>8. CASE InStream(m)
  <2>1. PICK d \in Conns : \E i \in DOMAIN down[d] : m \in Ids(down[d][i].mail)
      BY <1>8 DEF InStream
  <2>2. PICK i \in DOMAIN down[d] : m \in Ids(down[d][i].mail)
      BY <2>1
  <2>3. i \in DOMAIN down'[d] /\ down'[d][i] = down[d][i]
      BY <1>3, <1>4, <1>7, <2>2
  <2>4. InStream(m)'
      BY <2>2, <2>3 DEF InStream
  <2> QED
      BY <2>4 DEF Kept
<1>9. CASE m \in Ids(queue)
  <2>1. CASE call[n].kind # "receive"
    <3>1. (m \in Ids(queue))'
        BY <1>2, <1>9, <2>1
    <3> QED
        BY <3>1 DEF Kept
  <2>2. CASE call[n].kind = "receive"
    <3>1. PICK i : i = Len(s) + 1
        OBVIOUS
    <3>2. i \in DOMAIN down'[c] /\ down'[c][i].mail = queue
        BY <1>2, <1>4, <1>5, <1>7, <2>2, <3>1
    <3>3. m \in Ids(down'[c][i].mail)
        BY <1>9, <3>2
    <3>4. InStream(m)'
        BY <3>2, <3>3 DEF InStream
    <3> QED
        BY <3>4 DEF Kept
  <2> QED
      BY <2>1, <2>2
<1>10. CASE OnTheWay(m)
    BY <1>3, <1>10 DEF Kept, OnTheWay
<1>11. CASE m \in handled
    BY <1>3, <1>11 DEF Kept
<1>12. CASE Refused(m)
    BY <1>3, <1>12, RefusedStays DEF Kept
<1> QED
    BY <1>8, <1>9, <1>10, <1>11, <1>12 DEF Kept

\* ReadMail: the messages of the answer go from the stream to the call, which
\* a send, the one call that does not resume, has none of.
LEMMA ReadMail ==
    ASSUME ShapeInv, TurnsInv, crossed = {}, crossed' = {}, NEW n \in Calls,
           readLine(n) \/ receiveBytes(n), NEW m, Kept(m)
    PROVE  Kept(m)'
<1>1. PICK c, s : c = call[n].on /\ s = down[c]
    OBVIOUS
<1>2. /\ c \in Conns /\ c \in open /\ call[n].pc = "read" /\ s \in Seq(PieceSet)
      /\ \A d \in Conns \ {c} : down'[d] = down[d]
      /\ UNCHANGED <<platform, queue, handled>>
  <2>1. /\ c \in Conns /\ c \in open /\ call[n].pc = "read"
        /\ \A d \in Conns \ {c} : down'[d] = down[d]
      BY <1>1, ReadLineDoes, ReceiveBytesDoes
  <2>2. UNCHANGED <<platform, queue, handled>>
      BY DEF readLine, receiveBytes, mailbox
  <2> QED
      BY <1>1, <2>1, <2>2 DEF ShapeInv, MobileTypes
<1>3. /\ Moves(n, "resume", Answer(s[1]))
      /\ \E k \in 1..Len(s) : s[k].last
  <2>1. CASE readLine(n)
    <3>1. PICK k : k = Min(LineEnds(c))
        OBVIOUS
    <3>2. /\ k \in LineEnds(c) /\ k \in 1..Len(s)
          /\ Moves(n, "resume", Answer(s[1])) \/ ~s[1].first
        BY <1>1, <2>1, <3>1, ReadLineDoes
    <3>3. s[k].last
        BY <1>1, <3>2 DEF LineEnds
    <3>4. s[1].first
        BY <1>1, <1>2, <3>2, <3>3, ReadsProper
    <3> QED
        BY <3>2, <3>3, <3>4
  <2>2. CASE receiveBytes(n)
    <3>1. PICK k \in 1..Len(s) :
            \/ /\ OneAnswer(SubSeq(s, 1, k))
               /\ Moves(n, "resume", Answer(s[1]))
            \/ crossed' = crossed \cup {c}
        BY <1>1, <2>2, ReceiveBytesDoes
    <3>2. OneAnswer(SubSeq(s, 1, k)) /\ Moves(n, "resume", Answer(s[1]))
        BY <3>1
    <3> QED
        BY <1>2, <3>2, LastOfOne
  <2> QED
      BY <2>1, <2>2
<1>4. /\ Proper(n, Answer(s[1])) /\ \A i \in 1..Len(s) : s[i].mail = Answer(s[1]).mail
    BY <1>1, <1>2, <1>3, ReadsProper
<1>5. PICK a : a = Answer(s[1])
    OBVIOUS
<1>6. call[n].got = NoAnswer
    BY <1>2 DEF ShapeInv, CallShape
<1>7. /\ \A k \in Calls \ {n} : call'[k] = call[k]
      /\ call'[n].pc = "resume" /\ call'[n].got = a
    BY <1>3, <1>5 DEF Moves
<1>8. CASE InStream(m)
  <2>1. PICK d \in Conns : \E i \in DOMAIN down[d] : m \in Ids(down[d][i].mail)
      BY <1>8 DEF InStream
  <2>2. PICK i \in DOMAIN down[d] : m \in Ids(down[d][i].mail)
      BY <2>1
  <2>3. CASE d # c
    <3>1. InStream(m)'
        BY <1>2, <2>2, <2>3 DEF InStream
    <3> QED
        BY <3>1 DEF Kept
  <2>4. CASE d = c
    <3>1. i \in 1..Len(s) /\ m \in Ids(s[i].mail)
        BY <1>1, <1>2, <2>2, <2>4, LenProperties
    <3>2. m \in Ids(a.mail)
        BY <1>4, <1>5, <3>1
    <3>3. OnTheWay(m)'
        BY <1>7, <3>2 DEF OnTheWay
    <3> QED
        BY <3>3 DEF Kept
  <2> QED
      BY <2>3, <2>4
<1>9. CASE OnTheWay(m)
  <2>1. PICK k \in Calls : call[k].pc = "resume" /\ m \in Ids(call[k].got.mail)
      BY <1>9 DEF OnTheWay
  <2>2. k # n
      BY <1>2, <2>1
  <2>3. OnTheWay(m)'
      BY <1>7, <2>1, <2>2 DEF OnTheWay
  <2> QED
      BY <2>3 DEF Kept
<1>10. CASE Refused(m)
  <2>1. \A k \in Calls : call[k].got = NoAnswer \/ call'[k].got = call[k].got
      BY <1>6, <1>7
  <2> QED
      BY <1>2, <1>10, <2>1, RefusedStays DEF Kept
<1>11. CASE m \in Ids(queue) \/ m \in handled
  <2>1. (m \in Ids(queue) \/ m \in handled)'
      BY <1>2, <1>11
  <2> QED
      BY <2>1 DEF Kept
<1> QED
    BY <1>8, <1>9, <1>10, <1>11 DEF Kept

\* ShownOrRefused: a screen shows a message of its answer or refuses it.
LEMMA ShownOrRefused ==
    ASSUME NEW s \in Seq(Letters), NEW m \in Ids(s), platform \in {"android", "ios"}
    PROVE  \/ m \in IF platform = "android" THEN Shown_android(s) ELSE Shown_ios(s)
           \/ \E i \in DOMAIN s : /\ s[i].id = m
                                  /\ \/ s[i].fate # "good"
                                     \/ /\ platform = "ios"
                                        /\ \E k \in 1..i : s[k].fate = "bad"
<1>1. PICK i \in DOMAIN s : s[i].id = m
    BY DEF Ids
<1>2. CASE platform = "android"
    BY <1>1, <1>2 DEF Shown_android
<1>3. CASE platform = "ios"
    BY <1>1, <1>3 DEF Shown_ios
<1> QED
    BY <1>2, <1>3

\* ResumeMail: the screen shows the messages of the answer or refuses them; an
\* answer to another question has none.
LEMMA ResumeMail ==
    ASSUME ShapeInv, OwnAnswers, ~Spoilt, NEW n \in Calls, resume(n), NEW m, Kept(m)
    PROVE  Kept(m)'
<1>1. /\ call[n].pc = "resume" /\ Moves(n, "done", call[n].got)
      /\ UNCHANGED <<platform, down, queue>>
    BY ResumeShape
<1>2. handled \subseteq handled'
    BY DEF resume
<1>3. \A k \in Calls : call'[k].got = call[k].got
    BY <1>1 DEF Moves
<1>4. CASE Refused(m)
    BY <1>1, <1>3, <1>4, RefusedStays DEF Kept
<1>5. CASE InStream(m)
  <2>1. InStream(m)'
      BY <1>1, <1>5 DEF InStream
  <2> QED
      BY <2>1 DEF Kept
<1>6. CASE m \in handled
    BY <1>2, <1>6 DEF Kept
<1>7. CASE m \in Ids(queue)
  <2>1. (m \in Ids(queue))'
      BY <1>1, <1>7
  <2> QED
      BY <2>1 DEF Kept
<1>8. ASSUME NEW k \in Calls \ {n}, call[k].pc = "resume", m \in Ids(call[k].got.mail)
      PROVE  Kept(m)'
  <2>1. OnTheWay(m)'
      BY <1>1, <1>8 DEF OnTheWay, Moves
  <2> QED
      BY <2>1 DEF Kept
<1>9. CASE m \in Ids(call[n].got.mail)
  <2>1. PICK s : s = call[n].got.mail
      OBVIOUS
  <2>2. s \in Seq(Letters) /\ platform \in {"android", "ios"}
      BY <2>1 DEF ShapeInv, MobileTypes, CallSet, Answers
  <2>3. call[n].on \notin crossed /\ ~call[n].cancelled
      BY DEF Spoilt
  <2>4. call[n].got # NoAnswer
    <3>1. NoAnswer.mail = <<>>
        BY DEF NoAnswer
    <3> QED
        BY <1>9, <3>1, NoIds
  <2>5. call[n].kind = "receive"
      BY <1>9, <2>3, <2>4, NoIds DEF OwnAnswers, Proper
  <2>6. handled' = handled \cup IF platform = "android" THEN Shown_android(s)
                                ELSE Shown_ios(s)
      BY <2>1, <2>3, <2>5 DEF resume
  <2>7. CASE m \in IF platform = "android" THEN Shown_android(s) ELSE Shown_ios(s)
      BY <2>6, <2>7 DEF Kept
  <2>8. CASE \E i \in DOMAIN s : /\ s[i].id = m
                                 /\ \/ s[i].fate # "good"
                                    \/ /\ platform = "ios"
                                       /\ \E k \in 1..i : s[k].fate = "bad"
    <3>1. s = call'[n].got.mail
        BY <1>3, <2>1
    <3>2. Refused(m)'
        BY <1>1, <2>8, <3>1 DEF Refused
    <3> QED
        BY <3>2 DEF Kept
  <2> QED
      BY <1>9, <2>1, <2>2, <2>7, <2>8, ShownOrRefused
<1> QED
    BY <1>4, <1>5, <1>6, <1>7, <1>8, <1>9 DEF Kept, OnTheWay

\* MailStep: no step of a client or the relay drops a message, unless a connection was
\* crossed or closed or a screen left.
LEMMA MailStep ==
    ASSUME ShapeInv, TurnsInv, OwnAnswers, MailKept, [Next]_vars
    PROVE  MailKept'
<1> SUFFICES ASSUME ~Spoilt' PROVE \A m \in 1..mailed' : Kept(m)'
    BY MailKeptNext
<1>1. ~Spoilt
    BY SpoiltStays
<1>2. crossed = {} /\ crossed' = {} /\ \A n \in Calls : ~call'[n].cancelled
    BY <1>1 DEF Spoilt
<1>3. \A m \in 1..mailed : Kept(m)
    BY <1>1, MailKeptIs
<1>4. CASE \E fate \in Fates : mail(fate)
    BY <1>3, <1>4, NewMail
<1>5. CASE mailed' = mailed /\ \A m : Kept(m) => Kept(m)'
    BY <1>3, <1>5
<1>6. CASE /\ UNCHANGED <<platform, queue, down, handled, mailed>>
           /\ \A n \in Calls : /\ call[n].got = NoAnswer \/ call'[n].got = call[n].got
                               /\ call[n].pc = "resume" => /\ call'[n].pc = "resume"
                                                           /\ call'[n].got = call[n].got
  <2>1. \A m : Kept(m) => Kept(m)'
      BY <1>6, QuietMail
  <2> QED
      BY <1>5, <1>6, <2>1
<1>7. CASE UNCHANGED vars \/ connect \/ disconnect \/ \E c \in Conns : close(c)
    BY <1>6, <1>7 DEF vars, connect, disconnect, close, mailbox
<1>8. ASSUME NEW kind \in Kinds, begin(kind) PROVE \A m \in 1..mailed' : Kept(m)'
  <2>1. PICK k : k = calls + 1
      OBVIOUS
  <2>2. call[k] = NoCall /\ \A i \in Calls : i # k => call'[i] = call[i]
      BY <1>8, <2>1, BeginDoes
  <2>3. NoCall.pc = "none" /\ NoCall.got = NoAnswer
      BY DEF NoCall
  <2>4. UNCHANGED <<platform, queue, down, handled, mailed>>
      BY <1>8 DEF begin, mailbox
  <2> QED
      BY <1>6, <2>2, <2>3, <2>4
<1>9. ASSUME NEW n \in Calls, NEW pc, Moves(n, pc, call[n].got), call[n].pc # "resume",
             UNCHANGED <<platform, queue, down, handled, mailed>>
      PROVE  \A m \in 1..mailed' : Kept(m)'
    BY <1>6, <1>9 DEF Moves
<1>10. ASSUME NEW n \in Calls, sendJson(n) \/ flush(n) \/ readTimesOut(n) \/ readFails(n)
       PROVE  \A m \in 1..mailed' : Kept(m)'
  <2>1. ~readTimesOut(n)
      BY <1>2 DEF readTimesOut
  <2>2. /\ UNCHANGED <<platform, queue, down, handled, mailed>>
        /\ call[n].pc # "resume"
      BY <1>10, <2>1, SendDoes DEF readFails, mailbox
  <2>3. \E pc \in Pcs : Moves(n, pc, call[n].got)
      BY <1>10, <2>1, SendDoes, FailsMoves DEF readFails, ShapeInv, Pcs
  <2> QED
      BY <1>9, <2>2, <2>3
<1>11. ASSUME NEW n \in Calls, leaveScreen(n) PROVE \A m \in 1..mailed' : Kept(m)'
  <2>1. ~Cancels(n)
      BY <1>2 DEF Cancels
  <2>2. /\ call[n].pc = "write" /\ Moves(n, "done", call[n].got)
        /\ UNCHANGED <<platform, queue, down, handled, mailed>>
      BY <1>11, <2>1, LeaveScreenDoes
  <2> QED
      BY <1>9, <2>2
<1>12. ASSUME NEW n \in Calls, readLine(n) \/ receiveBytes(n)
       PROVE  \A m \in 1..mailed' : Kept(m)'
  <2>1. \A m : Kept(m) => Kept(m)'
      BY <1>2, <1>12, ReadMail
  <2>2. mailed' = mailed
      BY <1>12 DEF readLine, receiveBytes, mailbox
  <2> QED
      BY <1>5, <2>1, <2>2
<1>13. ASSUME NEW n \in Calls, resume(n) PROVE \A m \in 1..mailed' : Kept(m)'
  <2>1. \A m : Kept(m) => Kept(m)'
      BY <1>1, <1>13, ResumeMail
  <2>2. mailed' = mailed
      BY <1>13 DEF resume
  <2> QED
      BY <1>5, <2>1, <2>2
<1>14. ASSUME NEW c \in Conns, serve(c) PROVE \A m \in 1..mailed' : Kept(m)'
  <2>1. \A m : Kept(m) => Kept(m)'
      BY <1>14, ServeMail
  <2>2. mailed' = mailed
      BY <1>14 DEF serve
  <2> QED
      BY <1>5, <2>1, <2>2
<1> QED
    BY <1>4, <1>7, <1>8, <1>10, <1>11, <1>12, <1>13, <1>14 DEF Next, Client

\* StreamIs: LagIsTimeouts, connection by connection.
LEMMA StreamIs == LagIsTimeouts <=> StreamInv
BY DEF LagIsTimeouts, StreamInv, LagOn

\* The inductive invariant.
MobileInvariant == ShapeInv /\ StreamInv /\ TurnsInv /\ OwnAnswers /\ MailKept

\* MobileStart: the invariant holds before anything has happened.
LEMMA MobileStart == ASSUME Init PROVE MobileInvariant
<1>1. ShapeInv
  <2>1. NoCall \in CallSet /\ NoCall.got = NoAnswer /\ NoCall.pc = "none"
      BY DEF NoCall, NoAnswer, CallSet, Answers, None
  <2>2. <<>> \in Seq(Calls) /\ <<>> \in Seq(PieceSet) /\ <<>> \in Seq(Letters)
      OBVIOUS
  <2>3. MobileTypes
      BY <2>1, <2>2, ConstantTypes DEF Init, MobileTypes, None
  <2>4. CallShape
      BY <2>1 DEF Init, CallShape
  <2>5. Unmade
      BY DEF Init, Unmade
  <2> QED
      BY <2>3, <2>4, <2>5 DEF ShapeInv
<1>2. StreamInv /\ TurnsInv
    BY DEF Init, StreamInv, TurnsInv
<1>3. OwnAnswers
  <2>1. NoCall.got = NoAnswer
      BY DEF NoCall
  <2> QED
      BY <2>1 DEF Init, OwnAnswers
<1>4. MailKept
    BY DEF Init, MailKept
<1> QED
    BY <1>1, <1>2, <1>3, <1>4 DEF MobileInvariant

(***************************************************************************)
(* MobileInvariance: streams, turns, answers and messages together are an  *)
(* invariant of either app, for any number of calls, connections, messages *)
(* and faults.                                                             *)
(***************************************************************************)
THEOREM MobileInvariance == Spec => []MobileInvariant
<1>1. Init => MobileInvariant
    BY MobileStart
<1>2. MobileInvariant /\ [Next]_vars => MobileInvariant'
    BY ShapeStep, StreamStep, AnswersStep, MailStep DEF MobileInvariant
<1> QED
    BY <1>1, <1>2, PTL DEF Spec

(***************************************************************************)
(* AnswersLagByTimeouts: on Android the lines a connection still owes are  *)
(* those of its readers and one for each read that timed out, so the       *)
(* stream falls behind by exactly the timeouts (readLine of                *)
(* RelayService.kt).                                                       *)
(***************************************************************************)
THEOREM AnswersLagByTimeouts == Spec => []LagIsTimeouts
<1>1. MobileInvariant => LagIsTimeouts
    BY StreamIs DEF MobileInvariant
<1> QED
    BY <1>1, MobileInvariance, PTL

(***************************************************************************)
(* AnswersInTurn: on a connection that never had two calls at a time, a    *)
(* timeout or a partial read, each call gets its own answer, and a send is *)
(* reported as done only if the relay accepted that very message.          *)
(***************************************************************************)
THEOREM AnswersInTurn == Spec => []InStep
<1>1. MobileInvariant => InStep
    BY DEF MobileInvariant, OwnAnswers, Proper, InStep
<1> QED
    BY <1>1, MobileInvariance, PTL

(***************************************************************************)
(* MailIsSomewhere: while no connection was crossed or closed and no       *)
(* screen left, every message sent to the user is at the relay, in a       *)
(* stream, in a screen's hand, shown, or was refused by the screen.        *)
(***************************************************************************)
THEOREM MailIsSomewhere == Spec => []MailKept
<1>1. MobileInvariant => MailKept
    BY DEF MobileInvariant
<1> QED
    BY <1>1, MobileInvariance, PTL
-----------------------------------------------------------------------------
(***************************************************************************)
(*                                  Bridge                                 *)
(***************************************************************************)

AllFunctions == FfiFunctions \cup JniFunctions
Objects == [by : Nat, kind : ObjectKinds \cup {"null"}]
Frames == [pc : {"clear", "work", "report", "failed"}, n : Nat, f : AllFunctions,
           args : SUBSET Objects, mode : {"ok", "null", "input", "panic"},
           among : SUBSET Nat, alone : BOOLEAN]

\* What the threads are in, and what the host is told, are well formed.
FrameTypes ==
    /\ lib \in {"ffi", "jni"} /\ slot \in Nat /\ entries \in Nat
    /\ frame \in [Threads -> Frames \cup {Idle}]
    /\ told \in [Threads -> [n : Nat, text : Nat, among : SUBSET Nat,
                             alone : BOOLEAN, silent : BOOLEAN]]
    /\ heap \subseteq Objects

\* The functions under way are those of the process's library, and a call that
\* is about to report a failure is in one that leaves a text.
FrameFunctions ==
    \A t \in Active :
        /\ frame[t].f \in Functions
        /\ frame[t].n \in 1..entries
        /\ frame[t].pc = "report" => frame[t].mode \notin frame[t].f.silent

\* Any other call was under way when this one began, or began later.
OthersKnown ==
    \A t, u \in Active :
        t # u => frame[t].n \in frame[u].among \/ frame[t].n > frame[u].n

\* A call that has cleared the slot and was left alone finds it empty; one that
\* has failed finds there what its failure left.
SlotOwn ==
    \A t \in Active : frame[t].alone =>
        /\ frame[t].pc \in {"work", "report"} /\ frame[t].f.clears => slot = NoError
        /\ frame[t].pc = "failed" =>
             slot = IF frame[t].mode \in frame[t].f.silent THEN NoError ELSE frame[t].n

\* From where a call cleared the slot or set it, the slot holds nothing older.
SlotFresh ==
    \A t \in Active :
        \/ frame[t].pc = "failed"
        \/ frame[t].pc \in {"work", "report"} /\ frame[t].f.clears
        => slot = NoError \/ slot >= frame[t].n \/ slot \in frame[t].among

BridgeInv ==
    /\ FrameTypes /\ FrameFunctions /\ OthersKnown /\ SlotOwn /\ SlotFresh
    /\ OwnError /\ FreshError
-----------------------------------------------------------------------------
(***************************************************************************)
(* The functions of the two libraries.                                     *)
(***************************************************************************)
FfiShape(f) ==
    /\ f.silent = {} /\ f.gives \in ObjectKinds \cup {"none"}
    /\ f.fails \subseteq {"null", "input"}

JniShape(f) ==
    /\ f.clears /\ f.gives \in ObjectKinds \cup {"none"}
    /\ f.fails \subseteq {"null", "input", "panic"}

\* FfiShapes: no C function fails without a text.
LEMMA FfiShapes == \A f \in FfiFunctions : FfiShape(f)
<1>1. /\ FfiShape(tintin_identity_generate)
      /\ FfiShape(tintin_identity_get_public)
      /\ FfiShape(tintin_identity_to_json)
    BY DEF FfiShape, Ffi, ObjectKinds,
           tintin_identity_generate, tintin_identity_get_public,
           tintin_identity_to_json
<1>2. /\ FfiShape(tintin_identity_from_json)
      /\ FfiShape(tintin_signed_prekey_generate)
      /\ FfiShape(tintin_signed_prekey_get_public)
    BY DEF FfiShape, Ffi, ObjectKinds,
           tintin_identity_from_json, tintin_signed_prekey_generate,
           tintin_signed_prekey_get_public
<1>3. /\ FfiShape(tintin_signed_prekey_get_id)
      /\ FfiShape(tintin_session_new_initiator)
      /\ FfiShape(tintin_session_new_responder)
    BY DEF FfiShape, Ffi, ObjectKinds,
           tintin_signed_prekey_get_id, tintin_session_new_initiator,
           tintin_session_new_responder
<1>4. /\ FfiShape(tintin_session_encrypt)
      /\ FfiShape(tintin_session_decrypt)
      /\ FfiShape(tintin_session_to_json)
    BY DEF FfiShape, Ffi, ObjectKinds,
           tintin_session_encrypt, tintin_session_decrypt,
           tintin_session_to_json
<1>5. /\ FfiShape(tintin_session_from_json)
      /\ FfiShape(tintin_session_get_ratchet_key)
      /\ FfiShape(tintin_chat_message_to_json)
    BY DEF FfiShape, Ffi, ObjectKinds,
           tintin_session_from_json, tintin_session_get_ratchet_key,
           tintin_chat_message_to_json
<1> QED
    BY <1>1, <1>2, <1>3, <1>4, <1>5, Zenon DEF FfiFunctions

\* JniShapes: every JNI function clears the slot first.
LEMMA JniShapes == \A f \in JniFunctions : JniShape(f)
<1>1. /\ JniShape(identityGenerate)
      /\ JniShape(identityGetPublic)
      /\ JniShape(identityToJson)
    BY DEF JniShape, Jni, ObjectKinds,
           identityGenerate, identityGetPublic, identityToJson
<1>2. /\ JniShape(identityFromJson)
      /\ JniShape(signedPrekeyGenerate)
      /\ JniShape(signedPrekeyGetPublic)
    BY DEF JniShape, Jni, ObjectKinds,
           identityFromJson, signedPrekeyGenerate, signedPrekeyGetPublic
<1>3. /\ JniShape(sessionNewInitiator)
      /\ JniShape(sessionNewResponder)
      /\ JniShape(sessionEncrypt)
    BY DEF JniShape, Jni, ObjectKinds,
           sessionNewInitiator, sessionNewResponder, sessionEncrypt
<1>4. /\ JniShape(sessionDecrypt)
      /\ JniShape(sessionToJson)
      /\ JniShape(sessionFromJson)
    BY DEF JniShape, Jni, ObjectKinds,
           sessionDecrypt, sessionToJson, sessionFromJson
<1>5. /\ JniShape(sessionGetRatchetKey)
    BY DEF JniShape, Jni, ObjectKinds,
           sessionGetRatchetKey
<1> QED
    BY <1>1, <1>2, <1>3, <1>4, <1>5, Zenon DEF JniFunctions

\* FunctionFacts: what the two libraries have in common.
LEMMA FunctionFacts ==
    \A f \in Functions :
        /\ f \in AllFunctions
        /\ f.gives \in ObjectKinds \cup {"none"}
        /\ f.fails \subseteq {"ok", "null", "input", "panic"}
        /\ f.silent # {} => f.clears
        /\ lib = "ffi" => f.silent = {}
<1> TAKE f \in Functions
<1>1. CASE lib = "ffi"
  <2>1. f \in FfiFunctions
      BY <1>1, Zenon DEF Functions
  <2> QED
      BY <1>1, <2>1, FfiShapes DEF FfiShape, AllFunctions
<1>2. CASE lib # "ffi"
  <2>1. f \in JniFunctions
      BY <1>2, Zenon DEF Functions
  <2> QED
      BY <1>2, <2>1, JniShapes DEF JniShape, AllFunctions
<1> QED
    BY <1>1, <1>2
-----------------------------------------------------------------------------
(***************************************************************************)
(* The type invariant of the proof.                                        *)
(***************************************************************************)
\* ActiveFrame: a thread is active or idle, and its program counter tells.
LEMMA ActiveFrame ==
    ASSUME FrameTypes, NEW t \in Threads
    PROVE  /\ t \in Active <=> frame[t] \in Frames
           /\ t \in Active <=> frame[t] # Idle
           /\ frame[t].pc \in {"clear", "work", "report", "failed"} => t \in Active
<1>1. \A r \in Frames : r # Idle
    BY DEF Frames, Idle
<1> QED
    BY <1>1 DEF FrameTypes, Active, Idle

\* TouchTypes: what a thread did to the slot leaves well-formed frames.
LEMMA TouchTypes ==
    ASSUME FrameTypes, NEW t \in Active, NEW pc \in {"work", "failed"}, Touch(t, pc)
    PROVE  /\ frame' \in [Threads -> Frames \cup {Idle}]
           /\ Active' = Active
           /\ frame'[t] = [frame[t] EXCEPT !.pc = pc]
           /\ \A u \in Active \ {t} : frame'[u] = [frame[u] EXCEPT !.alone = FALSE]
<1>1. \A u \in Threads : frame'[u] = IF u = t THEN [frame[t] EXCEPT !.pc = pc]
               ELSE IF u \in Active THEN [frame[u] EXCEPT !.alone = FALSE]
               ELSE Idle
    BY DEF Touch
<1>2. \A r \in Frames : /\ [r EXCEPT !.pc = pc] \in Frames
                        /\ [r EXCEPT !.alone = FALSE] \in Frames
    BY DEF Frames
<1>3. \A r \in Frames : r # Idle
    BY DEF Frames, Idle
<1>4. \A u \in Threads : frame'[u] \in Frames \cup {Idle} /\ (frame'[u] # Idle <=> u \in Active)
    BY <1>1, <1>2, <1>3, ActiveFrame DEF Active
<1>5. frame' = [u \in Threads |-> frame'[u]]
    BY DEF Touch
<1> QED
    BY <1>1, <1>4, <1>5 DEF Active

\* TypesStep: every step leaves the frames well formed.
LEMMA TypesStep == FrameTypes /\ [BridgeNext]_bridgeVars => FrameTypes'
<1> SUFFICES ASSUME FrameTypes, [BridgeNext]_bridgeVars PROVE FrameTypes'
    OBVIOUS
<1>1. ASSUME NEW t \in Threads, NEW f \in Functions, enter(t, f) PROVE FrameTypes'
  <2>1. PICK a \in Arguments(f) :
          frame' = [frame EXCEPT ![t] =
               [pc |-> IF f.clears THEN "clear" ELSE "work", n |-> entries + 1,
                f |-> f, args |-> {a[k] : k \in f.takes}, mode |-> "ok",
                among |-> {frame[u].n : u \in Active}, alone |-> TRUE]]
      BY <1>1 DEF enter
  <2>2. {a[k] : k \in f.takes} \in SUBSET Objects
    <3>1. Null \in Objects
        BY DEF Null, Objects, NoError
    <3> QED
        BY <3>1 DEF Arguments, FrameTypes
  <2>3. {frame[u].n : u \in Active} \in SUBSET Nat
    <3>1. \A u \in Active : frame[u] \in Frames
        BY ActiveFrame DEF Active
    <3> QED
        BY <3>1 DEF Frames
  <2>4. f \in AllFunctions
      BY FunctionFacts
  <2>5. PICK A, G : A = {a[k] : k \in f.takes} /\ G = {frame[u].n : u \in Active}
      OBVIOUS
  <2>6. [pc |-> IF f.clears THEN "clear" ELSE "work", n |-> entries + 1,
         f |-> f, args |-> A, mode |-> "ok", among |-> G, alone |-> TRUE] \in Frames
      BY <2>2, <2>3, <2>4, <2>5 DEF Frames, FrameTypes
  <2>7. frame' \in [Threads -> Frames \cup {Idle}]
      BY <2>1, <2>5, <2>6 DEF FrameTypes
  <2> QED
      BY <1>1, <2>7 DEF enter, FrameTypes
<1>2. ASSUME NEW t \in Threads, clear_error(t) PROVE FrameTypes'
  <2>1. t \in Active
      BY <1>2, ActiveFrame DEF clear_error
  <2> QED
      BY <1>2, <2>1, TouchTypes DEF clear_error, FrameTypes, NoError
<1>3. ASSUME NEW t \in Threads, succeed(t) PROVE FrameTypes'
  <2>1. t \in Active /\ frame[t] \in Frames
      BY <1>3, ActiveFrame DEF succeed
  <2>2. frame[t].f.gives \in ObjectKinds \cup {"none"}
      BY <2>1, FfiShapes, JniShapes DEF Frames, AllFunctions, FfiShape, JniShape
  <2>3. heap' \subseteq Objects
      BY <1>3, <2>1, <2>2 DEF succeed, FrameTypes, Frames, Objects
  <2> QED
      BY <1>3, <2>3 DEF succeed, FrameTypes
<1>4. ASSUME NEW t \in Threads, fail(t) PROVE FrameTypes'
  <2>1. t \in Active /\ frame[t] \in Frames
      BY <1>4, ActiveFrame DEF fail
  <2>2. PICK mode \in frame[t].f.fails : frame' = [frame EXCEPT
             ![t].mode = mode,
             ![t].pc = IF mode \in frame[t].f.silent THEN "failed" ELSE "report"]
      BY <1>4 DEF fail
  <2>3. mode \in {"ok", "null", "input", "panic"}
      BY <2>1, FfiShapes, JniShapes DEF Frames, AllFunctions, FfiShape, JniShape
  <2>4. \A r \in Frames, pc \in {"failed", "report"} :
          [r EXCEPT !.mode = mode, !.pc = pc] \in Frames
      BY <2>3 DEF Frames
  <2>5. frame' \in [Threads -> Frames \cup {Idle}]
      BY <2>1, <2>2, <2>4 DEF FrameTypes
  <2> QED
      BY <1>4, <2>5 DEF fail, FrameTypes
<1>5. ASSUME NEW t \in Threads, set_error(t) PROVE FrameTypes'
  <2>1. t \in Active /\ frame[t] \in Frames
      BY <1>5, ActiveFrame DEF set_error
  <2>2. frame[t].n \in Nat
      BY <2>1 DEF Frames
  <2> QED
      BY <1>5, <2>1, <2>2, TouchTypes DEF set_error, FrameTypes
<1>6. ASSUME NEW t \in Threads, last_error(t) PROVE FrameTypes'
  <2>1. t \in Active /\ frame[t] \in Frames
      BY <1>6, ActiveFrame DEF last_error
  <2>2. [n |-> frame[t].n, text |-> slot, among |-> frame[t].among,
         alone |-> frame[t].alone, silent |-> frame[t].mode \in frame[t].f.silent]
        \in [n : Nat, text : Nat, among : SUBSET Nat, alone : BOOLEAN,
             silent : BOOLEAN]
      BY <2>1 DEF Frames, FrameTypes
  <2>3. [by |-> frame[t].n, kind |-> "string"] \in Objects
      BY <2>1 DEF Frames, Objects, ObjectKinds
  <2>4. frame' \in [Threads -> Frames \cup {Idle}] /\ heap' \subseteq Objects
      BY <1>6, <2>3 DEF last_error, FrameTypes
  <2> QED
      BY <1>6, <2>2, <2>4 DEF last_error, FrameTypes
<1>7. ASSUME NEW t \in Threads, ignore(t) PROVE FrameTypes'
    BY <1>7 DEF ignore, FrameTypes
<1>8. ASSUME NEW o, free(o) PROVE FrameTypes'
    BY <1>8 DEF free, FrameTypes
<1>9. CASE UNCHANGED bridgeVars
    BY <1>9 DEF bridgeVars, FrameTypes
<1> QED
    BY <1>1, <1>2, <1>3, <1>4, <1>5, <1>6, <1>7, <1>8, <1>9 DEF BridgeNext
-----------------------------------------------------------------------------
(***************************************************************************)
(* The slot.                                                               *)
(***************************************************************************)
\* EnterStep: a new call knows those under way, and they find it is younger.
LEMMA EnterStep ==
    ASSUME BridgeInv, FrameTypes', NEW t \in Threads, NEW f \in Functions, enter(t, f)
    PROVE  BridgeInv'
<1>1. PICK r : /\ frame' = [frame EXCEPT ![t] = r]
               /\ r.pc = (IF f.clears THEN "clear" ELSE "work")
               /\ r.n = entries + 1 /\ r.f = f /\ r.mode = "ok"
               /\ r.among = {frame[u].n : u \in Active}
  <2>1. PICK a \in Arguments(f) :
          frame' = [frame EXCEPT ![t] =
               [pc |-> IF f.clears THEN "clear" ELSE "work", n |-> entries + 1,
                f |-> f, args |-> {a[k] : k \in f.takes}, mode |-> "ok",
                among |-> {frame[u].n : u \in Active}, alone |-> TRUE]]
      BY DEF enter
  <2>2. PICK A, G : A = {a[k] : k \in f.takes} /\ G = {frame[u].n : u \in Active}
      OBVIOUS
  <2>3. PICK r : r = [pc |-> IF f.clears THEN "clear" ELSE "work", n |-> entries + 1,
                      f |-> f, args |-> A, mode |-> "ok", among |-> G, alone |-> TRUE]
      OBVIOUS
  <2>4. frame' = [frame EXCEPT ![t] = r]
      BY <2>1, <2>2, <2>3, Zenon
  <2>5. /\ r.pc = (IF f.clears THEN "clear" ELSE "work")
        /\ r.n = entries + 1 /\ r.f = f /\ r.mode = "ok" /\ r.among = G
      BY <2>3
  <2> QED
      BY <2>2, <2>4, <2>5, Zenon
<1>2. frame[t] = Idle /\ entries' = entries + 1 /\ lib' = lib /\ slot' = slot /\ told' = told
    BY DEF enter
<1>3. frame'[t] = r /\ \A u \in Threads \ {t} : frame'[u] = frame[u]
    BY <1>1 DEF BridgeInv, FrameTypes
<1>4. t \notin Active /\ Active' = Active \cup {t}
  <2>1. frame'[t].pc # "idle"
      BY <1>1, <1>3
  <2>2. frame'[t] # Idle
      BY <2>1 DEF Idle
  <2> QED
      BY <1>2, <1>3, <2>2 DEF Active
<1>5. Functions' = Functions
    BY <1>2 DEF Functions
<1>6. \A u \in Active : frame'[u] = frame[u] /\ u # t /\ frame[u].n \in 1..entries
    BY <1>3, <1>4 DEF BridgeInv, FrameFunctions, Active
<1>7. entries \in Nat
    BY DEF BridgeInv, FrameTypes
<1>8. FrameFunctions'
    BY <1>1, <1>2, <1>3, <1>4, <1>5, <1>6, <1>7 DEF BridgeInv, FrameFunctions
<1>9. OthersKnown'
  <2> SUFFICES ASSUME NEW v \in Active', NEW u \in Active', v # u
               PROVE  frame'[v].n \in frame'[u].among \/ frame'[v].n > frame'[u].n
      BY DEF OthersKnown
  <2>1. CASE u = t
      BY <1>1, <1>3, <1>4, <1>6, <2>1
  <2>2. CASE v = t
      BY <1>1, <1>3, <1>4, <1>6, <1>7, <2>2
  <2>3. CASE u # t /\ v # t
      BY <1>4, <1>6, <2>3 DEF BridgeInv, OthersKnown
  <2> QED
      BY <2>1, <2>2, <2>3
<1>10. r.pc \in {"clear", "work"} /\ (r.pc = "work" => ~r.f.clears)
    BY <1>1
<1>11. SlotOwn'
    BY <1>2, <1>3, <1>4, <1>6, <1>10 DEF BridgeInv, SlotOwn
<1>12. SlotFresh'
    BY <1>2, <1>3, <1>4, <1>6, <1>10 DEF BridgeInv, SlotFresh
<1> QED
    BY <1>2, <1>8, <1>9, <1>11, <1>12 DEF BridgeInv, OwnError, FreshError

\* TouchStep: a call that cleared the slot or set it to its own number finds it
\* so; no other may still count on it, and to each of them the text is of a
\* call it knows.
LEMMA TouchStep ==
    ASSUME BridgeInv, FrameTypes', NEW t \in Active, NEW pc \in {"work", "failed"},
           Touch(t, pc), UNCHANGED <<lib, entries, told>>,
           slot' = IF pc = "work" THEN NoError ELSE frame[t].n,
           pc = "failed" => frame[t].pc = "report"
    PROVE  BridgeInv'
<1>1. /\ Active' = Active
      /\ frame'[t] = [frame[t] EXCEPT !.pc = pc]
      /\ \A u \in Active \ {t} : frame'[u] = [frame[u] EXCEPT !.alone = FALSE]
    BY TouchTypes DEF BridgeInv
<1>2. Functions' = Functions
    BY DEF Functions
<1>3. \A u \in Active : frame[u] \in Frames
    BY ActiveFrame DEF BridgeInv, Active
<1>4. /\ frame'[t].n = frame[t].n /\ frame'[t].f = frame[t].f
      /\ frame'[t].among = frame[t].among /\ frame'[t].mode = frame[t].mode
      /\ frame'[t].pc = pc
    BY <1>1, <1>3 DEF Frames
<1>5. \A u \in Active \ {t} :
        /\ frame'[u].n = frame[u].n /\ frame'[u].f = frame[u].f
        /\ frame'[u].among = frame[u].among /\ frame'[u].mode = frame[u].mode
        /\ frame'[u].pc = frame[u].pc /\ frame'[u].alone = FALSE
  <2>1. \A r \in Frames : LET q == [r EXCEPT !.alone = FALSE]
                          IN /\ q.n = r.n /\ q.f = r.f /\ q.among = r.among
                             /\ q.mode = r.mode /\ q.pc = r.pc /\ q.alone = FALSE
      BY DEF Frames
  <2> TAKE u \in Active \ {t}
  <2>2. frame'[u] = [frame[u] EXCEPT !.alone = FALSE] /\ frame[u] \in Frames
      BY <1>1, <1>3
  <2> QED
      BY <2>1, <2>2
<1>6. FrameFunctions'
    BY <1>1, <1>2, <1>4, <1>5 DEF BridgeInv, FrameFunctions
<1>7. OthersKnown'
  <2>1. \A u \in Active : frame'[u].n = frame[u].n /\ frame'[u].among = frame[u].among
    <3> TAKE u \in Active
    <3>1. CASE u = t
        BY <1>4, <3>1
    <3>2. CASE u # t
        BY <1>5, <3>2
    <3> QED
        BY <3>1, <3>2
  <2>2. \A v, u \in Active : v # u => frame[v].n \in frame[u].among \/ frame[v].n > frame[u].n
      BY DEF BridgeInv, OthersKnown
  <2>3. \A v, u \in Active : v # u => frame'[v].n \in frame'[u].among \/ frame'[v].n > frame'[u].n
    <3> TAKE v \in Active, u \in Active
    <3>1. frame'[v].n = frame[v].n /\ frame'[u].n = frame[u].n
          /\ frame'[u].among = frame[u].among
        BY <2>1
    <3>2. v # u => frame[v].n \in frame[u].among \/ frame[v].n > frame[u].n
        BY <2>2
    <3> QED
        BY <3>1, <3>2
  <2> QED
      BY <1>1, <2>3 DEF OthersKnown
<1>8. pc = "failed" => frame[t].mode \notin frame[t].f.silent
    BY DEF BridgeInv, FrameFunctions
<1>9. SlotOwn'
    BY <1>1, <1>4, <1>5, <1>8 DEF BridgeInv, SlotOwn
<1>10. \A u \in Active : frame[u].n \in Nat
    BY <1>3 DEF Frames
<1>11. SlotFresh'
  <2> SUFFICES ASSUME NEW u \in Active, pc = "failed"
               PROVE  slot' >= frame[u].n \/ slot' \in frame[u].among
      BY <1>1, <1>4, <1>5 DEF SlotFresh
  <2>1. CASE u = t
      BY <1>10, <2>1
  <2>2. CASE u # t
      BY <1>10, <2>2 DEF BridgeInv, OthersKnown
  <2> QED
      BY <2>1, <2>2
<1> QED
    BY <1>6, <1>7, <1>9, <1>11 DEF BridgeInv, OwnError, FreshError

\* LeaveStep: a call that returns takes nothing with it.
LEMMA LeaveStep ==
    ASSUME BridgeInv, FrameTypes', NEW t \in Threads,
           frame' = [frame EXCEPT ![t] = Idle], UNCHANGED <<lib, slot, entries>>,
           OwnError', FreshError'
    PROVE  BridgeInv'
<1>1. Active' = Active \ {t} /\ \A u \in Active \ {t} : frame'[u] = frame[u]
    BY DEF Active, BridgeInv, FrameTypes
<1>2. Functions' = Functions
    BY DEF Functions
<1>3. FrameFunctions' /\ OthersKnown'
    BY <1>1, <1>2 DEF BridgeInv, FrameFunctions, OthersKnown
<1>4. SlotOwn' /\ SlotFresh'
    BY <1>1 DEF BridgeInv, SlotOwn, SlotFresh
<1> QED
    BY <1>3, <1>4 DEF BridgeInv

\* FailStep: only a function that cleared the slot fails without a text.
LEMMA FailStep ==
    ASSUME BridgeInv, FrameTypes', NEW t \in Threads, fail(t)
    PROVE  BridgeInv'
<1>1. t \in Active /\ frame[t] \in Frames
    BY ActiveFrame DEF BridgeInv, fail
<1>2. PICK mode : frame' = [frame EXCEPT
             ![t].mode = mode,
             ![t].pc = IF mode \in frame[t].f.silent THEN "failed" ELSE "report"]
    BY DEF fail
<1>3. UNCHANGED <<lib, slot, entries, told>> /\ frame[t].pc = "work"
    BY DEF fail
<1>4. \A u \in Threads \ {t} : frame'[u] = frame[u]
    BY <1>2 DEF BridgeInv, FrameTypes
<1>5. /\ frame'[t].n = frame[t].n /\ frame'[t].f = frame[t].f
      /\ frame'[t].among = frame[t].among /\ frame'[t].mode = mode
      /\ frame'[t].alone = frame[t].alone
      /\ frame'[t].pc = IF mode \in frame[t].f.silent THEN "failed" ELSE "report"
    BY <1>1, <1>2 DEF BridgeInv, FrameTypes, Frames
<1>6. Active' = Active
  <2>1. frame'[t] # Idle
      BY <1>5 DEF Idle
  <2> QED
      BY <1>1, <1>4, <2>1 DEF Active
<1>7. Functions' = Functions
    BY <1>3 DEF Functions
<1>8. frame[t].f \in Functions
    BY <1>1 DEF BridgeInv, FrameFunctions
<1>9. mode \in frame[t].f.silent => frame[t].f.clears
    BY <1>8, FunctionFacts
<1>10. FrameFunctions'
    BY <1>3, <1>4, <1>5, <1>6, <1>7 DEF BridgeInv, FrameFunctions, Active
<1>11. OthersKnown'
    BY <1>4, <1>5, <1>6 DEF BridgeInv, OthersKnown, Active
<1>12. SlotOwn'
    BY <1>1, <1>3, <1>4, <1>5, <1>6, <1>9 DEF BridgeInv, SlotOwn, Active
<1>13. SlotFresh'
    BY <1>1, <1>3, <1>4, <1>5, <1>6, <1>9 DEF BridgeInv, SlotFresh, Active
<1> QED
    BY <1>3, <1>10, <1>11, <1>12, <1>13 DEF BridgeInv, OwnError, FreshError

\* LastErrorStep: what the host is told.
LEMMA LastErrorStep ==
    ASSUME BridgeInv, FrameTypes', NEW t \in Threads, last_error(t)
    PROVE  BridgeInv'
<1>1. t \in Active /\ frame[t] \in Frames
    BY ActiveFrame DEF BridgeInv, last_error
<1>2. /\ told'[t].n = frame[t].n /\ told'[t].text = slot
      /\ told'[t].among = frame[t].among /\ told'[t].alone = frame[t].alone
      /\ told'[t].silent = (frame[t].mode \in frame[t].f.silent)
      /\ \A u \in Threads \ {t} : told'[u] = told[u]
    BY DEF last_error, BridgeInv, FrameTypes
<1>3. frame[t].pc = "failed" /\ UNCHANGED <<lib, slot, entries>>
      /\ frame' = [frame EXCEPT ![t] = Idle]
    BY DEF last_error
<1>4. frame[t].f \in Functions /\ frame[t].n \in 1..entries
    BY <1>1 DEF BridgeInv, FrameFunctions
<1>5. lib = "ffi" => frame[t].mode \notin frame[t].f.silent
    BY <1>4, FunctionFacts
<1>6. frame[t].alone => /\ slot = IF frame[t].mode \in frame[t].f.silent THEN NoError
                                  ELSE frame[t].n
                        /\ lib = "ffi" => slot # NoError
    BY <1>1, <1>3, <1>4, <1>5 DEF BridgeInv, SlotOwn, NoError
<1>7. OwnError'
    BY <1>2, <1>3, <1>6 DEF BridgeInv, OwnError
<1>8. slot = NoError \/ slot >= frame[t].n \/ slot \in frame[t].among
    BY <1>1, <1>3 DEF BridgeInv, SlotFresh
<1>9. FreshError'
    BY <1>2, <1>8 DEF BridgeInv, FreshError
<1> QED
    BY <1>3, <1>7, <1>9, LeaveStep

(***************************************************************************)
(* BridgeInvariance: what LAST_ERROR holds for each call under way is an   *)
(* invariant of either library, for any number of threads and calls.       *)
(***************************************************************************)
THEOREM BridgeInvariance == BridgeSpec => []BridgeInv
<1>1. BridgeInit => BridgeInv
  <2> SUFFICES ASSUME BridgeInit PROVE BridgeInv
      OBVIOUS
  <2>1. FrameTypes
      BY DEF BridgeInit, FrameTypes, NoText, NoError
  <2>2. Active = {}
      BY DEF BridgeInit, Active
  <2>3. OwnError /\ FreshError
      BY DEF BridgeInit, OwnError, FreshError, NoText
  <2> QED
      BY <2>1, <2>2, <2>3
      DEF BridgeInv, FrameFunctions, OthersKnown, SlotOwn, SlotFresh
<1>2. BridgeInv /\ [BridgeNext]_bridgeVars => BridgeInv'
  <2> SUFFICES ASSUME BridgeInv, [BridgeNext]_bridgeVars PROVE BridgeInv'
      OBVIOUS
  <2>1. FrameTypes'
      BY TypesStep DEF BridgeInv
  <2>2. ASSUME NEW t \in Threads, NEW f \in Functions, enter(t, f) PROVE BridgeInv'
      BY <2>1, <2>2, EnterStep
  <2>3. ASSUME NEW t \in Threads, clear_error(t) PROVE BridgeInv'
    <3>1. t \in Active
        BY <2>3, ActiveFrame DEF BridgeInv, clear_error
    <3> QED
        BY <2>1, <2>3, <3>1, TouchStep DEF clear_error
  <2>4. ASSUME NEW t \in Threads, succeed(t) PROVE BridgeInv'
      BY <2>1, <2>4, LeaveStep DEF succeed, BridgeInv, OwnError, FreshError
  <2>5. ASSUME NEW t \in Threads, fail(t) PROVE BridgeInv'
      BY <2>1, <2>5, FailStep
  <2>6. ASSUME NEW t \in Threads, set_error(t) PROVE BridgeInv'
    <3>1. t \in Active
        BY <2>6, ActiveFrame DEF BridgeInv, set_error
    <3> QED
        BY <2>1, <2>6, <3>1, TouchStep DEF set_error
  <2>7. ASSUME NEW t \in Threads, last_error(t) PROVE BridgeInv'
      BY <2>1, <2>7, LastErrorStep
  <2>8. ASSUME NEW t \in Threads, ignore(t) PROVE BridgeInv'
      BY <2>1, <2>8, LeaveStep DEF ignore, BridgeInv, OwnError, FreshError
  <2>9. ASSUME UNCHANGED <<lib, slot, frame, entries, told>> PROVE BridgeInv'
    <3>1. Active' = Active /\ Functions' = Functions
        BY <2>9 DEF Active, Functions
    <3> QED
        BY <2>1, <2>9, <3>1 DEF BridgeInv, FrameFunctions, OthersKnown, SlotOwn,
                                SlotFresh, OwnError, FreshError
  <2>10. ASSUME NEW o, free(o) PROVE BridgeInv'
      BY <2>9, <2>10 DEF free
  <2>11. CASE UNCHANGED bridgeVars
      BY <2>9, <2>11 DEF bridgeVars
  <2> QED
      BY <2>2, <2>3, <2>4, <2>5, <2>6, <2>7, <2>8, <2>10, <2>11 DEF BridgeNext
<1> QED
    BY <1>1, <1>2, PTL DEF BridgeSpec

(***************************************************************************)
(* OwnErrors: a host whose call ran alone from its beginning to its        *)
(* question is told the text of its own failure, or none if the function   *)
(* leaves none.                                                            *)
(***************************************************************************)
THEOREM OwnErrors == BridgeSpec => []OwnError
<1>1. BridgeInv => OwnError
    BY DEF BridgeInv
<1> QED
    BY <1>1, BridgeInvariance, PTL

(***************************************************************************)
(* FreshErrors: whatever other threads do, a host that asks after a        *)
(* failure is never told the text of a call that had returned before its   *)
(* own began (clear_error, set_error).                                     *)
(***************************************************************************)
THEOREM FreshErrors == BridgeSpec => []FreshError
<1>1. BridgeInv => FreshError
    BY DEF BridgeInv
<1> QED
    BY <1>1, BridgeInvariance, PTL
=============================================================================
