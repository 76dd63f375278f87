--------------------------- MODULE HistoryProofs ---------------------------
(***************************************************************************)
(* Theorems about History, for any peers and rooms and any number of       *)
(* messages, edits, crashes and failed writes.  Four inductive invariants: *)
(* what is still to be saved (SaveInv), what memory and disk know of the   *)
(* messages sent (MemoryInv), what the ticks rest on (TickInv) and where   *)
(* the marks of edits are (EditInv).                                       *)
(***************************************************************************)
EXTENDS History, FiniteSetTheorems, SequenceTheorems, WellFoundedInduction, TLAPS

Statuses == {"Sent", "Delivered", "Read"}
Entries == [env : Nat, to : Peers \cup {RoomName}, ts : Nat, status : Statuses,
            edited : BOOLEAN]
LogEntries == [env : Nat, edited : BOOLEAN]
Envelopes == [to : Peers, ts : Nat, stage : 1..3, text : BOOLEAN]
ReceiptMessages == [from : Peers, ts : Nat, level : Statuses]

Content(f) == IF f = "history" THEN Seq(Entries)
              ELSE IF f = "log" THEN Seq(LogEntries) ELSE SUBSET Rooms
Contents == Seq(Entries) \cup Seq(LogEntries) \cup SUBSET Rooms

\* The things a command does.
Steps == Files \cup {"record", "sent", "exit"}

\* What a command has left to do: the user is told, or the process ends, last,
\* and the log is saved after the message was recorded.
Planned(p) ==
    /\ p \in Seq(Steps)
    /\ \A i \in 1..Len(p) : p[i] \in {"sent", "exit"} => i = Len(p)
    /\ \A i, j \in 1..Len(p) : p[i] = "record" /\ p[j] = "record" => i = j
    /\ \A i \in 1..Len(p) : p[i] = "record" =>
           \E j \in 1..Len(p) : i < j /\ p[j] = "log"

Left(p) == {p[i] : i \in 1..Len(p)}

\* Memory and the files hold what they should.
MemOK ==
    /\ mem \in [Files -> Contents] /\ disk \in [Files -> Seq(Contents)]
    /\ \A f \in Files : mem[f] \in Content(f) /\ Load(f) \in Content(f)

\* Shape: the part of the state that the proofs compute with is well formed.
Shape ==
    /\ up \in BOOLEAN /\ writing \in BOOLEAN /\ astray \in BOOLEAN
    /\ MemOK /\ clock \in Nat
    /\ mail \in Seq(Envelopes) /\ inbox \in Seq(ReceiptMessages)

\* A process that does not run has nothing to do; a write is under way only
\* when the next thing to do is to save a file, and what is recorded or
\* reported was tracked.
Orderly ==
    /\ Planned(todo)
    /\ ~up => todo = <<>> /\ ~writing /\ failed = {}
    /\ writing => todo # <<>> /\ Head(todo) \in Files
    /\ "record" \in Left(todo) \/ "sent" \in Left(todo) => mem.history # <<>>

\* What is in memory and not on disk is still to be saved, or its last write
\* failed.
Kept == up => \A f \in Files \ failed : f \in Left(todo) \/ Load(f) = mem[f]

SaveInv == Shape /\ Orderly /\ Kept
-----------------------------------------------------------------------------
(***************************************************************************)
(* What is left to do.                                                     *)
(***************************************************************************)
\* The first thing is done: what is left is in order.
LEMMA PlanTail ==
    ASSUME NEW p, Planned(p), p # <<>>
    PROVE  /\ Planned(Tail(p)) /\ Left(p) = {Head(p)} \cup Left(Tail(p))
           /\ Head(p) \in {"exit", "sent"} => Tail(p) = <<>>
           /\ Head(p) = "record" =>
                  "log" \in Left(Tail(p)) /\ "record" \notin Left(Tail(p))
<1>1. PICK T : T = Steps
    OBVIOUS
<1>2. p \in Seq(T)
    BY <1>1 DEF Planned
<1>3. /\ Tail(p) \in Seq(T) /\ Len(p) \in Nat /\ Len(p) > 0
      /\ Len(Tail(p)) = Len(p) - 1 /\ Head(p) = p[1]
      /\ \A i \in 1..(Len(p) - 1) : Tail(p)[i] = p[i + 1]
    BY <1>2, HeadTailProperties, EmptySeq, LenProperties
<1>4. PICK t \in Seq(T) : t = Tail(p)
    BY <1>3
<1>5. /\ Len(t) = Len(p) - 1 /\ Len(t) \in Nat
      /\ \A i \in 1..Len(t) : i + 1 \in 1..Len(p) /\ t[i] = p[i + 1]
    BY <1>3, <1>4
<1>6. \A j \in 1..Len(p) : j = 1 \/ (j - 1 \in 1..Len(t) /\ t[j - 1] = p[j])
    BY <1>3, <1>5
<1>7. Planned(t)
  <2>1. ASSUME NEW i \in 1..Len(t), t[i] \in {"sent", "exit"} PROVE i = Len(t)
    <3>1. PICK k \in 1..Len(p) : k = i + 1 /\ p[k] \in {"sent", "exit"}
        BY <1>5, <2>1
    <3>2. k = Len(p)
        BY <3>1 DEF Planned
    <3>3. i \in Int /\ Len(t) = Len(p) - 1
        BY <1>5, <2>1
    <3> QED
        BY <3>1, <3>2, <3>3
  <2>2. ASSUME NEW i \in 1..Len(t), NEW j \in 1..Len(t), t[i] = "record",
               t[j] = "record"
        PROVE  i = j
    <3>1. /\ i + 1 \in 1..Len(p) /\ p[i + 1] = "record"
          /\ j + 1 \in 1..Len(p) /\ p[j + 1] = "record"
        BY <1>5, <2>2
    <3>2. i + 1 = j + 1
        BY <3>1 DEF Planned
    <3> QED
        BY <3>2
  <2>3. ASSUME NEW i \in 1..Len(t), t[i] = "record"
        PROVE  \E j \in 1..Len(t) : i < j /\ t[j] = "log"
    <3>1. i + 1 \in 1..Len(p) /\ p[i + 1] = "record"
        BY <1>5, <2>3
    <3>2. PICK j \in 1..Len(p) : i + 1 < j /\ p[j] = "log"
        BY <3>1 DEF Planned
    <3>3. j - 1 \in 1..Len(t) /\ i < j - 1 /\ t[j - 1] = "log"
        BY <1>3, <1>6, <3>2
    <3> QED
        BY <3>3
  <2> QED
      BY <1>1, <1>4, <2>1, <2>2, <2>3 DEF Planned
<1>8. \A x : x \in Left(p) <=> x = p[1] \/ x \in Left(t)
  <2>1. ASSUME NEW i \in 1..Len(p) PROVE p[i] = p[1] \/ p[i] \in Left(t)
      BY <1>6 DEF Left
  <2>2. 1 \in 1..Len(p)
      BY <1>3
  <2>3. ASSUME NEW i \in 1..Len(t) PROVE t[i] \in Left(p)
      BY <1>5 DEF Left
  <2> QED
      BY <2>1, <2>2, <2>3 DEF Left
<1>9. Left(p) = {Head(p)} \cup Left(t)
    BY <1>3, <1>8, Zenon
<1>10. ASSUME Head(p) \in {"exit", "sent"} PROVE t = <<>>
  <2>0. 1 \in 1..Len(p) /\ p[1] \in {"sent", "exit"}
      BY <1>3, <1>10
  <2>1. 1 = Len(p)
      BY <2>0 DEF Planned
  <2> QED
      BY <1>4, <1>5, <2>1, EmptySeq
<1>11. ASSUME Head(p) = "record"
       PROVE  "log" \in Left(t) /\ "record" \notin Left(t)
  <2>0. 1 \in 1..Len(p) /\ p[1] = "record"
      BY <1>3, <1>11
  <2>1. PICK j \in 1..Len(p) : 1 < j /\ p[j] = "log"
      BY <2>0 DEF Planned
  <2>2. "log" \in Left(t)
      BY <1>6, <2>1 DEF Left
  <2>3. ASSUME NEW i \in 1..Len(t), t[i] = "record" PROVE FALSE
    <3>1. i + 1 \in 1..Len(p) /\ p[i + 1] = "record" /\ p[1] = "record"
          /\ 1 \in 1..Len(p)
        BY <1>3, <1>5, <1>11, <2>3
    <3>2. i + 1 = 1
        BY <3>1 DEF Planned
    <3> QED
        BY <1>5, <3>2
  <2> QED
      BY <2>2, <2>3 DEF Left
<1> QED
    BY <1>4, <1>7, <1>9, <1>10, <1>11

\* Every command begins with a plan.
LEMMA PlansAre ==
    /\ Planned(<<>>) /\ Left(<<>>) = {}
    /\ Planned(All) /\ Planned(Append(All, "exit"))
    /\ Left(All) = Files /\ Left(Append(All, "exit")) = Files \cup {"exit"}
    /\ Planned(<<"rooms">>) /\ Left(<<"rooms">>) = {"rooms"}
    /\ Planned(<<"log">>) /\ Left(<<"log">>) = {"log"}
    /\ Planned(<<"history">>) /\ Left(<<"history">>) = {"history"}
    /\ Planned(<<"history", "log">>) /\ Left(<<"history", "log">>) = {"history", "log"}
    /\ Planned(<<"history", "sent">>)
    /\ Left(<<"history", "sent">>) = {"history", "sent"}
    /\ Planned(<<"history", "record", "log", "sent">>)
    /\ Left(<<"history", "record", "log", "sent">>) = {"history", "record", "log", "sent"}
<1>1. Planned(<<>>) /\ Left(<<>>) = {}
  <2>1. Len(<<>>) = 0
      OBVIOUS
  <2> QED
      BY <2>1, EmptySeq DEF Planned, Left
<1>2. Planned(All) /\ Left(All) = Files
  <2>1. Planned(<<"history", "rooms", "log">>)
      BY DEF Planned, Steps, Files
  <2>2. Left(<<"history", "rooms", "log">>) = Files
      BY DEF Left, Files
  <2> QED
      BY <2>1, <2>2 DEF All
<1>3. PICK a \in Seq(Steps) : a = All
    BY <1>2 DEF Planned
<1>4. PICK q : q = Append(a, "exit")
    OBVIOUS
<1>5. Planned(q) /\ Left(q) = Files \cup {"exit"}
  <2>1. Len(a) = 3 /\ a[1] = "history" /\ a[2] = "rooms" /\ a[3] = "log"
      BY <1>3 DEF All
  <2>2. /\ q \in Seq(Steps) /\ Len(q) = 4
        /\ q[1] = "history" /\ q[2] = "rooms" /\ q[3] = "log" /\ q[4] = "exit"
    <3>1. "exit" \in Steps
        BY DEF Steps
    <3>2. /\ q \in Seq(Steps) /\ Len(q) = Len(a) + 1 /\ q[Len(a) + 1] = "exit"
          /\ \A i \in 1..Len(a) : q[i] = a[i]
        BY <1>3, <1>4, <3>1, AppendProperties
    <3> QED
        BY <2>1, <3>2
  <2>3. Planned(q)
      BY <2>2 DEF Planned
  <2>4. \A x : x \in Left(q) <=> x \in {"history", "rooms", "log", "exit"}
      BY <2>2 DEF Left
  <2> QED
      BY <2>3, <2>4, Zenon DEF Files
<1>6. Planned(<<"rooms">>) /\ Left(<<"rooms">>) = {"rooms"}
    BY DEF Planned, Steps, Files, Left
<1>7. Planned(<<"log">>) /\ Left(<<"log">>) = {"log"}
    BY DEF Planned, Steps, Files, Left
<1>8. Planned(<<"history">>) /\ Left(<<"history">>) = {"history"}
    BY DEF Planned, Steps, Files, Left
<1>9. Planned(<<"history", "log">>) /\ Left(<<"history", "log">>) = {"history", "log"}
    BY DEF Planned, Steps, Files, Left
<1>10. Planned(<<"history", "sent">>)
       /\ Left(<<"history", "sent">>) = {"history", "sent"}
    BY DEF Planned, Steps, Files, Left
<1>11. Planned(<<"history", "record", "log", "sent">>)
    BY DEF Planned, Steps, Files
<1>12. Left(<<"history", "record", "log", "sent">>)
           = {"history", "record", "log", "sent"}
    BY DEF Left
<1> QED
    BY <1>1, <1>2, <1>3, <1>4, <1>5, <1>6, <1>7, <1>8, <1>9, <1>10, <1>11, <1>12
-----------------------------------------------------------------------------
(***************************************************************************)
(* The operators of the model.                                             *)
(***************************************************************************)
\* Every non-empty set of natural numbers has a least one.
LEMMA Least ==
    ASSUME NEW S \in SUBSET Nat, S # {}
    PROVE  \E x \in S : \A y \in S : x =< y
<1>1. PICK x \in S : \A y \in S : ~(<<y, x>> \in OpToRel(<, Nat))
    BY NatLessThanWellFounded, WFMin
<1>2. ASSUME NEW y \in S PROVE x =< y
  <2>1. y < x => <<y, x>> \in OpToRel(<, Nat)
      BY Zenon DEF OpToRel
  <2>2. ~(y < x)
      BY <1>1, <2>1
  <2> QED
      BY <2>2
<1> QED
    BY <1>2

\* A set of n places has a k-th one for each k of 1..n.
LEMMA NthIs ==
    ASSUME NEW n \in Nat, NEW S \in SUBSET (1..n), NEW k \in 1..Cardinality(S)
    PROVE  Nth(S, k) \in S
<1>1. PICK U : U = [x \in 0..n |-> {j \in S : j =< x}]
    OBVIOUS
<1>2. \A x \in 0..n : \A j : j \in U[x] <=> j \in S /\ j =< x
    BY <1>1
<1>3. \A j \in S : j \in Int /\ 1 =< j /\ j =< n
    OBVIOUS
<1>4. IsFiniteSet(S) /\ Cardinality(S) \in Nat
  <2>1. IsFiniteSet(1..n)
      BY FS_Interval
  <2> QED
      BY <2>1, FS_Subset, FS_CardinalityType
<1>5. ASSUME NEW x \in 0..n
      PROVE  IsFiniteSet(U[x]) /\ Cardinality(U[x]) \in Nat
  <2>1. U[x] \subseteq S
      BY <1>2
  <2> QED
      BY <1>4, <2>1, FS_Subset, FS_CardinalityType
<1>6. PICK T : T = {x \in 0..n : Cardinality(U[x]) >= k}
    OBVIOUS
<1>7. n \in T
  <2>1. n \in 0..n /\ \A j \in S : j \in U[n]
      BY <1>2, <1>3
  <2>2. U[n] = S
      BY <1>2, <2>1, Zenon
  <2> QED
      BY <1>4, <1>6, <2>1, <2>2
<1>8. T \in SUBSET Nat /\ T # {}
    BY <1>6, <1>7
<1>9. PICK x \in T : \A y \in T : x =< y
    BY <1>8, Least
<1>10. x \in 0..n /\ Cardinality(U[x]) >= k
    BY <1>6, <1>9
<1>11. x # 0
  <2>1. SUFFICES ASSUME x = 0 PROVE FALSE
      OBVIOUS
  <2>2. ASSUME NEW j, j \in U[x] PROVE FALSE
    <3>1. j \in S /\ j =< 0
        BY <1>2, <1>10, <2>1, <2>2
    <3> QED
        BY <1>3, <3>1
  <2>3. U[x] = {}
      BY <2>2
  <2>4. Cardinality(U[x]) = 0
      BY <2>3, FS_EmptySet
  <2> QED
      BY <1>4, <1>10, <2>4
<1>12. PICK y : y = x - 1
    OBVIOUS
<1>13. y \in 0..n /\ ~(x =< y) /\ y + 1 = x
    BY <1>10, <1>11, <1>12
<1>14. Cardinality(U[y]) < k
  <2>1. y \notin T
      BY <1>9, <1>13
  <2>2. Cardinality(U[y]) \in Nat
      BY <1>5, <1>13
  <2> QED
      BY <1>4, <1>6, <1>13, <2>1, <2>2
<1>15. \A j : j \in U[x] <=> j \in U[y] \/ (j = x /\ x \in S)
  <2>1. \A j \in S : j =< x <=> j =< y \/ j = x
      BY <1>3, <1>10, <1>13
  <2> QED
      BY <1>2, <1>10, <1>13, <2>1
<1>16. x \in S
  <2>1. SUFFICES ASSUME x \notin S PROVE FALSE
      OBVIOUS
  <2>2. U[x] = U[y]
      BY <1>15, <2>1, Zenon
  <2> QED
      BY <1>4, <1>5, <1>10, <1>13, <1>14, <2>2
<1>17. Cardinality(U[x]) = k
  <2>1. x \notin U[y]
      BY <1>2, <1>13
  <2>2. U[x] = U[y] \cup {x}
      BY <1>15, <1>16, Zenon
  <2>3. IsFiniteSet(U[y])
      BY <1>5, <1>13
  <2>4. Cardinality(U[x]) = Cardinality(U[y]) + 1
      BY <2>1, <2>2, <2>3, FS_AddElement
  <2>5. Cardinality(U[y]) \in Nat /\ k \in Int
      BY <1>4, <1>5, <1>13
  <2> QED
      BY <1>10, <1>14, <2>4, <2>5
<1>18. U[x] = {j \in S : j =< x}
    BY <1>1, <1>10
<1>19. \E i \in S : Cardinality({j \in S : j =< i}) = k
    BY <1>16, <1>17, <1>18, Zenon
<1> QED
    BY <1>19, Zenon DEF Nth


LEMMA LeastIs ==
    ASSUME NEW n \in Nat, NEW S \in SUBSET (1..n), S # {}
    PROVE  Min(S) \in S
<1>1. S \in SUBSET Nat
    OBVIOUS
<1>2. \E x \in S : \A y \in S : x =< y
    BY <1>1, Least
<1> QED
    BY <1>2, Zenon DEF Min

LEMMA GreatestIs ==
    ASSUME NEW n \in Nat, NEW S \in SUBSET (1..n), S # {}
    PROVE  Max(S) \in S
<1>1. PICK T : T = {n - x : x \in S}
    OBVIOUS
<1>2. \A x \in S : x \in Int /\ n - x \in Nat /\ n - x \in T
    BY <1>1
<1>3. T \in SUBSET Nat /\ T # {}
    BY <1>1, <1>2
<1>4. PICK t \in T : \A y \in T : t =< y
    BY <1>3, Least
<1>5. PICK x \in S : t = n - x
    BY <1>1, <1>4
<1>6. \A y \in S : x >= y
    BY <1>2, <1>4, <1>5
<1>7. \E z \in S : \A y \in S : z >= y
    BY <1>6
<1> QED
    BY <1>7, Zenon DEF Max

LEMMA RankIs == Rank("Sent") = 1 /\ Rank("Delivered") = 2 /\ Rank("Read") = 3
<1>1. /\ DOMAIN Levels = {1, 2, 3}
      /\ Levels[1] = "Sent" /\ Levels[2] = "Delivered" /\ Levels[3] = "Read"
    BY DEF Levels
<1> QED
    BY <1>1 DEF Rank

\* The files of the program have their kinds of content.
LEMMA ContentIs ==
    /\ Content("history") = Seq(Entries) /\ Content("log") = Seq(LogEntries)
    /\ Content("rooms") = SUBSET Rooms
    /\ \A f \in Files : Content(f) \subseteq Contents /\ Empty(f) \in Content(f)
<1>1. /\ Content("history") = Seq(Entries) /\ Content("log") = Seq(LogEntries)
      /\ Content("rooms") = SUBSET Rooms
    BY DEF Content
<1>2. Empty("history") = <<>> /\ Empty("log") = <<>> /\ Empty("rooms") = {}
    BY DEF Empty
<1>3. <<>> \in Seq(Entries) /\ <<>> \in Seq(LogEntries) /\ {} \in SUBSET Rooms
    BY EmptySeq
<1> QED
    BY <1>1, <1>2, <1>3 DEF Files, Contents

\* Entries, as an edit or a receipt leaves them.
LEMMA EntryIs ==
    ASSUME NEW m \in Entries, NEW st \in Statuses
    PROVE  /\ [m EXCEPT !.edited = TRUE] \in Entries
           /\ [m EXCEPT !.edited = TRUE].env = m.env
           /\ [m EXCEPT !.edited = TRUE].to = m.to
           /\ [m EXCEPT !.edited = TRUE].ts = m.ts
           /\ [m EXCEPT !.edited = TRUE].status = m.status
           /\ [m EXCEPT !.edited = TRUE].edited = TRUE
           /\ [m EXCEPT !.status = st] \in Entries
           /\ [m EXCEPT !.status = st].env = m.env
           /\ [m EXCEPT !.status = st].to = m.to
           /\ [m EXCEPT !.status = st].ts = m.ts
           /\ [m EXCEPT !.status = st].status = st
           /\ [m EXCEPT !.status = st].edited = m.edited
<1>1. /\ [m EXCEPT !.edited = TRUE] \in Entries
      /\ [m EXCEPT !.edited = TRUE].env = m.env
      /\ [m EXCEPT !.edited = TRUE].to = m.to
      /\ [m EXCEPT !.edited = TRUE].ts = m.ts
      /\ [m EXCEPT !.edited = TRUE].status = m.status
      /\ [m EXCEPT !.edited = TRUE].edited = TRUE
    BY DEF Entries
<1>2. /\ [m EXCEPT !.status = st] \in Entries
      /\ [m EXCEPT !.status = st].env = m.env
      /\ [m EXCEPT !.status = st].to = m.to
      /\ [m EXCEPT !.status = st].ts = m.ts
      /\ [m EXCEPT !.status = st].status = st
      /\ [m EXCEPT !.status = st].edited = m.edited
    BY DEF Entries
<1> QED
    BY <1>1, <1>2

LEMMA LogEntryIs ==
    ASSUME NEW e \in LogEntries
    PROVE  /\ [e EXCEPT !.edited = TRUE] \in LogEntries
           /\ [e EXCEPT !.edited = TRUE].env = e.env
           /\ [e EXCEPT !.edited = TRUE].edited = TRUE
BY DEF LogEntries

\* The log after an edit.
Marked(l, k) ==
    /\ k \in Seq(LogEntries) /\ Len(k) = Len(l)
    /\ \A j \in 1..Len(l) : k[j].env = l[j].env
    /\ \/ Outgoing(l) = {} /\ k = l
       \/ /\ Outgoing(l) # {} /\ Max(Outgoing(l)) \in 1..Len(l)
          /\ l[Max(Outgoing(l))].env # 0
          /\ k[Max(Outgoing(l))].edited
          /\ \A j \in 1..Len(l) : j # Max(Outgoing(l)) => k[j] = l[j]

LEMMA MarkEditedIs ==
    ASSUME NEW l \in Seq(LogEntries)
    PROVE  Marked(l, MarkEdited(l))
<1>1. PICK out : out = Outgoing(l)
    OBVIOUS
<1>2. Len(l) \in Nat /\ DOMAIN l = 1..Len(l)
    BY LenProperties
<1>3. out \in SUBSET (1..Len(l)) /\ \A i \in out : l[i].env # 0
    BY <1>1, <1>2 DEF Outgoing
<1>4. CASE out = {}
    BY <1>1, <1>4 DEF MarkEdited, Marked
<1>5. CASE out # {}
  <2>1. PICK g \in out : g = Max(out)
      BY <1>2, <1>3, <1>5, GreatestIs
  <2>2. MarkEdited(l) = [l EXCEPT ![g].edited = TRUE]
      BY <1>1, <1>5, <2>1 DEF MarkEdited
  <2>3. PICK R : R = LogEntries
      OBVIOUS
  <2>4. \A j \in 1..Len(l) : l[j] \in R
      BY <2>3, ElementOfSeq
  <2>5. g \in 1..Len(l) /\ l[g].env # 0
      BY <1>3, <2>1
  <2>6. PICK e \in R : e = [l[g] EXCEPT !.edited = TRUE] /\ e.env = l[g].env /\ e.edited
      BY <2>3, <2>4, <2>5, LogEntryIs
  <2>7. PICK k : k = [l EXCEPT ![g] = e]
      OBVIOUS
  <2>8. k = MarkEdited(l)
      BY <2>2, <2>6, <2>7
  <2>9. k \in Seq(R) /\ Len(k) = Len(l)
      BY <2>3, <2>5, <2>6, <2>7, ExceptSeq
  <2>10. k[g] = e /\ \A j \in 1..Len(l) : j # g => k[j] = l[j]
      BY <1>2, <2>5, <2>7
  <2>11. \A j \in 1..Len(l) : k[j].env = l[j].env
      BY <2>6, <2>10
  <2>12. g = Max(Outgoing(l)) /\ Outgoing(l) # {}
      BY <1>1, <1>5, <2>1
  <2>13. k[g].edited
      BY <2>6, <2>10
  <2>14. Marked(l, k)
      BY <2>3, <2>5, <2>9, <2>10, <2>11, <2>12, <2>13, Zenon DEF Marked
  <2> QED
      BY <2>8, <2>14
<1> QED
    BY <1>4, <1>5
-----------------------------------------------------------------------------
(***************************************************************************)
(* What the commands do to memory and mail.                                *)
(***************************************************************************)
LEMMA MemSet ==
    ASSUME MemOK, NEW f \in Files, NEW x \in Content(f),
           mem' = [mem EXCEPT ![f] = x]
    PROVE  /\ mem' \in [Files -> Contents] /\ mem'[f] = x
           /\ \A g \in Files : mem'[g] \in Content(g) /\ (g # f => mem'[g] = mem[g])
<1>1. x \in Contents /\ mem \in [Files -> Contents]
    BY ContentIs DEF MemOK
<1> QED
    BY <1>1 DEF MemOK

LEMMA LoadSame ==
    ASSUME NEW f, disk'[f] = disk[f]
    PROVE  Load(f)' = Load(f)
BY DEF Load

\* Memory and mail, by their parts.
LEMMA MemParts ==
    ASSUME Shape
    PROVE  /\ mem.history \in Seq(Entries) /\ mem.log \in Seq(LogEntries)
           /\ mem.rooms \in SUBSET Rooms
           /\ Load("history") \in Seq(Entries) /\ Load("log") \in Seq(LogEntries)
           /\ mail \in Seq(Envelopes) /\ inbox \in Seq(ReceiptMessages)
           /\ Len(mem.history) \in Nat /\ Len(mem.log) \in Nat
           /\ Len(mail) \in Nat /\ Len(inbox) \in Nat
           /\ \A i \in 1..Len(mem.history) : mem.history[i] \in Entries
           /\ \A j \in 1..Len(mem.log) : mem.log[j] \in LogEntries
           /\ \A n \in 1..Len(mail) : mail[n] \in Envelopes
           /\ \A n \in 1..Len(inbox) : inbox[n] \in ReceiptMessages
           /\ DOMAIN mem.history = 1..Len(mem.history)
           /\ DOMAIN mem.log = 1..Len(mem.log) /\ DOMAIN mail = 1..Len(mail)
<1>1. /\ mem.history \in Seq(Entries) /\ mem.log \in Seq(LogEntries)
      /\ mem.rooms \in SUBSET Rooms
      /\ Load("history") \in Seq(Entries) /\ Load("log") \in Seq(LogEntries)
    BY ContentIs DEF Shape, MemOK, Files
<1>2. mail \in Seq(Envelopes) /\ inbox \in Seq(ReceiptMessages)
    BY DEF Shape
<1>3. PICK E, L, M, R : /\ E = Entries /\ L = LogEntries /\ M = Envelopes
                        /\ R = ReceiptMessages
    OBVIOUS
<1>4. /\ mem.history \in Seq(E) /\ mem.log \in Seq(L)
      /\ mail \in Seq(M) /\ inbox \in Seq(R)
    BY <1>1, <1>2, <1>3
<1>5. /\ Len(mem.history) \in Nat /\ DOMAIN mem.history = 1..Len(mem.history)
      /\ \A i \in 1..Len(mem.history) : mem.history[i] \in E
    BY <1>4, ElementOfSeq, LenProperties
<1>6. /\ Len(mem.log) \in Nat /\ DOMAIN mem.log = 1..Len(mem.log)
      /\ \A i \in 1..Len(mem.log) : mem.log[i] \in L
    BY <1>4, ElementOfSeq, LenProperties
<1>7. /\ Len(mail) \in Nat /\ DOMAIN mail = 1..Len(mail)
      /\ \A i \in 1..Len(mail) : mail[i] \in M
    BY <1>4, ElementOfSeq, LenProperties
<1>8. /\ Len(inbox) \in Nat /\ \A i \in 1..Len(inbox) : inbox[i] \in R
    BY <1>4, ElementOfSeq, LenProperties
<1> QED
    BY <1>1, <1>2, <1>3, <1>5, <1>6, <1>7, <1>8

\* A command that sends tracks a new entry m for its envelope e.
Sends(m, e) ==
    /\ AtPrompt
    /\ m \in Entries /\ m.env = Len(mail) + 1 /\ m.status = "Sent"
    /\ m.edited = FALSE
    /\ e \in Envelopes /\ e.stage = 1
    /\ mail' = Append(mail, e)
    /\ mem' \in [Files -> Contents]
    /\ mem'.history = Append(mem.history, m) /\ mem'.history \in Seq(Entries)
    /\ mem'.log = mem.log /\ mem'.rooms = mem.rooms
    /\ \/ todo' = <<"history", "record", "log", "sent">>
       \/ todo' = <<"history", "sent">> /\ e.text = FALSE
    /\ clock' \in Nat
    /\ UNCHANGED <<up, disk, writing, inbox, notes>>

LEMMA SendsIs ==
    ASSUME Shape, NEW p \in Peers,
           \/ send_message(p)
           \/ \E later \in clock..MaxTime :
                  send_group_message(p, later) \/ send_file(p, later)
    PROVE  \E m, e : Sends(m, e)
<1>0. Len(mail) \in Nat /\ mem.history \in Seq(Entries)
    BY MemParts
<1>1. ASSUME NEW to \in Peers \cup {RoomName}, NEW ts \in Nat, NEW text \in BOOLEAN,
             Post(p, text), mem' = [mem EXCEPT !.history = Append(@, Track(to, ts))]
      PROVE  \E m, e :
               /\ m \in Entries /\ m.env = Len(mail) + 1 /\ m.status = "Sent"
               /\ m.edited = FALSE
               /\ e \in Envelopes /\ e.stage = 1 /\ e.text = text
               /\ mail' = Append(mail, e)
               /\ mem' \in [Files -> Contents]
               /\ mem'.history = Append(mem.history, m)
               /\ mem'.history \in Seq(Entries)
               /\ mem'.log = mem.log /\ mem'.rooms = mem.rooms
  <2>1. PICK m : m = Track(to, ts)
      OBVIOUS
  <2>2. /\ m \in Entries /\ m.env = Len(mail) + 1 /\ m.status = "Sent"
        /\ m.edited = FALSE
      BY <1>0, <1>1, <2>1 DEF Track, Entries, Statuses
  <2>3. PICK e : e = [to |-> p, ts |-> clock, stage |-> 1, text |-> text]
      OBVIOUS
  <2>4. e \in Envelopes /\ e.stage = 1 /\ e.text = text /\ mail' = Append(mail, e)
      BY <1>1, <2>3 DEF Envelopes, Post, Shape
  <2>5. PICK h : h = Append(mem.history, m)
      OBVIOUS
  <2>6. h \in Seq(Entries)
    <3>1. PICK E : E = Entries
        OBVIOUS
    <3>2. h \in Seq(E)
        BY <1>0, <2>2, <2>5, <3>1, AppendProperties
    <3> QED
        BY <3>1, <3>2
  <2>7. mem' = [mem EXCEPT !["history"] = h]
      BY <1>1, <2>1, <2>5
  <2>8. /\ mem' \in [Files -> Contents] /\ mem'["history"] = h
        /\ mem'["log"] = mem["log"] /\ mem'["rooms"] = mem["rooms"]
      BY <2>6, <2>7, MemSet, ContentIs DEF Shape, Files
  <2> QED
      BY <2>2, <2>4, <2>5, <2>6, <2>8
<1>2. CASE send_message(p)
  <2>1. /\ Post(p, TRUE)
        /\ mem' = [mem EXCEPT !.history = Append(@, Track(p, clock))]
        /\ clock \in Nat /\ clock' = clock
      BY <1>2 DEF send_message, Shape
  <2> QED
      BY <1>1, <1>2, <2>1 DEF send_message, Sends
<1>3. CASE \E later \in clock..MaxTime : send_group_message(p, later)
  <2>1. PICK later \in clock..MaxTime : send_group_message(p, later)
      BY <1>3
  <2>2. later \in Nat
      BY HistoryAssumption DEF Shape
  <2>3. /\ Post(p, TRUE)
        /\ mem' = [mem EXCEPT !.history = Append(@, Track(RoomName, later))]
        /\ clock' = later
      BY <2>1 DEF send_group_message
  <2> QED
      BY <1>1, <2>1, <2>2, <2>3 DEF send_group_message, Sends
<1>4. CASE \E later \in clock..MaxTime : send_file(p, later)
  <2>1. PICK later \in clock..MaxTime : send_file(p, later)
      BY <1>4
  <2>2. later \in Nat
      BY HistoryAssumption DEF Shape
  <2>3. /\ Post(p, FALSE)
        /\ mem' = [mem EXCEPT !.history = Append(@, Track(p, later))]
        /\ clock' = later
      BY <2>1 DEF send_file
  <2> QED
      BY <1>1, <2>1, <2>2, <2>3 DEF send_file, Sends
<1> QED
    BY <1>2, <1>3, <1>4

\* An entry e is added to the log.
Logs(e) ==
    /\ up /\ e \in LogEntries /\ e.edited = FALSE
    /\ mem' \in [Files -> Contents]
    /\ mem'.log = Append(mem.log, e) /\ mem'.log \in Seq(LogEntries)
    /\ mem'.history = mem.history /\ mem'.rooms = mem.rooms
    /\ UNCHANGED <<up, disk, writing, clock, mail, inbox, notes>>

LEMMA LogsIs ==
    ASSUME Shape, NEW n \in Nat, up, mem' = [mem EXCEPT !.log = Append(@, Log(n))],
           UNCHANGED <<up, disk, writing, clock, mail, inbox, notes>>
    PROVE  \E e : e.env = n /\ Logs(e)
<1>1. PICK e : e = Log(n)
    OBVIOUS
<1>2. e \in LogEntries /\ e.env = n /\ e.edited = FALSE
    BY <1>1 DEF Log, LogEntries
<1>3. PICK l : l = Append(mem.log, e)
    OBVIOUS
<1>4. l \in Seq(LogEntries)
  <2>1. PICK E : E = LogEntries
      OBVIOUS
  <2>2. l \in Seq(E)
      BY <1>2, <1>3, <2>1, MemParts, AppendProperties
  <2> QED
      BY <2>1, <2>2
<1>5. mem' = [mem EXCEPT !["log"] = l]
    BY <1>1, <1>3
<1>6. /\ mem' \in [Files -> Contents] /\ mem'["log"] = l
      /\ mem'["history"] = mem["history"] /\ mem'["rooms"] = mem["rooms"]
    BY <1>4, <1>5, MemSet, ContentIs DEF Shape, Files
<1> QED
    BY <1>2, <1>3, <1>4, <1>6 DEF Logs

\* The message that was tracked last is logged.
LEMMA RecordIs ==
    ASSUME SaveInv, record_sent
    PROVE  /\ \E e : e.env = Last(mem.history).env /\ Logs(e)
           /\ Saving("record") /\ todo' = Tail(todo) /\ "record" \in Left(todo)
           /\ Last(mem.history) \in Entries
<1>1. up /\ todo # <<>> /\ Head(todo) = "record"
    BY DEF record_sent, Saving
<1>2. "record" \in Left(todo)
    BY <1>1, PlanTail DEF SaveInv, Orderly
<1>3. mem.history # <<>>
    BY <1>2 DEF SaveInv, Orderly
<1>4. mem.history[Len(mem.history)] \in Entries
  <2>1. mem.history \in Seq(Entries) /\ Len(mem.history) \in Nat
      BY MemParts DEF SaveInv
  <2>2. Len(mem.history) # 0
      BY <1>3, <2>1, EmptySeq
  <2>3. Len(mem.history) \in 1..Len(mem.history)
      BY <2>1, <2>2
  <2> QED
      BY <2>3, MemParts DEF SaveInv
<1>5. Last(mem.history) \in Entries /\ Last(mem.history).env \in Nat
    BY <1>4 DEF Last, Entries
<1> QED
    BY <1>1, <1>2, <1>5, LogsIs DEF record_sent, SaveInv, world

\* A message that is received is logged.
LEMMA ReceiveIs ==
    ASSUME Shape, receive_message
    PROVE  /\ \E e : e.env = 0 /\ Logs(e)
           /\ AtPrompt /\ todo' = <<"log">>
BY LogsIs DEF receive_message, AtPrompt

\* One of the tracked messages is changed: not what it is about.
Changed(i, h) ==
    /\ h \in Seq(Entries) /\ Len(h) = Len(mem.history)
    /\ i \in 1..Len(mem.history)
    /\ \A k \in 1..Len(h) : /\ h[k].env = mem.history[k].env
                            /\ h[k].to = mem.history[k].to
                            /\ h[k].ts = mem.history[k].ts
                            /\ k # i => h[k] = mem.history[k]

LEMMA ChangedIs ==
    ASSUME Shape, NEW i \in 1..Len(mem.history), NEW m \in Entries,
           m.env = mem.history[i].env, m.to = mem.history[i].to,
           m.ts = mem.history[i].ts
    PROVE  /\ Changed(i, [mem.history EXCEPT ![i] = m])
           /\ [mem.history EXCEPT ![i] = m][i] = m
<1>1. PICK E : E = Entries
    OBVIOUS
<1>2. PICK g \in Seq(E) : g = mem.history
    BY <1>1, MemParts
<1>3. PICK h : h = [g EXCEPT ![i] = m]
    OBVIOUS
<1>4. /\ h \in Seq(E) /\ Len(h) = Len(g)
      /\ \A k \in 1..Len(g) : h[k] = IF k = i THEN m ELSE g[k]
    BY <1>1, <1>2, <1>3, ExceptSeq
<1>5. Changed(i, h) /\ h[i] = m
    BY <1>1, <1>2, <1>4 DEF Changed
<1> QED
    BY <1>2, <1>3, <1>5

\* An edit marks the tracked message i and the newest logged one.
Edits(i) ==
    /\ AtPrompt /\ Changed(i, mem'.history)
    /\ mem'.history[i].edited /\ mem'.history[i].status = mem.history[i].status
    /\ \/ mail' = mail
       \/ \E e \in Envelopes : e.stage = 1 /\ mail' = Append(mail, e)
    /\ mem' \in [Files -> Contents]
    /\ Marked(mem.log, mem'.log) /\ mem'.rooms = mem.rooms
    /\ todo' = <<"history", "log">>
    /\ ~astray' => /\ ~astray /\ Outgoing(mem.log) # {}
                   /\ mem.log[Max(Outgoing(mem.log))].env = mem.history[i].env
    /\ astray' \in BOOLEAN
    /\ UNCHANGED <<up, disk, writing, clock, inbox, failed, lost, done>>

LEMMA EditsIs ==
    ASSUME Shape, NEW i, edit_message(i)
    PROVE  Edits(i)
<1>1. i \in 1..Len(mem.history) /\ mem.history[i] \in Entries
    BY MemParts DEF edit_message
<1>2. PICK m \in Entries : /\ m = [mem.history[i] EXCEPT !.edited = TRUE]
                           /\ m.env = mem.history[i].env /\ m.to = mem.history[i].to
                           /\ m.ts = mem.history[i].ts /\ m.edited
                           /\ m.status = mem.history[i].status
  <2>1. "Sent" \in Statuses
      BY DEF Statuses
  <2> QED
      BY <1>1, <2>1, EntryIs
<1>3. PICK h : h = [mem.history EXCEPT ![i] = m]
    OBVIOUS
<1>4. Changed(i, h) /\ h[i] = m
    BY <1>1, <1>2, <1>3, ChangedIs
<1>5. PICK l : l = MarkEdited(mem.log)
    OBVIOUS
<1>6. Marked(mem.log, l)
    BY <1>5, MarkEditedIs, MemParts
<1>7. mem' = [mem EXCEPT !["history"] = h, !["log"] = l]
    BY <1>2, <1>3, <1>5 DEF edit_message
<1>8. /\ mem' \in [Files -> Contents] /\ mem'["history"] = h /\ mem'["log"] = l
      /\ mem'["rooms"] = mem["rooms"]
  <2>1. h \in Contents /\ l \in Contents
      BY <1>4, <1>6 DEF Changed, Marked, Contents
  <2>2. mem \in [Files -> Contents]
      BY DEF Shape, MemOK
  <2> QED
      BY <1>7, <2>1, <2>2 DEF Files
<1>9. \/ mail' = mail
      \/ \E e \in Envelopes : e.stage = 1 /\ mail' = Append(mail, e)
  <2>1. ASSUME NEW p \in Peers, Post(p, FALSE)
        PROVE  \E e \in Envelopes : e.stage = 1 /\ mail' = Append(mail, e)
    <3>1. PICK e : e = [to |-> p, ts |-> clock, stage |-> 1, text |-> FALSE]
        OBVIOUS
    <3>2. e \in Envelopes /\ e.stage = 1
        BY <3>1 DEF Envelopes, Shape
    <3> QED
        BY <2>1, <3>1, <3>2 DEF Post
  <2> QED
      BY <2>1 DEF edit_message
<1>10. /\ ~astray' => /\ ~astray /\ Outgoing(mem.log) # {}
                      /\ mem.log[Max(Outgoing(mem.log))].env = mem.history[i].env
       /\ astray' \in BOOLEAN
    BY DEF edit_message, Shape
<1> QED
    BY <1>2, <1>4, <1>6, <1>8, <1>9, <1>10 DEF edit_message, Edits

\* A receipt r sets the tick of the tracked message i.
Ticks(i, r) ==
    /\ Changed(i, mem'.history)
    /\ mem'.history[i].status = r.level
    /\ mem'.history[i].edited = mem.history[i].edited
    /\ mem.history[i].to = r.from /\ mem.history[i].ts = r.ts
    /\ mem' \in [Files -> Contents]
    /\ mem'.log = mem.log /\ mem'.rooms = mem.rooms
    /\ todo' = <<"history">>

LEMMA TicksIs ==
    ASSUME Shape, receive_receipt
    PROVE  /\ inbox # <<>> /\ AtPrompt /\ inbox' = Tail(inbox)
           /\ Head(inbox) \in ReceiptMessages
           /\ \/ UNCHANGED <<mem, todo>>
              \/ \E i : Ticks(i, Head(inbox))
           /\ UNCHANGED <<up, disk, writing, clock, mail, notes>>
<1>1. PICK r : r = Head(inbox)
    OBVIOUS
<1>2. inbox # <<>>
    BY DEF receive_receipt
<1>3. r \in ReceiptMessages
  <2>1. PICK R : R = ReceiptMessages
      OBVIOUS
  <2>2. r \in R
      BY <1>1, <1>2, <2>1, MemParts, HeadTailProperties
  <2> QED
      BY <2>1, <2>2
<1>4. PICK S : S = Matches(r)
    OBVIOUS
<1>5. S \in SUBSET (1..Len(mem.history)) /\ Len(mem.history) \in Nat
    BY <1>4, MemParts DEF Matches
<1>6. ASSUME S # {} PROVE \E i : Ticks(i, r)
  <2>1. PICK i \in S : i = Min(S)
      BY <1>5, <1>6, LeastIs
  <2>2. i \in 1..Len(mem.history) /\ mem.history[i] \in Entries
      BY <1>5, <2>1, MemParts
  <2>3. mem.history[i].to = r.from /\ mem.history[i].ts = r.ts
      BY <1>4, <2>1 DEF Matches
  <2>4. r.level \in Statuses
      BY <1>3 DEF ReceiptMessages
  <2>5. PICK m \in Entries : /\ m = [mem.history[i] EXCEPT !.status = r.level]
                             /\ m.env = mem.history[i].env /\ m.to = mem.history[i].to
                             /\ m.ts = mem.history[i].ts /\ m.status = r.level
                             /\ m.edited = mem.history[i].edited
    <3>1. PICK a \in Entries : a = mem.history[i]
        BY <2>2
    <3>2. PICK st \in Statuses : st = r.level
        BY <2>4
    <3>3. PICK m : m = [a EXCEPT !.status = st]
        OBVIOUS
    <3>4. /\ m \in Entries /\ m.env = a.env /\ m.to = a.to /\ m.ts = a.ts
          /\ m.status = st /\ m.edited = a.edited
        BY <3>3, EntryIs
    <3> QED
        BY <3>1, <3>2, <3>3, <3>4
  <2>6. PICK h : h = [mem.history EXCEPT ![i] = m]
      OBVIOUS
  <2>7. Changed(i, h) /\ h[i] = m
      BY <2>2, <2>5, <2>6, ChangedIs
  <2>8. /\ mem' = [mem EXCEPT !.history[Min(S)].status = r.level]
        /\ todo' = <<"history">>
      BY <1>1, <1>4, <1>6 DEF receive_receipt
  <2>9. mem' = [mem EXCEPT !["history"] = h]
      BY <2>1, <2>5, <2>6, <2>8
  <2>10. h \in Seq(Entries)
      BY <2>7 DEF Changed
  <2>11. /\ mem' \in [Files -> Contents] /\ mem'["history"] = h
         /\ mem'["log"] = mem["log"] /\ mem'["rooms"] = mem["rooms"]
      BY <2>9, <2>10, MemSet, ContentIs DEF Shape, Files
  <2> QED
      BY <2>3, <2>5, <2>7, <2>8, <2>11 DEF Ticks
<1>7. ASSUME S = {} PROVE UNCHANGED <<mem, todo>>
    BY <1>1, <1>4, <1>7 DEF receive_receipt
<1> QED
    BY <1>1, <1>2, <1>3, <1>6, <1>7 DEF receive_receipt

\* The mail after a step: envelopes keep what they are, and their stages rise.
Later(old, new) ==
    /\ new \in Seq(Envelopes) /\ Len(old) \in Nat /\ Len(new) \in Nat
    /\ Len(old) =< Len(new)
    /\ \A n \in 1..Len(old) :
         /\ new[n].to = old[n].to /\ new[n].ts = old[n].ts
         /\ new[n].text = old[n].text /\ old[n].stage =< new[n].stage
         /\ old[n] \in Envelopes

\* Receipt r is for the envelope n of the mail b.
Backs(n, r, b) ==
    /\ n \in 1..Len(b)
    /\ b[n].to = r.from /\ b[n].ts = r.ts /\ Rank(r.level) =< b[n].stage

\* The peers' steps: receipts are added, each with an envelope behind it.
Answers ==
    /\ Later(mail, mail') /\ Len(mail') = Len(mail)
    /\ inbox' \in Seq(ReceiptMessages)
    /\ \A k \in 1..Len(inbox') :
         \/ k \in 1..Len(inbox) /\ inbox'[k] = inbox[k]
         \/ \E n : Backs(n, inbox'[k], mail')

LEMMA ReceiptIs ==
    ASSUME Shape, NEW n \in 1..Len(mail), NEW level \in {2, 3}
    PROVE  /\ Receipt(n, level) \in ReceiptMessages
           /\ Receipt(n, level).from = mail[n].to
           /\ Receipt(n, level).ts = mail[n].ts
           /\ Rank(Receipt(n, level).level) = level
<1>1. mail[n] \in Envelopes
    BY MemParts
<1>2. Levels[2] = "Delivered" /\ Levels[3] = "Read"
    BY DEF Levels
<1>3. Levels[level] \in Statuses /\ Rank(Levels[level]) = level
    BY <1>2, RankIs DEF Statuses
<1> QED
    BY <1>1, <1>3 DEF Receipt, ReceiptMessages, Envelopes

LEMMA StagedIs ==
    ASSUME NEW e \in Envelopes, NEW s \in 1..3
    PROVE  /\ [e EXCEPT !.stage = s] \in Envelopes
           /\ [e EXCEPT !.stage = s].to = e.to /\ [e EXCEPT !.stage = s].ts = e.ts
           /\ [e EXCEPT !.stage = s].text = e.text
           /\ [e EXCEPT !.stage = s].stage = s
BY DEF Envelopes

LEMMA FetchIs ==
    ASSUME Shape, NEW p, peer_fetches(p)
    PROVE  Answers
<1>1. PICK B : B = {n \in DOMAIN mail : mail[n].to = p /\ mail[n].stage = 1}
    OBVIOUS
<1>2. /\ B \in SUBSET (1..Len(mail)) /\ Len(mail) \in Nat
      /\ \A n \in B : mail[n].stage = 1
    BY <1>1, MemParts
<1>3. /\ mail' = [n \in DOMAIN mail |->
                    IF n \in B THEN [mail[n] EXCEPT !.stage = 2] ELSE mail[n]]
      /\ inbox' = inbox \o [k \in 1..Cardinality(B) |-> Receipt(Nth(B, k), 2)]
    BY <1>1 DEF peer_fetches
<1>4. \A n \in 1..Len(mail) :
        /\ mail[n] \in Envelopes
        /\ mail'[n] = IF n \in B THEN [mail[n] EXCEPT !.stage = 2] ELSE mail[n]
    BY <1>3, MemParts
<1>5. ASSUME NEW n \in 1..Len(mail)
      PROVE  /\ mail'[n] \in Envelopes /\ mail[n] \in Envelopes
             /\ mail'[n].to = mail[n].to /\ mail'[n].ts = mail[n].ts
             /\ mail'[n].text = mail[n].text /\ mail[n].stage =< mail'[n].stage
             /\ n \in B => mail'[n].stage = 2
  <2>1. mail[n] \in Envelopes /\ mail[n].stage \in 1..3
      BY <1>4 DEF Envelopes
  <2>2. CASE n \in B
    <3>1. mail'[n] = [mail[n] EXCEPT !.stage = 2] /\ mail[n].stage = 1
        BY <1>2, <1>4, <2>2
    <3>2. PICK a \in Envelopes : a = mail[n]
        BY <2>1
    <3>3. PICK b : b = [a EXCEPT !.stage = 2]
        OBVIOUS
    <3>4. /\ b \in Envelopes /\ b.to = a.to /\ b.ts = a.ts /\ b.text = a.text
          /\ b.stage = 2
      <4>1. 2 \in 1..3
          OBVIOUS
      <4> QED
          BY <3>3, <4>1, StagedIs
    <3>5. mail'[n] = b /\ a.stage = 1
        BY <3>1, <3>2, <3>3
    <3> QED
        BY <3>2, <3>4, <3>5
  <2>3. CASE n \notin B
    <3>1. mail'[n] = mail[n]
        BY <1>4, <2>3
    <3> QED
        BY <2>1, <2>3, <3>1
  <2> QED
      BY <2>2, <2>3
<1>6. Later(mail, mail') /\ Len(mail') = Len(mail)
  <2>1. PICK M : M = Envelopes
      OBVIOUS
  <2>2. PICK b : b = mail'
      OBVIOUS
  <2>3. DOMAIN mail = 1..Len(mail)
      BY MemParts
  <2>4. b \in [1..Len(mail) -> M]
      BY <1>3, <1>5, <2>1, <2>2, <2>3
  <2>5. b \in Seq(M) /\ Len(b) = Len(mail)
      BY <1>2, <2>4
  <2> QED
      BY <1>2, <1>5, <2>1, <2>2, <2>5 DEF Later
<1>7. PICK c : c = Cardinality(B)
    OBVIOUS
<1>8. c \in Nat
  <2>1. IsFiniteSet(1..Len(mail))
      BY <1>2, FS_Interval
  <2> QED
      BY <1>2, <1>7, <2>1, FS_Subset, FS_CardinalityType
<1>9. PICK rs : rs = [k \in 1..c |-> Receipt(Nth(B, k), 2)]
    OBVIOUS
<1>10. ASSUME NEW k \in 1..c
       PROVE  rs[k] \in ReceiptMessages /\ \E n : Backs(n, rs[k], mail')
  <2>1. PICK n \in B : n = Nth(B, k)
      BY <1>2, <1>7, <1>10, NthIs
  <2>2. n \in 1..Len(mail) /\ rs[k] = Receipt(n, 2)
      BY <1>2, <1>9, <2>1
  <2>3. /\ rs[k] \in ReceiptMessages /\ rs[k].from = mail[n].to
        /\ rs[k].ts = mail[n].ts /\ Rank(rs[k].level) = 2
      BY <2>2, ReceiptIs
  <2>4. Backs(n, rs[k], mail')
      BY <1>5, <1>6, <2>1, <2>2, <2>3 DEF Backs
  <2> QED
      BY <2>3, <2>4
<1>11. PICK R : R = ReceiptMessages
    OBVIOUS
<1>12. rs \in Seq(R) /\ Len(rs) = c
  <2>1. rs \in [1..c -> R]
      BY <1>9, <1>10, <1>11
  <2> QED
      BY <1>8, <2>1
<1>13. inbox \in Seq(R) /\ Len(inbox) \in Nat /\ inbox' = inbox \o rs
    BY <1>3, <1>7, <1>9, <1>11, MemParts
<1>14. /\ inbox' \in Seq(R) /\ Len(inbox') = Len(inbox) + c
       /\ \A k \in 1..(Len(inbox) + c) :
            inbox'[k] = IF k =< Len(inbox) THEN inbox[k] ELSE rs[k - Len(inbox)]
    BY <1>12, <1>13, ConcatProperties
<1>15. ASSUME NEW k \in 1..Len(inbox')
       PROVE  \/ k \in 1..Len(inbox) /\ inbox'[k] = inbox[k]
              \/ \E n : Backs(n, inbox'[k], mail')
  <2>1. CASE k =< Len(inbox)
      BY <1>13, <1>14, <2>1
  <2>2. CASE ~(k =< Len(inbox))
    <3>0. k \in 1..(Len(inbox) + c) /\ Len(inbox) \in Nat
        BY <1>13, <1>14
    <3>1. PICK i \in 1..c : i = k - Len(inbox)
      <4>1. PICK l \in Nat : l = Len(inbox)
          BY <3>0
      <4>2. k \in 1..(l + c) /\ ~(k =< l)
          BY <2>2, <3>0, <4>1
      <4>3. k - l \in 1..c
          BY <1>8, <4>2
      <4> QED
          BY <4>1, <4>3
    <3>2. inbox'[k] = rs[i]
        BY <1>14, <2>2, <3>1
    <3> QED
        BY <1>10, <3>2
  <2> QED
      BY <2>1, <2>2
<1> QED
    BY <1>6, <1>11, <1>14, <1>15 DEF Answers

LEMMA ReadIs ==
    ASSUME Shape, NEW n, peer_reads(n)
    PROVE  Answers
<1>1. n \in 1..Len(mail) /\ mail[n].stage = 2 /\ Len(mail) \in Nat
    BY MemParts DEF peer_reads
<1>2. PICK M, R : M = Envelopes /\ R = ReceiptMessages
    OBVIOUS
<1>3. mail \in Seq(M) /\ inbox \in Seq(R) /\ Len(inbox) \in Nat
    BY <1>2, MemParts
<1>4. \A k \in 1..Len(mail) : mail[k] \in Envelopes /\ mail[k].stage \in 1..3
    BY MemParts DEF Envelopes
<1>5. PICK e \in M : /\ e = [mail[n] EXCEPT !.stage = 3] /\ e.to = mail[n].to
                     /\ e.ts = mail[n].ts /\ e.text = mail[n].text /\ e.stage = 3
  <2>1. PICK a \in Envelopes : a = mail[n]
      BY <1>1, <1>4
  <2>2. PICK e : e = [a EXCEPT !.stage = 3]
      OBVIOUS
  <2>3. e \in Envelopes /\ e.to = a.to /\ e.ts = a.ts /\ e.text = a.text /\ e.stage = 3
    <3>1. 3 \in 1..3
        OBVIOUS
    <3> QED
        BY <2>2, <3>1, StagedIs
  <2> QED
      BY <1>2, <2>1, <2>2, <2>3
<1>6. mail' = [mail EXCEPT ![n] = e]
    BY <1>5 DEF peer_reads
<1>7. /\ mail' \in Seq(M) /\ Len(mail') = Len(mail)
      /\ \A k \in 1..Len(mail) : mail'[k] = IF k = n THEN e ELSE mail[k]
    BY <1>1, <1>3, <1>5, <1>6, ExceptSeq
<1>8. ASSUME NEW k \in 1..Len(mail)
      PROVE  /\ mail'[k].to = mail[k].to /\ mail'[k].ts = mail[k].ts
             /\ mail'[k].text = mail[k].text /\ mail[k].stage =< mail'[k].stage
             /\ mail[k] \in Envelopes
  <2>1. CASE k = n
    <3>1. mail'[k] = e /\ mail[k].stage = 2
        BY <1>1, <1>7, <2>1
    <3> QED
        BY <1>4, <1>5, <2>1, <3>1
  <2>2. CASE k # n
      BY <1>4, <1>7, <2>2
  <2> QED
      BY <2>1, <2>2
<1>9. Later(mail, mail') /\ Len(mail') = Len(mail)
    BY <1>1, <1>2, <1>7, <1>8 DEF Later
<1>10. PICK r : r = Receipt(n, 3)
    OBVIOUS
<1>11. r \in R /\ r.from = mail[n].to /\ r.ts = mail[n].ts /\ Rank(r.level) = 3
    BY <1>1, <1>2, <1>10, ReceiptIs
<1>12. Backs(n, r, mail')
  <2>1. mail'[n] = e /\ n \in 1..Len(mail')
      BY <1>1, <1>7
  <2>2. e.stage = 3 /\ e.to = r.from /\ e.ts = r.ts
      BY <1>5, <1>11
  <2> QED
      BY <1>11, <2>1, <2>2 DEF Backs
<1>13. inbox' = Append(inbox, r)
    BY <1>10 DEF peer_reads
<1>14. /\ inbox' \in Seq(R) /\ Len(inbox') = Len(inbox) + 1
       /\ \A k \in 1..Len(inbox) : inbox'[k] = inbox[k]
       /\ inbox'[Len(inbox) + 1] = r
    BY <1>3, <1>11, <1>13, AppendProperties
<1>15. ASSUME NEW k \in 1..Len(inbox')
       PROVE  \/ k \in 1..Len(inbox) /\ inbox'[k] = inbox[k]
              \/ \E j : Backs(j, inbox'[k], mail')
  <2>1. k \in 1..Len(inbox) \/ k = Len(inbox) + 1
      BY <1>3, <1>14
  <2> QED
      BY <1>12, <1>14, <2>1
<1> QED
    BY <1>2, <1>9, <1>14, <1>15 DEF Answers
-----------------------------------------------------------------------------
(***************************************************************************)
(* What is saved.                                                          *)
(***************************************************************************)
\* Memory changes and the files do not.
LEMMA MemNow ==
    ASSUME MemOK, mem' \in [Files -> Contents], disk' = disk,
           mem'.history \in Seq(Entries), mem'.log \in Seq(LogEntries),
           mem'.rooms \in SUBSET Rooms
    PROVE  MemOK'
<1>1. ASSUME NEW f \in Files PROVE mem'[f] \in Content(f) /\ Load(f)' \in Content(f)
  <2>1. Load(f)' = Load(f) /\ Load(f) \in Content(f)
      BY LoadSame DEF MemOK
  <2>2. mem'[f] \in Content(f)
      BY ContentIs DEF Files
  <2> QED
      BY <2>1, <2>2
<1>2. disk' \in [Files -> Seq(Contents)]
    BY DEF MemOK
<1>3. ASSUME NEW f \in Files PROVE (mem[f] \in Content(f) /\ Load(f) \in Content(f))'
    BY <1>1 DEF Content
<1> QED
    BY <1>2, <1>3 DEF MemOK

\* Each of memory's parts is replaced by what is saved or by nothing.
LEMMA MemCopied ==
    ASSUME MemOK, mem' = [f \in Files |-> mem'[f]], disk' = disk,
           \A f \in Files : mem'[f] \in {Load(f), Empty(f)}
    PROVE  MemOK'
<1>1. ASSUME NEW f \in Files PROVE mem'[f] \in Content(f) /\ mem'[f] \in Contents
  <2>1. mem'[f] \in {Load(f), Empty(f)}
      OBVIOUS
  <2>2. Load(f) \in Content(f) /\ Empty(f) \in Content(f)
        /\ Content(f) \subseteq Contents
      BY ContentIs DEF MemOK
  <2> QED
      BY <2>1, <2>2
<1>2. mem' \in [Files -> Contents]
    BY <1>1
<1>3. /\ mem'.history \in Seq(Entries) /\ mem'.log \in Seq(LogEntries)
      /\ mem'.rooms \in SUBSET Rooms
    BY <1>1, ContentIs DEF Files
<1> QED
    BY <1>2, <1>3, MemNow

\* One file is written, to x.
LEMMA DiskSet ==
    ASSUME MemOK, NEW f \in Files, NEW x \in Seq(Contents),
           disk' = [disk EXCEPT ![f] = x], mem' = mem,
           x = <<>> \/ x = <<mem[f]>>
    PROVE  /\ MemOK'
           /\ Load(f)' = IF x = <<>> THEN Empty(f) ELSE mem[f]
           /\ \A g \in Files : g # f => Load(g)' = Load(g)
<1>1. disk' \in [Files -> Seq(Contents)] /\ disk'[f] = x
    BY DEF MemOK
<1>2. \A g \in Files : g # f => disk'[g] = disk[g]
    BY DEF MemOK
<1>3. \A g \in Files : g # f => Load(g)' = Load(g)
    BY <1>2, LoadSame
<1>4. Load(f)' = IF x = <<>> THEN Empty(f) ELSE mem[f]
  <2>1. Load(f)' = IF x = <<>> THEN Empty(f) ELSE x[1]
      BY <1>1 DEF Load, Empty
  <2>2. x # <<>> => x[1] = mem[f]
      OBVIOUS
  <2> QED
      BY <2>1, <2>2
<1>5. ASSUME NEW g \in Files PROVE (mem[g] \in Content(g) /\ Load(g) \in Content(g))'
  <2>1. mem[g] \in Content(g) /\ Load(g) \in Content(g) /\ Empty(g) \in Content(g)
      BY ContentIs DEF MemOK
  <2>2. mem'[g] = mem[g] /\ Load(g)' \in {Load(g), mem[g], Empty(g)}
      BY <1>3, <1>4
  <2>3. mem'[g] \in Content(g) /\ Load(g)' \in Content(g)
      BY <2>1, <2>2
  <2> QED
      BY <2>3 DEF Content
<1> QED
    BY <1>1, <1>3, <1>4, <1>5 DEF MemOK

\* The process ends: nothing is in memory.
Ends ==
    /\ up' = FALSE /\ todo' = <<>> /\ writing' = FALSE /\ failed' = {}
    /\ mem' = [f \in Files |-> Empty(f)]
    /\ disk' = disk

LEMMA EndsKeeps ==
    ASSUME SaveInv, Ends
    PROVE  MemOK' /\ Orderly' /\ Kept'
<1>1. MemOK'
  <2>1. /\ mem' = [f \in Files |-> mem'[f]]
        /\ \A f \in Files : mem'[f] \in {Load(f), Empty(f)}
      BY DEF Ends
  <2> QED
      BY <2>1, MemCopied DEF SaveInv, Shape, Ends
<1>2. Orderly' /\ Kept'
    BY PlansAre DEF Ends, Orderly, Kept
<1> QED
    BY <1>1, <1>2

\* A command changes memory and saves what it changed.
LEMMA CommandKeeps ==
    ASSUME SaveInv, AtPrompt, MemOK', disk' = disk, up' = up, writing' = writing,
           failed' = failed, Planned(todo'),
           "record" \in Left(todo') \/ "sent" \in Left(todo') => mem'.history # <<>>,
           \A f \in Files : mem'[f] = mem[f] \/ f \in Left(todo')
    PROVE  Orderly' /\ Kept'
<1>1. up /\ ~writing
    BY DEF AtPrompt, SaveInv, Orderly
<1>2. Orderly'
    BY <1>1 DEF Orderly, Left, Planned
<1>3. ASSUME NEW f \in Files \ failed'
      PROVE  f \in Left(todo') \/ Load(f)' = mem'[f]
  <2>1. Load(f)' = Load(f)
      BY LoadSame
  <2>2. Left(todo) = {}
      BY PlansAre DEF AtPrompt
  <2>3. Load(f) = mem[f]
      BY <1>1, <2>2 DEF SaveInv, Kept
  <2> QED
      BY <2>1, <2>3
<1>4. Kept'
    BY <1>3 DEF Kept, Left
<1> QED
    BY <1>2, <1>4

LEMMA SaveStep == SaveInv /\ [Next]_vars => SaveInv'
<1> SUFFICES ASSUME SaveInv, [Next]_vars PROVE SaveInv'
    OBVIOUS
<1> DEFINE Goal == SaveInv'
           World0 == UNCHANGED <<clock, mail, inbox>>
<1>0. Shape /\ MemOK /\ Orderly /\ Kept
    BY DEF SaveInv, Shape
<1>a. ASSUME MemOK', up' \in BOOLEAN, writing' \in BOOLEAN, astray' \in BOOLEAN, World0
      PROVE  Shape'
    BY <1>0, <1>a DEF Shape
<1>1. ASSUME start PROVE Goal
  <2>1. /\ ~up /\ up' = TRUE /\ mem' = [f \in Files |-> Load(f)] /\ disk' = disk
        /\ todo' = todo /\ writing' = writing /\ failed' = failed /\ astray' = astray
        /\ World0
      BY <1>1 DEF start, world, notes
  <2>2. /\ mem' = [f \in Files |-> mem'[f]]
        /\ \A f \in Files : mem'[f] \in {Load(f), Empty(f)}
      BY <2>1
  <2>3. MemOK'
      BY <1>0, <2>1, <2>2, MemCopied
  <2>4. Shape'
      BY <1>0, <1>a, <2>1, <2>3 DEF Shape
  <2>5. todo = <<>> /\ ~writing
      BY <1>0, <2>1 DEF Orderly
  <2>6. Left(<<>>) = {} /\ Planned(<<>>)
      BY PlansAre
  <2>7. Orderly'
      BY <2>1, <2>5, <2>6 DEF Orderly
  <2>8. \A f \in Files : Load(f)' = mem'[f]
      BY <2>1, LoadSame
  <2>9. Kept'
      BY <2>8 DEF Kept
  <2> QED
      BY <2>4, <2>7, <2>9 DEF SaveInv
<1>2. ASSUME crash PROVE Goal
  <2>1. Ends /\ clock' = clock /\ mail' = mail /\ astray' \in BOOLEAN
      BY <1>2 DEF crash, Ends
  <2>2. MemOK' /\ Orderly' /\ Kept'
      BY <2>1, EndsKeeps
  <2>3. PICK batch \in 0..Len(inbox) : inbox' = SubSeq(inbox, batch + 1, Len(inbox))
      BY <1>2 DEF crash
  <2>4. inbox' \in Seq(ReceiptMessages)
    <3>1. PICK R : R = ReceiptMessages
        OBVIOUS
    <3>2. inbox \in Seq(R) /\ Len(inbox) \in Nat
        BY <1>0, <3>1, MemParts
    <3>3. batch + 1 \in Int /\ Len(inbox) \in Int
        BY <3>2
    <3>4. \A i \in (batch + 1)..Len(inbox) : i \in 1..Len(inbox)
        BY <3>2
    <3>5. SubSeq(inbox, batch + 1, Len(inbox)) \in Seq(R)
        BY <3>2, <3>3, <3>4, SubSeqProperties
    <3> QED
        BY <2>3, <3>1, <3>5
  <2>5. Shape'
      BY <1>0, <2>1, <2>2, <2>4 DEF Shape, Ends
  <2> QED
      BY <2>2, <2>5 DEF SaveInv
<1>3. ASSUME exit PROVE Goal
  <2>1. ~writing
      BY <1>0, <1>3 DEF exit, Saving, Orderly, Files
  <2>2. Ends /\ World0 /\ astray' = astray
      BY <1>3, <2>1 DEF exit, Ends, world, Shape
  <2>3. MemOK' /\ Orderly' /\ Kept'
      BY <2>2, EndsKeeps
  <2>4. Shape'
      BY <1>0, <1>a, <2>2, <2>3 DEF Shape, Ends
  <2> QED
      BY <2>3, <2>4 DEF SaveInv
<1>4. ASSUME NEW quit \in BOOLEAN, save_all(quit) PROVE Goal
  <2>1. /\ AtPrompt /\ UNCHANGED <<up, mem, disk, writing, failed, astray>> /\ World0
        /\ todo' = Append(All, "exit") \/ todo' = All
      BY <1>4 DEF save_all, world, notes
  <2>2. MemOK'
    <3>1. mem' \in [Files -> Contents] /\ disk' = disk /\ mem' = mem
        BY <1>0, <2>1 DEF MemOK
    <3> QED
        BY <1>0, <3>1, MemParts, MemNow
  <2>3. /\ Planned(todo') /\ "record" \notin Left(todo') /\ "sent" \notin Left(todo')
    <3>1. Left(todo') = Files \/ Left(todo') = Files \cup {"exit"}
        BY <2>1, PlansAre
    <3> QED
        BY <2>1, <3>1, PlansAre DEF Files
  <2>4. Orderly' /\ Kept'
      BY <2>1, <2>2, <2>3, CommandKeeps
  <2>5. Shape'
      BY <1>0, <1>a, <2>1, <2>2 DEF Shape
  <2> QED
      BY <2>4, <2>5 DEF SaveInv
<1>b. ASSUME NEW f \in Files, Saving(f)
      PROVE  /\ up /\ todo # <<>> /\ Head(todo) = f
             /\ Left(todo) = {f} \cup Left(Tail(todo)) /\ Planned(Tail(todo))
    BY <1>0, <1>b, PlanTail DEF Saving, Orderly
<1>5. ASSUME NEW f \in Files, truncate(f) PROVE Goal
  <2>1. /\ Saving(f) /\ writing' = TRUE /\ disk' = [disk EXCEPT ![f] = <<>>]
        /\ UNCHANGED <<up, mem, todo, failed, astray>> /\ World0
      BY <1>5 DEF truncate, world, notes
  <2>2. <<>> \in Seq(Contents)
      BY EmptySeq
  <2>3. MemOK' /\ \A g \in Files : g # f => Load(g)' = Load(g)
      BY <1>0, <2>1, <2>2, DiskSet
  <2>4. Shape'
      BY <1>0, <1>a, <2>1, <2>3 DEF Shape
  <2>5. Orderly'
      BY <1>0, <1>b, <2>1 DEF Orderly, Planned, Left
  <2>6. ASSUME NEW g \in Files \ failed' PROVE g \in Left(todo') \/ Load(g)' = mem'[g]
    <3>1. g \in Left(todo) \/ Load(g) = mem[g]
        BY <1>0, <1>b, <2>1, <2>6 DEF Kept
    <3>2. f \in Left(todo)
        BY <1>b, <2>1
    <3> QED
        BY <2>1, <2>3, <3>1, <3>2
  <2>7. Kept'
      BY <2>6 DEF Kept, Left
  <2> QED
      BY <2>4, <2>5, <2>7 DEF SaveInv
<1>6. ASSUME NEW f \in Files, fill(f) PROVE Goal
  <2>1. /\ Saving(f) /\ writing' = FALSE /\ todo' = Tail(todo)
        /\ disk' = [disk EXCEPT ![f] = <<mem[f]>>] /\ failed' = failed \ {f}
        /\ UNCHANGED <<up, mem, astray>> /\ World0
      BY <1>6 DEF fill, world
  <2>2. <<mem[f]>> \in Seq(Contents) /\ <<mem[f]>> # <<>>
    <3>1. PICK x \in Contents : x = mem[f]
        BY <1>0 DEF MemOK
    <3>2. <<x>> \in Seq(Contents) /\ <<x>> # <<>>
        OBVIOUS
    <3> QED
        BY <3>1, <3>2
  <2>3. /\ MemOK' /\ Load(f)' = mem[f]
        /\ \A g \in Files : g # f => Load(g)' = Load(g)
      BY <1>0, <2>1, <2>2, DiskSet
  <2>4. Shape'
      BY <1>0, <1>a, <2>1, <2>3 DEF Shape
  <2>5. Orderly'
    <3>1. Planned(todo') /\ Left(todo') \subseteq Left(todo) /\ up' /\ ~writing'
        BY <1>b, <2>1
    <3> QED
        BY <1>0, <2>1, <3>1 DEF Orderly, Planned, Left
  <2>6. ASSUME NEW g \in Files \ failed' PROVE g \in Left(todo') \/ Load(g)' = mem'[g]
    <3>1. CASE g = f
        BY <2>1, <2>3, <3>1
    <3>2. CASE g # f
      <4>1. g \in Left(todo) \/ Load(g) = mem[g]
          BY <1>0, <1>b, <2>1, <2>6, <3>2 DEF Kept
      <4> QED
          BY <1>b, <2>1, <2>3, <3>2, <4>1
    <3> QED
        BY <3>1, <3>2
  <2>7. Kept'
      BY <2>6 DEF Kept, Left
  <2> QED
      BY <2>4, <2>5, <2>7 DEF SaveInv
<1>7. ASSUME NEW f \in Files, write_fails(f) PROVE Goal
  <2>1. /\ Saving(f) /\ writing' = FALSE /\ todo' = Tail(todo)
        /\ failed' = failed \cup {f}
        /\ UNCHANGED <<up, mem, disk, astray>> /\ World0
      BY <1>7 DEF write_fails, world
  <2>2. MemOK'
    <3>1. mem' \in [Files -> Contents] /\ disk' = disk /\ mem' = mem
        BY <1>0, <2>1 DEF MemOK
    <3> QED
        BY <1>0, <3>1, MemParts, MemNow
  <2>4. Shape'
      BY <1>0, <1>a, <2>1, <2>2 DEF Shape
  <2>5. Orderly'
    <3>1. Planned(todo') /\ Left(todo') \subseteq Left(todo) /\ up' /\ ~writing'
        BY <1>b, <2>1
    <3> QED
        BY <1>0, <2>1, <3>1 DEF Orderly, Planned, Left
  <2>6. ASSUME NEW g \in Files \ failed' PROVE g \in Left(todo') \/ Load(g)' = mem'[g]
    <3>1. g # f /\ g \notin failed
        BY <2>1
    <3>2. g \in Left(todo) \/ Load(g) = mem[g]
        BY <1>0, <1>b, <2>1, <3>1 DEF Kept
    <3>3. Load(g)' = Load(g)
        BY <2>1, LoadSame
    <3> QED
        BY <1>b, <2>1, <3>1, <3>2, <3>3
  <2>7. Kept'
      BY <2>6 DEF Kept, Left
  <2> QED
      BY <2>4, <2>5, <2>7 DEF SaveInv
<1>8. ASSUME NEW r \in Rooms, change_rooms(r) PROVE Goal
  <2>1. /\ AtPrompt /\ UNCHANGED <<up, disk, writing, failed, astray>> /\ World0
        /\ todo' = <<"rooms">>
      BY <1>8 DEF change_rooms, world, notes
  <2>2. PICK x \in SUBSET Rooms : mem' = [mem EXCEPT !["rooms"] = x]
    <3>1. mem.rooms \in SUBSET Rooms
        BY <1>0, MemParts
    <3>2. PICK x : x = IF r \in mem.rooms THEN mem.rooms \ {r} ELSE mem.rooms \cup {r}
        OBVIOUS
    <3>3. x \in SUBSET Rooms
        BY <3>1, <3>2
    <3>4. mem' = [mem EXCEPT !["rooms"] = x]
        BY <1>8, <3>2 DEF change_rooms
    <3> QED
        BY <3>3, <3>4
  <2>3. /\ mem' \in [Files -> Contents] /\ mem'["rooms"] = x
        /\ mem'["history"] = mem["history"] /\ mem'["log"] = mem["log"]
      BY <1>0, <2>2, MemSet, ContentIs DEF Files
  <2>4. MemOK'
      BY <1>0, <2>1, <2>3, MemParts, MemNow
  <2>5. /\ Planned(todo') /\ Left(todo') = {"rooms"}
      BY <2>1, PlansAre
  <2>6. Orderly' /\ Kept'
      BY <2>1, <2>3, <2>4, <2>5, CommandKeeps DEF Files
  <2>7. Shape'
      BY <1>0, <1>a, <2>1, <2>4 DEF Shape
  <2> QED
      BY <2>6, <2>7 DEF SaveInv
<1>9. ASSUME NEW m, NEW e, Sends(m, e) PROVE Goal
  <2>1. /\ AtPrompt /\ UNCHANGED <<up, disk, writing, inbox, failed, astray>>
        /\ mem' \in [Files -> Contents] /\ mem'.history \in Seq(Entries)
        /\ mem'.history = Append(mem.history, m)
        /\ mem'.log = mem.log /\ mem'.rooms = mem.rooms
        /\ mail' = Append(mail, e) /\ e \in Envelopes /\ clock' \in Nat
      BY <1>9 DEF Sends, notes
  <2>2. MemOK'
      BY <1>0, <2>1, MemParts, MemNow
  <2>3. mail' \in Seq(Envelopes)
    <3>1. PICK M : M = Envelopes
        OBVIOUS
    <3>2. mail' \in Seq(M)
        BY <1>0, <2>1, <3>1, MemParts, AppendProperties
    <3> QED
        BY <3>1, <3>2
  <2>4. Planned(todo') /\ "history" \in Left(todo')
      BY <1>9, PlansAre DEF Sends
  <2>5. mem'.history # <<>>
    <3>1. PICK h : h = mem.history
        OBVIOUS
    <3>2. Len(h) \in Nat /\ Len(Append(h, m)) = Len(h) + 1
        BY <1>0, <1>9, <3>1, MemParts, AppendProperties DEF Sends
    <3>3. Len(<<>>) = 0
        OBVIOUS
    <3>4. Len(mem'.history) # 0
        BY <2>1, <3>1, <3>2
    <3> QED
        BY <3>3, <3>4
  <2>6. Orderly' /\ Kept'
      BY <2>1, <2>2, <2>4, <2>5, CommandKeeps DEF Files
  <2>7. Shape'
      BY <1>0, <2>1, <2>2, <2>3 DEF Shape
  <2> QED
      BY <2>6, <2>7 DEF SaveInv
<1>c. ASSUME NEW e, Logs(e) PROVE MemOK' /\ Shape'
  <2>1. MemOK'
      BY <1>0, <1>c, MemParts, MemNow DEF Logs
  <2> QED
      BY <1>0, <1>a, <1>c, <2>1 DEF Logs, Shape, notes
<1>10. ASSUME record_sent PROVE Goal
  <2>1. PICK e : Logs(e)
      BY <1>10, RecordIs
  <2>2. MemOK' /\ Shape'
      BY <1>c, <2>1
  <2>3. Saving("record") /\ todo' = Tail(todo)
      BY <1>10, RecordIs
  <2>4. up /\ todo # <<>> /\ Head(todo) = "record" /\ ~writing
      BY <1>0, <2>3 DEF Saving, Orderly, Files
  <2>5. /\ Planned(todo') /\ Left(todo) = {"record"} \cup Left(todo')
        /\ "log" \in Left(todo')
      BY <1>0, <2>3, <2>4, PlanTail DEF Orderly
  <2>6. UNCHANGED <<up, disk, writing, failed>> /\ mem'.history = mem.history
        /\ mem'.rooms = mem.rooms
      BY <2>1 DEF Logs, notes
  <2>7. Orderly'
      BY <1>0, <2>4, <2>5, <2>6 DEF Orderly, Planned, Left
  <2>8. ASSUME NEW g \in Files \ failed' PROVE g \in Left(todo') \/ Load(g)' = mem'[g]
    <3>1. Load(g)' = Load(g)
        BY <2>6, LoadSame
    <3>2. CASE g = "log"
        BY <2>5, <3>2
    <3>3. CASE g # "log"
      <4>1. mem'[g] = mem[g] /\ g # "record"
          BY <2>6, <3>3 DEF Files
      <4>2. g \in Left(todo) \/ Load(g) = mem[g]
          BY <1>0, <2>4, <2>6, <2>8 DEF Kept
      <4> QED
          BY <2>5, <3>1, <4>1, <4>2
    <3> QED
        BY <3>2, <3>3
  <2>9. Kept'
      BY <2>8 DEF Kept, Left
  <2> QED
      BY <2>2, <2>7, <2>9 DEF SaveInv
<1>11. ASSUME report_sent PROVE Goal
  <2>1. /\ Saving("sent") /\ todo' = Tail(todo)
        /\ UNCHANGED <<up, mem, disk, writing, failed, astray>> /\ World0
      BY <1>11 DEF report_sent, world
  <2>2. MemOK'
    <3>1. mem' \in [Files -> Contents] /\ disk' = disk /\ mem' = mem
        BY <1>0, <2>1 DEF MemOK
    <3> QED
        BY <1>0, <3>1, MemParts, MemNow
  <2>3. up /\ todo # <<>> /\ Head(todo) = "sent" /\ ~writing
      BY <1>0, <2>1 DEF Saving, Orderly, Files
  <2>4. todo' = <<>> /\ Left(todo) = {"sent"} \cup Left(todo')
      BY <1>0, <2>1, <2>3, PlanTail DEF Orderly
  <2>5. Left(todo') = {} /\ Planned(todo')
      BY <2>4, PlansAre
  <2>6. Orderly'
      BY <2>1, <2>3, <2>4, <2>5 DEF Orderly, Planned, Left
  <2>7. ASSUME NEW g \in Files \ failed' PROVE Load(g)' = mem'[g]
    <3>1. Load(g)' = Load(g)
        BY <2>1, LoadSame
    <3>2. g \notin Left(todo)
        BY <2>4, <2>5 DEF Files
    <3>3. Load(g) = mem[g]
        BY <1>0, <2>1, <2>3, <3>2 DEF Kept
    <3> QED
        BY <2>1, <3>1, <3>3
  <2>8. Kept'
      BY <2>7 DEF Kept
  <2>9. Shape'
      BY <1>0, <1>a, <2>1, <2>2 DEF Shape
  <2> QED
      BY <2>6, <2>8, <2>9 DEF SaveInv
<1>12. ASSUME NEW i, edit_message(i) PROVE Goal
  <2>1. Edits(i)
      BY <1>0, <1>12, EditsIs
  <2>2. /\ AtPrompt /\ UNCHANGED <<up, disk, writing, clock, inbox, failed>>
        /\ mem' \in [Files -> Contents] /\ mem'.history \in Seq(Entries)
        /\ mem'.log \in Seq(LogEntries) /\ mem'.rooms = mem.rooms
        /\ todo' = <<"history", "log">> /\ astray' \in BOOLEAN
      BY <2>1 DEF Edits, Changed, Marked
  <2>3. MemOK'
      BY <1>0, <2>2, MemParts, MemNow
  <2>4. mail' \in Seq(Envelopes)
    <3>1. PICK M : M = Envelopes
        OBVIOUS
    <3>2. mail \in Seq(M)
        BY <1>0, <3>1, MemParts
    <3>3. mail' = mail \/ \E e \in M : mail' = Append(mail, e)
        BY <2>1, <3>1 DEF Edits
    <3>4. mail' \in Seq(M)
        BY <3>2, <3>3, AppendProperties
    <3> QED
        BY <3>1, <3>4
  <2>5. Planned(todo') /\ Left(todo') = {"history", "log"}
      BY <2>2, PlansAre
  <2>6. Orderly' /\ Kept'
      BY <2>2, <2>3, <2>5, CommandKeeps DEF Files
  <2>7. Shape'
      BY <1>0, <2>2, <2>3, <2>4 DEF Shape
  <2> QED
      BY <2>6, <2>7 DEF SaveInv
<1>13. ASSUME receive_message PROVE Goal
  <2>1. PICK e : Logs(e)
      BY <1>0, <1>13, ReceiveIs
  <2>2. MemOK' /\ Shape'
      BY <1>c, <2>1
  <2>3. AtPrompt /\ todo' = <<"log">>
      BY <1>0, <1>13, ReceiveIs
  <2>4. Planned(todo') /\ Left(todo') = {"log"}
      BY <2>3, PlansAre
  <2>5. UNCHANGED <<up, disk, writing, failed>> /\ mem'.history = mem.history
        /\ mem'.rooms = mem.rooms
      BY <2>1 DEF Logs, notes
  <2>6. Orderly' /\ Kept'
      BY <2>2, <2>3, <2>4, <2>5, CommandKeeps DEF Files
  <2> QED
      BY <2>2, <2>6 DEF SaveInv
<1>14. ASSUME receive_receipt PROVE Goal
  <2>1. /\ inbox # <<>> /\ AtPrompt /\ inbox' = Tail(inbox)
        /\ UNCHANGED <<mem, todo>> \/ \E i : Ticks(i, Head(inbox))
        /\ UNCHANGED <<up, disk, writing, clock, mail, failed, astray>>
      BY <1>0, <1>14, TicksIs DEF notes
  <2>2. inbox' \in Seq(ReceiptMessages)
    <3>1. PICK R : R = ReceiptMessages
        OBVIOUS
    <3>2. inbox' \in Seq(R)
        BY <1>0, <2>1, <3>1, MemParts, HeadTailProperties
    <3> QED
        BY <3>1, <3>2
  <2>3. CASE UNCHANGED <<mem, todo>>
    <3>1. MemOK'
      <4>1. mem' \in [Files -> Contents] /\ disk' = disk /\ mem' = mem
          BY <1>0, <2>1, <2>3 DEF MemOK
      <4> QED
          BY <1>0, <4>1, MemParts, MemNow
    <3>2. todo = <<>> /\ Planned(<<>>) /\ Left(<<>>) = {}
        BY <2>1, PlansAre DEF AtPrompt
    <3>3. Orderly' /\ Kept'
        BY <2>1, <2>3, <3>1, <3>2, CommandKeeps
    <3>4. Shape'
        BY <1>0, <2>1, <2>2, <3>1 DEF Shape
    <3> QED
        BY <3>3, <3>4 DEF SaveInv
  <2>4. CASE \E i : Ticks(i, Head(inbox))
    <3>1. /\ mem' \in [Files -> Contents] /\ mem'.history \in Seq(Entries)
          /\ mem'.log = mem.log /\ mem'.rooms = mem.rooms /\ todo' = <<"history">>
        BY <2>4 DEF Ticks, Changed
    <3>2. MemOK'
        BY <1>0, <2>1, <3>1, MemParts, MemNow
    <3>3. Planned(todo') /\ Left(todo') = {"history"}
        BY <3>1, PlansAre
    <3>4. Orderly' /\ Kept'
        BY <2>1, <3>1, <3>2, <3>3, CommandKeeps DEF Files
    <3>5. Shape'
        BY <1>0, <2>1, <2>2, <3>2 DEF Shape
    <3> QED
        BY <3>4, <3>5 DEF SaveInv
  <2> QED
      BY <2>1, <2>3, <2>4
<1>d. ASSUME UNCHANGED <<up, mem, disk, todo, writing, failed, astray>>,
             clock' \in Nat, mail' \in Seq(Envelopes), inbox' \in Seq(ReceiptMessages)
      PROVE  Goal
  <2>1. MemOK'
    <3>1. mem' \in [Files -> Contents] /\ disk' = disk /\ mem' = mem
        BY <1>0, <1>d DEF MemOK
    <3> QED
        BY <1>0, <3>1, MemParts, MemNow
  <2>2. Shape'
      BY <1>0, <1>d, <2>1 DEF Shape
  <2>3. Orderly'
      BY <1>0, <1>d DEF Orderly, Planned, Left
  <2>4. \A g \in Files : Load(g)' = Load(g)
      BY <1>d, LoadSame
  <2>5. Kept'
      BY <1>0, <1>d, <2>4 DEF Kept, Left
  <2> QED
      BY <2>2, <2>3, <2>5 DEF SaveInv
<1>15. ASSUME tick PROVE Goal
    BY <1>0, <1>15, <1>d, HistoryAssumption DEF tick, notes, Shape
<1>16. ASSUME NEW p, peer_fetches(p) PROVE Goal
  <2>1. mail' \in Seq(Envelopes) /\ inbox' \in Seq(ReceiptMessages)
      BY <1>0, <1>16, FetchIs DEF Answers, Later
  <2> QED
      BY <1>0, <1>16, <1>d, <2>1 DEF peer_fetches, notes, Shape
<1>17. ASSUME NEW n, peer_reads(n) PROVE Goal
  <2>1. mail' \in Seq(Envelopes) /\ inbox' \in Seq(ReceiptMessages)
      BY <1>0, <1>17, ReadIs DEF Answers, Later
  <2> QED
      BY <1>0, <1>17, <1>d, <2>1 DEF peer_reads, notes, Shape
<1>18. ASSUME UNCHANGED vars PROVE Goal
    BY <1>0, <1>18, <1>d DEF vars, Shape
<1>19. ASSUME NEW p \in Peers,
              \/ send_message(p)
              \/ \E later \in clock..MaxTime :
                     send_group_message(p, later) \/ send_file(p, later)
       PROVE  Goal
    BY <1>0, <1>9, <1>19, SendsIs
<1> QED
    BY <1>1, <1>2, <1>3, <1>4, <1>5, <1>6, <1>7, <1>8, <1>10, <1>11, <1>12, <1>13,
       <1>14, <1>15, <1>16, <1>17, <1>18, <1>19 DEF Next, Process, Messages, World

LEMMA SaveInit == Init => SaveInv
<1> SUFFICES ASSUME Init PROVE SaveInv
    OBVIOUS
<1>1. /\ mem = [f \in Files |-> Empty(f)] /\ disk = [f \in Files |-> <<>>]
    BY DEF Init
<1>2. ASSUME NEW f \in Files
      PROVE  mem[f] \in Content(f) /\ Load(f) \in Content(f) /\ mem[f] \in Contents
  <2>1. mem[f] = Empty(f) /\ Load(f) = Empty(f)
      BY <1>1 DEF Load
  <2> QED
      BY <2>1, ContentIs
<1>3. MemOK
  <2>1. <<>> \in Seq(Contents)
      BY EmptySeq
  <2> QED
      BY <1>1, <1>2, <2>1 DEF MemOK
<1>4. mail \in Seq(Envelopes) /\ inbox \in Seq(ReceiptMessages)
    BY EmptySeq DEF Init
<1>5. Shape
    BY <1>3, <1>4 DEF Init, Shape
<1>6. Orderly /\ Kept
    BY PlansAre DEF Init, Orderly, Kept
<1> QED
    BY <1>5, <1>6 DEF SaveInv

LEMMA SaveInductive == Spec => []SaveInv
BY SaveInit, SaveStep, PTL DEF Spec

(***************************************************************************)
(* RestartIsHarmless: at the prompt, a process that is killed and started  *)
(* again finds all that this one knows, but for files whose last write     *)
(* failed: every command of the client saves each list it changed.         *)
(***************************************************************************)
THEOREM RestartIsHarmless == Spec => []RestartChangesNothing
<1>1. SaveInv => RestartChangesNothing
  <2>1. Left(<<>>) = {}
      BY PlansAre
  <2> QED
      BY <2>1 DEF SaveInv, Kept, RestartChangesNothing, AtPrompt
<1> QED
    BY <1>1, SaveInductive, PTL
-----------------------------------------------------------------------------
(***************************************************************************)
(* What is known of the messages sent.  The two books are the tracked      *)
(* messages and the log; their entries name distinct envelopes that were   *)
(* posted (Fits), and a message reported as sent is in them (Holds), in    *)
(* memory and, unless its last write failed or is under way, on disk.      *)
(***************************************************************************)
Books == {"history", "log"}
Known(s, n) == \E i \in 1..Len(s) : s[i].env = n

\* The entries of book f name distinct ones of c envelopes; a received message
\* is logged as 0.
Fits(f, s, c) ==
    /\ \A i \in 1..Len(s) : /\ s[i].env \in Nat /\ s[i].env =< c
                            /\ f = "history" => s[i].env # 0
    /\ \A i, j \in 1..Len(s) : s[i].env # 0 /\ s[i].env = s[j].env => i = j

\* Book f has all the messages of D, of the mail b, that belong in it.
Holds(f, s, D, b) == \A n \in D : f = "history" \/ b[n].text => Known(s, n)

\* The file that is being written.
Torn == IF writing THEN {Head(todo)} ELSE {}

\* A message that is sent and not yet logged is the newest of all.
Pending ==
    "record" \in Left(todo) =>
        /\ Last(mem.history).env = Len(mail) /\ Last(mem.history).edited = FALSE
        /\ \A j \in 1..Len(mem.log) : mem.log[j].env < Len(mail)

\* A text is logged before it is reported.
Reporting ==
    "sent" \in Left(todo) =>
        \/ "record" \in Left(todo)
        \/ mail[Last(mem.history).env].text = FALSE
        \/ Known(mem.log, Last(mem.history).env)

AllFit == \A f \in Books : Fits(f, mem[f], Len(mail)) /\ Fits(f, Load(f), Len(mail))

InMemory == up => \A f \in Books \ lost : Holds(f, mem[f], done, mail)
OnDisk == \A f \in Books \ (lost \cup failed \cup Torn) : Holds(f, Load(f), done, mail)

MemoryInv ==
    /\ SaveInv /\ AllFit /\ Pending /\ Reporting /\ InMemory /\ OnDisk
    /\ done \subseteq 1..Len(mail)

LEMMA EmptyFits ==
    ASSUME NEW f, NEW c
    PROVE  Fits(f, <<>>, c) /\ \A n : ~Known(<<>>, n)
<1>1. Len(<<>>) = 0
    OBVIOUS
<1> QED
    BY <1>1 DEF Fits, Known

\* More envelopes, the same entries.
LEMMA FitsMore ==
    ASSUME NEW f, NEW s, NEW t, NEW c \in Nat, NEW d \in Nat, c =< d, Fits(f, s, c),
           Len(t) = Len(s), \A i \in 1..Len(s) : t[i].env = s[i].env
    PROVE  Fits(f, t, d)
<1>1. ASSUME NEW i \in 1..Len(t)
      PROVE  t[i].env \in Nat /\ t[i].env =< d /\ (f = "history" => t[i].env # 0)
  <2>1. t[i].env = s[i].env /\ s[i].env \in Nat /\ s[i].env =< c
        /\ (f = "history" => s[i].env # 0)
      BY <1>1 DEF Fits
  <2> QED
      BY <2>1
<1>2. ASSUME NEW i \in 1..Len(t), NEW j \in 1..Len(t), t[i].env # 0, t[i].env = t[j].env
      PROVE  i = j
    BY <1>2 DEF Fits
<1> QED
    BY <1>1, <1>2 DEF Fits

\* An entry for an envelope that none of the others names.
LEMMA FitsAppend ==
    ASSUME NEW f, NEW E, NEW s \in Seq(E), NEW m \in E, NEW c \in Nat, NEW d \in Nat,
           c =< d, Fits(f, s, c), m.env \in Nat, m.env =< d, f = "history" => m.env # 0,
           m.env = 0 \/ \A i \in 1..Len(s) : s[i].env < m.env
    PROVE  /\ Fits(f, Append(s, m), d)
           /\ Known(Append(s, m), m.env)
           /\ \A n : Known(s, n) => Known(Append(s, m), n)
<1>1. PICK t : t = Append(s, m)
    OBVIOUS
<1>2. /\ Len(s) \in Nat /\ Len(t) = Len(s) + 1 /\ t[Len(s) + 1] = m
      /\ \A i \in 1..Len(s) : t[i] = s[i]
    BY <1>1, AppendProperties, LenProperties
<1>3. \A i \in 1..Len(t) : i \in 1..Len(s) \/ i = Len(s) + 1
    BY <1>2
<1>4. \A i \in 1..Len(s) : i \in 1..Len(t)
    BY <1>2
<1>5. Len(s) + 1 \in 1..Len(t)
    BY <1>2
<1>6. ASSUME NEW i \in 1..Len(t)
      PROVE  t[i].env \in Nat /\ t[i].env =< d /\ (f = "history" => t[i].env # 0)
  <2>1. CASE i \in 1..Len(s)
    <3>1. t[i] = s[i] /\ s[i].env \in Nat /\ s[i].env =< c
          /\ (f = "history" => s[i].env # 0)
        BY <1>2, <2>1 DEF Fits
    <3> QED
        BY <3>1
  <2>2. CASE i = Len(s) + 1
      BY <1>2, <2>2
  <2> QED
      BY <1>3, <2>1, <2>2
<1>7. ASSUME NEW i \in 1..Len(t), NEW j \in 1..Len(t), t[i].env # 0, t[i].env = t[j].env
      PROVE  i = j
  <2>1. CASE i \in 1..Len(s) /\ j \in 1..Len(s)
      BY <1>2, <1>7, <2>1 DEF Fits
  <2>2. CASE i \in 1..Len(s) /\ j = Len(s) + 1
    <3>1. t[i] = s[i] /\ t[j] = m
        BY <1>2, <2>2
    <3>2. s[i].env < m.env /\ s[i].env \in Nat
        BY <1>6, <1>7, <2>2, <3>1
    <3> QED
        BY <1>7, <3>1, <3>2
  <2>3. CASE j \in 1..Len(s) /\ i = Len(s) + 1
    <3>1. t[j] = s[j] /\ t[i] = m
        BY <1>2, <2>3
    <3>2. s[j].env < m.env /\ s[j].env \in Nat
        BY <1>6, <1>7, <2>3, <3>1
    <3> QED
        BY <1>7, <3>1, <3>2
  <2> QED
      BY <1>3, <2>1, <2>2, <2>3
<1>8. Fits(f, t, d)
    BY <1>6, <1>7 DEF Fits
<1>9. Known(t, m.env)
    BY <1>2, <1>5 DEF Known
<1>10. ASSUME NEW n, Known(s, n) PROVE Known(t, n)
    BY <1>2, <1>4, <1>10 DEF Known
<1> QED
    BY <1>1, <1>8, <1>9, <1>10

LEMMA LaterAppend ==
    ASSUME Shape, NEW e \in Envelopes, mail' = Append(mail, e)
    PROVE  /\ Later(mail, mail') /\ Len(mail') = Len(mail) + 1
           /\ mail'[Len(mail) + 1] = e
<1>1. PICK M : M = Envelopes
    OBVIOUS
<1>2. mail \in Seq(M) /\ Len(mail) \in Nat
    BY <1>1, MemParts
<1>3. /\ mail' \in Seq(M) /\ Len(mail') = Len(mail) + 1 /\ mail'[Len(mail) + 1] = e
      /\ \A n \in 1..Len(mail) : mail'[n] = mail[n]
    BY <1>1, <1>2, AppendProperties
<1>4. \A n \in 1..Len(mail) : mail[n] \in Envelopes /\ mail[n].stage \in Int
    BY MemParts DEF Envelopes
<1> QED
    BY <1>1, <1>2, <1>3, <1>4 DEF Later

LEMMA LaterSame ==
    ASSUME Shape, mail' = mail
    PROVE  Later(mail, mail')
<1>1. \A n \in 1..Len(mail) : mail[n] \in Envelopes /\ mail[n].stage \in Int
    BY MemParts DEF Envelopes
<1> QED
    BY <1>1, MemParts DEF Later

\* What was reported is still in a book that kept its entries.
LEMMA HoldsMore ==
    ASSUME NEW f, NEW s, NEW t, NEW D, NEW b, NEW c, Later(b, c), D \subseteq 1..Len(b),
           Holds(f, s, D, b), \A n : Known(s, n) => Known(t, n)
    PROVE  Holds(f, t, D, c)
BY DEF Holds, Later

\* The step of a command leaves the files as they are.
LEMMA CommandHolds ==
    ASSUME MemoryInv, up, ~writing, disk' = disk, Later(mail, mail'),
           UNCHANGED <<up, writing, failed, lost, done>>,
           \A f \in Books : \A n : Known(mem[f], n) => Known(mem'[f], n)
    PROVE  InMemory' /\ OnDisk' /\ done' \subseteq 1..Len(mail')
<1>1. done \subseteq 1..Len(mail)
    BY DEF MemoryInv
<1>2. ASSUME NEW f \in Books \ lost PROVE Holds(f, mem'[f], done, mail')
  <2>1. Holds(f, mem[f], done, mail)
      BY DEF MemoryInv, InMemory
  <2> QED
      BY <1>1, <2>1, HoldsMore
<1>3. ASSUME NEW f \in Books \ (lost \cup failed) PROVE Holds(f, Load(f)', done, mail')
  <2>1. Holds(f, Load(f), done, mail)
      BY DEF MemoryInv, OnDisk, Torn
  <2>2. Load(f)' = Load(f)
      BY LoadSame
  <2>3. Holds(f, Load(f), done, mail')
      BY <1>1, <2>1, HoldsMore
  <2> QED
      BY <2>2, <2>3
<1>4. InMemory'
    BY <1>2 DEF InMemory, Holds, Known, Books
<1>5. OnDisk'
    BY <1>3 DEF OnDisk, Torn, Holds, Known, Books
<1>6. done' \subseteq 1..Len(mail')
    BY <1>1 DEF Later
<1> QED
    BY <1>4, <1>5, <1>6

\* Books are copied from memory to disk or back.
LEMMA CopiesFit ==
    ASSUME MemoryInv, mail' = mail,
           \A f \in Books : /\ mem'[f] \in {mem[f], Load(f), <<>>}
                            /\ Load(f)' \in {mem[f], Load(f), <<>>}
    PROVE  AllFit'
<1>1. ASSUME NEW f \in Books
      PROVE  Fits(f, mem'[f], Len(mail')) /\ Fits(f, Load(f)', Len(mail'))
    BY EmptyFits DEF MemoryInv, AllFit
<1>2. ASSUME NEW f \in Books
      PROVE  (Fits(f, mem[f], Len(mail)) /\ Fits(f, Load(f), Len(mail)))'
    BY <1>1 DEF Fits
<1> QED
    BY <1>2 DEF AllFit, Books

\* A command changes books in memory only.
LEMMA CommandFits ==
    ASSUME MemoryInv, disk' = disk, Later(mail, mail'),
           \A f \in Books : Fits(f, mem'[f], Len(mail'))
    PROVE  AllFit'
<1>1. ASSUME NEW f \in Books
      PROVE  Fits(f, mem'[f], Len(mail')) /\ Fits(f, Load(f)', Len(mail'))
  <2>1. Load(f)' = Load(f) /\ Fits(f, Load(f), Len(mail))
      BY LoadSame DEF MemoryInv, AllFit
  <2>2. PICK s, c, d : s = Load(f) /\ c = Len(mail) /\ d = Len(mail')
      OBVIOUS
  <2>3. Fits(f, s, d)
      BY <2>1, <2>2, FitsMore DEF Later
  <2> QED
      BY <2>1, <2>2, <2>3
<1>2. ASSUME NEW f \in Books
      PROVE  (Fits(f, mem[f], Len(mail)) /\ Fits(f, Load(f), Len(mail)))'
    BY <1>1 DEF Fits
<1> QED
    BY <1>2 DEF AllFit, Books

\* The files are written and read again.
LEMMA EmptyBook == \A f \in Books : Empty(f) = <<>> /\ f \in Files
BY DEF Books, Empty, Files

LEMMA MemoryProcess == MemoryInv /\ (Process \/ report_sent) => MemoryInv'
<1> SUFFICES ASSUME MemoryInv, Process \/ report_sent PROVE MemoryInv'
    OBVIOUS
<1> DEFINE Goal == AllFit' /\ Pending' /\ Reporting' /\ InMemory' /\ OnDisk'
                   /\ done' \subseteq 1..Len(mail')
<1>0. /\ SaveInv /\ Shape /\ MemOK /\ Orderly /\ Kept /\ AllFit /\ Pending
      /\ Reporting /\ InMemory /\ OnDisk /\ done \subseteq 1..Len(mail)
    BY DEF MemoryInv, SaveInv, Shape
<1>a. Planned(<<>>) /\ Left(<<>>) = {}
    BY PlansAre
<1>b. ASSUME todo' = <<>> PROVE Pending' /\ Reporting'
    BY <1>a, <1>b DEF Pending, Reporting
<1>c. ASSUME disk' = disk PROVE \A f : Load(f)' = Load(f)
    BY <1>c, LoadSame
\* The process begins or ends.
<1>1. ASSUME start PROVE Goal
  <2>1. /\ ~up /\ mem' = [f \in Files |-> Load(f)]
        /\ UNCHANGED <<disk, todo, writing, mail, failed, lost, done>>
      BY <1>1 DEF start, world, notes
  <2>2. todo = <<>> /\ ~writing /\ failed = {}
      BY <1>0, <2>1 DEF Orderly
  <2>3. \A f \in Books : mem'[f] = Load(f) /\ Load(f)' = Load(f)
      BY <1>c, <2>1, EmptyBook
  <2>4. AllFit'
      BY <2>1, <2>3, CopiesFit
  <2>5. Pending' /\ Reporting'
      BY <1>b, <2>1, <2>2
  <2>6. \A f \in Books \ lost : Holds(f, Load(f), done, mail)
      BY <1>0, <2>2 DEF OnDisk, Torn
  <2>7. InMemory'
    <3>1. ASSUME NEW f \in Books \ lost' PROVE Holds(f, mem'[f], done', mail')
        BY <2>1, <2>3, <2>6
    <3> QED
        BY <3>1 DEF InMemory, Holds, Known, Books
  <2>8. OnDisk'
    <3>1. ASSUME NEW f \in Books \ lost' PROVE Holds(f, Load(f)', done', mail')
        BY <2>1, <2>3, <2>6
    <3> QED
        BY <3>1 DEF OnDisk, Holds, Known, Books
  <2> QED
      BY <1>0, <2>1, <2>4, <2>5, <2>7, <2>8
<1>d. ASSUME up' = FALSE, todo' = <<>>, writing' = FALSE,
             mem' = [f \in Files |-> Empty(f)], UNCHANGED <<disk, mail, done>>,
             lost \cup failed \cup Torn \subseteq lost'
      PROVE  Goal
  <2>1. \A f \in Books : mem'[f] = <<>> /\ Load(f)' = Load(f)
      BY <1>c, <1>d, EmptyBook
  <2>2. AllFit'
      BY <1>d, <2>1, CopiesFit
  <2>3. ASSUME NEW f \in Books \ lost' PROVE Holds(f, Load(f)', done', mail')
      BY <1>0, <1>d, <2>1 DEF OnDisk
  <2>4. OnDisk'
      BY <2>3 DEF OnDisk, Holds, Known, Books
  <2>5. InMemory'
      BY <1>d DEF InMemory
  <2> QED
      BY <1>0, <1>b, <1>d, <2>2, <2>4, <2>5
<1>2. ASSUME crash PROVE Goal
  <2>1. lost \cup failed \cup Torn \subseteq lost'
      BY <1>2 DEF crash, Torn
  <2> QED
      BY <1>2, <1>d, <2>1 DEF crash
<1>3. ASSUME exit PROVE Goal
  <2>1. ~writing
      BY <1>0, <1>3 DEF exit, Saving, Orderly, Files
  <2>2. lost \cup failed \cup Torn \subseteq lost'
      BY <1>3, <2>1 DEF exit, Torn
  <2>3. writing' = FALSE
      BY <1>0, <1>3, <2>1 DEF exit, Shape
  <2> QED
      BY <1>3, <1>d, <2>2, <2>3 DEF exit, world
\* Nothing is done to the books but what is left to do.
<1>e. ASSUME AtPrompt, UNCHANGED <<up, disk, writing, mail, failed, lost, done>>,
             mem'.history = mem.history, mem'.log = mem.log,
             "record" \notin Left(todo'), "sent" \notin Left(todo')
      PROVE  Goal
  <2>1. \A f \in Books : mem'[f] = mem[f] /\ Load(f)' = Load(f)
      BY <1>c, <1>e DEF Books
  <2>2. AllFit'
      BY <1>e, <2>1, CopiesFit
  <2>3. Pending' /\ Reporting'
      BY <1>e DEF Pending, Reporting, Left
  <2>4. up /\ ~writing
      BY <1>0, <1>e DEF AtPrompt, Orderly
  <2>5. Later(mail, mail')
      BY <1>0, <1>e, LaterSame
  <2>6. InMemory' /\ OnDisk' /\ done' \subseteq 1..Len(mail')
      BY <1>e, <2>1, <2>4, <2>5, CommandHolds
  <2> QED
      BY <2>2, <2>3, <2>6
<1>4. ASSUME NEW quit \in BOOLEAN, save_all(quit) PROVE Goal
  <2>1. Left(todo') = Files \/ Left(todo') = Files \cup {"exit"}
      BY <1>4, PlansAre DEF save_all
  <2>2. "record" \notin Left(todo') /\ "sent" \notin Left(todo')
      BY <2>1 DEF Files
  <2> QED
      BY <1>4, <1>e, <2>2 DEF save_all, world, notes
<1>5. ASSUME NEW r \in Rooms, change_rooms(r) PROVE Goal
  <2>1. Left(todo') = {"rooms"}
      BY <1>5, PlansAre DEF change_rooms
  <2>2. "record" \notin Left(todo') /\ "sent" \notin Left(todo')
      BY <2>1
  <2>3. mem'.history = mem.history /\ mem'.log = mem.log
      BY <1>0, <1>5 DEF change_rooms, MemOK, Files
  <2> QED
      BY <1>5, <1>e, <2>2, <2>3 DEF change_rooms, world, notes
\* A file is written.
<1>f. ASSUME NEW f \in Files, Saving(f)
      PROVE  /\ up /\ todo # <<>> /\ Head(todo) = f
             /\ Left(todo) = {f} \cup Left(Tail(todo)) /\ f # "record"
             /\ f # "sent"
    BY <1>0, <1>f, PlanTail DEF Saving, Orderly, Files
<1>6. ASSUME NEW f \in Files, truncate(f) PROVE Goal
  <2>1. /\ Saving(f) /\ writing' = TRUE /\ disk' = [disk EXCEPT ![f] = <<>>] /\ ~writing
        /\ UNCHANGED <<up, mem, todo, mail, failed, lost, done>>
      BY <1>6 DEF truncate, world, notes
  <2>2. <<>> \in Seq(Contents)
      BY EmptySeq
  <2>3. /\ Load(f)' = Empty(f) /\ \A g \in Files : g # f => Load(g)' = Load(g)
      BY <1>0, <2>1, <2>2, DiskSet
  <2>4. AllFit'
      BY <2>1, <2>3, CopiesFit, EmptyBook
  <2>5. Pending' /\ Reporting'
      BY <1>0, <2>1 DEF Pending, Reporting, Left, Known
  <2>6. InMemory'
      BY <1>0, <2>1 DEF InMemory, Holds, Known, Books
  <2>7. ASSUME NEW g \in Books \ (lost' \cup failed' \cup {f})
        PROVE  Holds(g, Load(g)', done', mail')
    <3>1. Holds(g, Load(g), done, mail)
        BY <1>0, <2>1 DEF OnDisk, Torn
    <3>2. Load(g)' = Load(g)
        BY <2>3, EmptyBook
    <3> QED
        BY <2>1, <3>1, <3>2
  <2>8. Torn' = {f}
      BY <1>f, <2>1 DEF Torn
  <2>9. OnDisk'
      BY <2>7, <2>8 DEF OnDisk, Holds, Known, Books
  <2> QED
      BY <1>0, <2>1, <2>4, <2>5, <2>6, <2>9
<1>g. ASSUME NEW f \in Files, Saving(f), todo' = Tail(todo), UNCHANGED <<mem, mail>>
      PROVE  Pending' /\ Reporting'
  <2>1. /\ "record" \in Left(todo') <=> "record" \in Left(todo)
        /\ "sent" \in Left(todo') <=> "sent" \in Left(todo)
      BY <1>f, <1>g
  <2>2. Pending'
      BY <1>0, <1>g, <2>1 DEF Pending, Left
  <2>3. Reporting'
      BY <1>0, <1>g, <2>1 DEF Reporting, Left, Known
  <2> QED
      BY <2>2, <2>3
<1>7. ASSUME NEW f \in Files, fill(f) PROVE Goal
  <2>1. /\ Saving(f) /\ writing /\ writing' = FALSE /\ todo' = Tail(todo)
        /\ disk' = [disk EXCEPT ![f] = <<mem[f]>>] /\ failed' = failed \ {f}
        /\ UNCHANGED <<up, mem, mail, lost, done>>
      BY <1>7 DEF fill, world
  <2>2. <<mem[f]>> \in Seq(Contents) /\ <<mem[f]>> # <<>>
    <3>1. PICK x \in Contents : x = mem[f]
        BY <1>0 DEF MemOK
    <3>2. <<x>> \in Seq(Contents) /\ <<x>> # <<>>
        OBVIOUS
    <3> QED
        BY <3>1, <3>2
  <2>3. /\ Load(f)' = mem[f]
        /\ \A g \in Files : g # f => Load(g)' = Load(g)
      BY <1>0, <2>1, <2>2, DiskSet
  <2>4. AllFit'
      BY <2>1, <2>3, CopiesFit, EmptyBook
  <2>5. Pending' /\ Reporting'
      BY <1>g, <2>1
  <2>6. InMemory'
      BY <1>0, <2>1 DEF InMemory, Holds, Known, Books
  <2>7. ASSUME NEW g \in Books \ (lost' \cup failed')
        PROVE  Holds(g, Load(g)', done', mail')
    <3>1. CASE g = f
      <4>1. Holds(g, mem[g], done, mail)
          BY <1>0, <1>f, <2>1 DEF InMemory
      <4> QED
          BY <2>1, <2>3, <3>1, <4>1
    <3>2. CASE g # f
      <4>1. g \notin lost \cup failed \cup Torn
          BY <1>f, <2>1, <3>2 DEF Torn
      <4>2. Holds(g, Load(g), done, mail)
          BY <1>0, <4>1 DEF OnDisk
      <4>3. Load(g)' = Load(g)
          BY <2>3, <3>2, EmptyBook
      <4> QED
          BY <2>1, <4>2, <4>3
    <3> QED
        BY <3>1, <3>2
  <2>8. OnDisk'
      BY <2>7 DEF OnDisk, Holds, Known, Books
  <2> QED
      BY <1>0, <2>1, <2>4, <2>5, <2>6, <2>8
<1>8. ASSUME NEW f \in Files, write_fails(f) PROVE Goal
  <2>1. /\ Saving(f) /\ writing' = FALSE /\ todo' = Tail(todo)
        /\ failed' = failed \cup {f}
        /\ UNCHANGED <<up, mem, disk, mail, lost, done>>
      BY <1>8 DEF write_fails, world
  <2>2. \A g : Load(g)' = Load(g)
      BY <1>c, <2>1
  <2>3. AllFit'
      BY <2>1, <2>2, CopiesFit
  <2>4. Pending' /\ Reporting'
      BY <1>g, <2>1
  <2>5. InMemory'
      BY <1>0, <2>1 DEF InMemory, Holds, Known, Books
  <2>6. ASSUME NEW g \in Books \ (lost' \cup failed')
        PROVE  Holds(g, Load(g)', done', mail')
    <3>1. g \notin lost \cup failed \cup Torn
        BY <1>f, <2>1 DEF Torn
    <3>2. Holds(g, Load(g), done, mail)
        BY <1>0, <3>1 DEF OnDisk
    <3> QED
        BY <2>1, <2>2, <3>2
  <2>7. OnDisk'
      BY <2>6 DEF OnDisk, Holds, Known, Books
  <2> QED
      BY <1>0, <2>1, <2>3, <2>4, <2>5, <2>7
\* The user is told.
<1>9. ASSUME report_sent PROVE Goal
  <2>0. PICK n : n = Last(mem.history).env
      OBVIOUS
  <2>1. /\ up /\ todo # <<>> /\ Head(todo) = "sent" /\ todo' = Tail(todo)
        /\ done' = done \cup {n}
        /\ UNCHANGED <<up, mem, disk, writing, mail, failed, lost>>
      BY <1>9, <2>0 DEF report_sent, Saving, world
  <2>2. ~writing
      BY <1>0, <2>1 DEF Orderly, Files
  <2>3. todo' = <<>> /\ Left(todo) = {"sent"}
      BY <1>0, <1>a, <2>1, PlanTail DEF Orderly
  <2>4. mem.history # <<>>
      BY <1>0, <2>3 DEF Orderly
  <2>5. Len(mem.history) \in 1..Len(mem.history) /\ n = mem.history[Len(mem.history)].env
    <3>1. mem.history \in Seq(Entries) /\ Len(mem.history) \in Nat
        BY <1>0, MemParts
    <3>2. Len(mem.history) # 0
        BY <2>4, <3>1, EmptySeq
    <3> QED
        BY <2>0, <3>1, <3>2 DEF Last
  <2>6. Known(mem.history, n)
      BY <2>5 DEF Known
  <2>7. n \in 1..Len(mail)
    <3>1. Fits("history", mem.history, Len(mail)) /\ Len(mail) \in Nat
        BY <1>0, MemParts DEF AllFit, Books
    <3>2. n \in Nat /\ n =< Len(mail) /\ n # 0
        BY <2>5, <3>1 DEF Fits
    <3> QED
        BY <3>1, <3>2
  <2>8. mail[n].text => Known(mem.log, n)
    <3>1. "record" \notin Left(todo)
        BY <2>3
    <3> QED
        BY <1>0, <2>0, <2>3, <3>1 DEF Reporting
  <2>9. ASSUME NEW f \in Books \ lost PROVE Holds(f, mem[f], done', mail)
    <3>1. Holds(f, mem[f], done, mail)
        BY <1>0, <2>1 DEF InMemory
    <3>2. f = "history" \/ mail[n].text => Known(mem[f], n)
        BY <2>6, <2>8 DEF Books
    <3> QED
        BY <2>1, <3>1, <3>2 DEF Holds
  <2>10. \A f \in Books \ failed : Load(f) = mem[f]
    <3>1. \A f \in Books : f \in Files /\ f \notin Left(todo)
        BY <2>3, EmptyBook DEF Books
    <3> QED
        BY <1>0, <2>1, <3>1 DEF Kept
  <2>11. \A f : Load(f)' = Load(f)
      BY <1>c, <2>1
  <2>12. InMemory'
    <3>1. ASSUME NEW f \in Books \ lost' PROVE Holds(f, mem'[f], done', mail')
        BY <2>1, <2>9
    <3> QED
        BY <3>1 DEF InMemory, Holds, Known, Books
  <2>13. OnDisk'
    <3>1. ASSUME NEW f \in Books \ (lost' \cup failed')
          PROVE  Holds(f, Load(f)', done', mail')
        BY <2>1, <2>9, <2>10, <2>11
    <3> QED
        BY <3>1 DEF OnDisk, Holds, Known, Books
  <2>14. AllFit'
      BY <2>1, <2>11, CopiesFit
  <2> QED
      BY <1>0, <1>b, <2>1, <2>3, <2>7, <2>12, <2>13, <2>14
<1>10. Goal
    BY <1>1, <1>2, <1>3, <1>4, <1>5, <1>6, <1>7, <1>8, <1>9 DEF Process
<1>11. SaveInv'
    BY <1>0, SaveStep DEF Next, Process, Messages
<1> QED
    BY <1>10, <1>11 DEF MemoryInv

LEMMA MemoryStep == MemoryInv /\ [Next]_vars => MemoryInv'
<1> SUFFICES ASSUME MemoryInv, [Next]_vars PROVE MemoryInv'
    OBVIOUS
<1> DEFINE Goal == AllFit' /\ Pending' /\ Reporting' /\ InMemory' /\ OnDisk'
                   /\ done' \subseteq 1..Len(mail')
<1>0. /\ SaveInv /\ Shape /\ MemOK /\ Orderly /\ AllFit /\ Pending
      /\ Reporting /\ done \subseteq 1..Len(mail) /\ Len(mail) \in Nat
    BY MemParts DEF MemoryInv, SaveInv, Shape
<1>a. /\ Fits("history", mem.history, Len(mail)) /\ Fits("log", mem.log, Len(mail))
      /\ mem.history \in Seq(Entries) /\ mem.log \in Seq(LogEntries)
      /\ Len(mem.history) \in Nat /\ Len(mem.log) \in Nat
    BY <1>0, MemParts DEF AllFit, Books
<1>b. ASSUME AtPrompt PROVE up /\ ~writing
    BY <1>0, <1>b DEF AtPrompt, Orderly
<1>c. ASSUME "record" \notin Left(todo'), "sent" \notin Left(todo')
      PROVE  Pending' /\ Reporting'
    BY <1>c DEF Pending, Reporting, Left
<1>1. ASSUME NEW m, NEW e, Sends(m, e) PROVE Goal
  <2>1. /\ AtPrompt /\ m \in Entries /\ m.env = Len(mail) + 1 /\ m.edited = FALSE
        /\ e \in Envelopes /\ mail' = Append(mail, e)
        /\ mem'.history = Append(mem.history, m) /\ mem'.log = mem.log
        /\ UNCHANGED <<up, disk, writing, failed, lost, done>>
      BY <1>1 DEF Sends, notes
  <2>2. /\ Later(mail, mail') /\ Len(mail') = Len(mail) + 1
        /\ mail'[Len(mail) + 1] = e
      BY <1>0, <2>1, LaterAppend
  <2>3. PICK h, l, c, d, E : /\ h = mem.history /\ l = mem.log /\ c = Len(mail)
                             /\ d = Len(mail') /\ E = Entries
      OBVIOUS
  <2>4. c \in Nat /\ d = c + 1 /\ h \in Seq(E) /\ m \in E /\ m.env = d
      BY <1>0, <1>a, <2>1, <2>2, <2>3
  <2>5. \A i \in 1..Len(h) : h[i].env < m.env
    <3>1. \A i \in 1..Len(h) : h[i].env \in Nat /\ h[i].env =< c
        BY <1>a, <2>3 DEF Fits
    <3> QED
        BY <2>4, <3>1
  <2>6. /\ Fits("history", Append(h, m), d)
        /\ \A n : Known(h, n) => Known(Append(h, m), n)
    <3>1. d \in Nat /\ c =< d /\ m.env \in Nat /\ m.env =< d /\ m.env # 0
        BY <2>4
    <3>2. Fits("history", h, c)
        BY <1>a, <2>3
    <3> QED
        BY <2>4, <2>5, <3>1, <3>2, FitsAppend
  <2>7. Fits("log", l, d)
    <3>1. Fits("log", l, c) /\ d \in Nat /\ c =< d
        BY <1>a, <2>3, <2>4
    <3> QED
        BY <2>4, <3>1, FitsMore
  <2>8. AllFit'
      BY <2>1, <2>2, <2>3, <2>6, <2>7, CommandFits DEF Books
  <2>9. InMemory' /\ OnDisk' /\ done' \subseteq 1..Len(mail')
      BY <1>b, <2>1, <2>2, <2>3, <2>6, CommandHolds DEF Books
  <2>10. Last(mem'.history) = m
    <3>1. Len(Append(h, m)) = Len(h) + 1 /\ Append(h, m)[Len(h) + 1] = m
        BY <2>4, AppendProperties
    <3> QED
        BY <2>1, <2>3, <3>1 DEF Last
  <2>11. Pending'
    <3>1. \A j \in 1..Len(l) : l[j].env < d
      <4>1. \A j \in 1..Len(l) : l[j].env \in Nat /\ l[j].env =< c
          BY <1>a, <2>3 DEF Fits
      <4> QED
          BY <2>4, <4>1
    <3>2. /\ Last(mem'.history).env = Len(mail') /\ Last(mem'.history).edited = FALSE
          /\ \A j \in 1..Len(mem'.log) : mem'.log[j].env < Len(mail')
        BY <2>1, <2>3, <2>4, <2>10, <3>1
    <3> QED
        BY <3>2 DEF Pending, Last
  <2>12. Reporting'
    <3>1. "record" \in Left(todo') \/ e.text = FALSE
        BY <1>1, PlansAre DEF Sends
    <3>2. mail'[Last(mem'.history).env] = e
        BY <2>1, <2>2, <2>10
    <3> QED
        BY <3>1, <3>2 DEF Reporting, Last, Left
  <2> QED
      BY <2>8, <2>9, <2>11, <2>12
\* An entry is logged.
<1>d. ASSUME NEW e, Logs(e), ~writing, e.env \in Nat, e.env =< Len(mail),
             e.env = 0 \/ \A j \in 1..Len(mem.log) : mem.log[j].env < e.env
      PROVE  /\ AllFit' /\ InMemory' /\ OnDisk' /\ done' \subseteq 1..Len(mail')
             /\ Known(mem'.log, e.env)
  <2>1. /\ up /\ e \in LogEntries /\ mem'.log = Append(mem.log, e)
        /\ mem'.history = mem.history
        /\ UNCHANGED <<up, disk, writing, mail, failed, lost, done>>
      BY <1>d DEF Logs, notes
  <2>2. Later(mail, mail')
      BY <1>0, <2>1, LaterSame
  <2>3. PICK l, c, E : l = mem.log /\ c = Len(mail) /\ E = LogEntries
      OBVIOUS
  <2>4. /\ c \in Nat /\ c =< c /\ l \in Seq(E) /\ e \in E /\ Fits("log", l, c)
        /\ e.env =< c /\ "log" # "history"
        /\ e.env = 0 \/ \A j \in 1..Len(l) : l[j].env < e.env
      BY <1>0, <1>a, <1>d, <2>1, <2>3
  <2>5. /\ Fits("log", Append(l, e), c) /\ Known(Append(l, e), e.env)
        /\ \A n : Known(l, n) => Known(Append(l, e), n)
      BY <1>d, <2>4, FitsAppend
  <2>6. AllFit'
      BY <1>a, <2>1, <2>2, <2>3, <2>5, CommandFits DEF Books
  <2>7. InMemory' /\ OnDisk' /\ done' \subseteq 1..Len(mail')
      BY <1>d, <2>1, <2>2, <2>3, <2>5, CommandHolds DEF Books
  <2> QED
      BY <2>1, <2>3, <2>5, <2>6, <2>7
<1>2. ASSUME record_sent PROVE Goal
  <2>1. PICK e : e.env = Last(mem.history).env /\ Logs(e)
      BY <1>0, <1>2, RecordIs
  <2>2. Saving("record") /\ todo' = Tail(todo) /\ "record" \in Left(todo)
      BY <1>0, <1>2, RecordIs
  <2>3. todo # <<>> /\ Head(todo) = "record" /\ ~writing
      BY <1>0, <2>2 DEF Saving, Orderly, Files
  <2>4. e.env = Len(mail) /\ \A j \in 1..Len(mem.log) : mem.log[j].env < Len(mail)
      BY <1>0, <2>1, <2>2 DEF Pending
  <2>5. /\ AllFit' /\ InMemory' /\ OnDisk' /\ done' \subseteq 1..Len(mail')
        /\ Known(mem'.log, e.env)
      BY <1>0, <1>d, <2>1, <2>3, <2>4
  <2>6. "record" \notin Left(todo')
      BY <1>0, <2>2, <2>3, PlanTail DEF Orderly
  <2>7. Pending'
      BY <2>6 DEF Pending, Left
  <2>8. Reporting'
    <3>1. Known(mem'.log, Last(mem'.history).env)
        BY <2>1, <2>5 DEF Logs
    <3> QED
        BY <3>1 DEF Reporting, Known, Last
  <2> QED
      BY <2>5, <2>7, <2>8
<1>3. ASSUME receive_message PROVE Goal
  <2>1. PICK e : e.env = 0 /\ Logs(e)
      BY <1>0, <1>3, ReceiveIs
  <2>2. AtPrompt /\ todo' = <<"log">>
      BY <1>0, <1>3, ReceiveIs
  <2>3. /\ AllFit' /\ InMemory' /\ OnDisk' /\ done' \subseteq 1..Len(mail')
      BY <1>0, <1>b, <1>d, <2>1, <2>2
  <2>4. Left(todo') = {"log"}
      BY <2>2, PlansAre
  <2> QED
      BY <1>c, <2>3, <2>4
\* A tracked message is changed, and the log keeps its envelopes.
<1>e. ASSUME NEW i, AtPrompt, Changed(i, mem'.history), disk' = disk,
             UNCHANGED <<up, writing, failed, lost, done>>, Later(mail, mail'),
             Len(mem'.log) = Len(mem.log),
             \A j \in 1..Len(mem.log) : mem'.log[j].env = mem.log[j].env,
             "record" \notin Left(todo'), "sent" \notin Left(todo')
      PROVE  Goal
  <2>1. PICK h, g, l, k, c, d : /\ h = mem.history /\ g = mem'.history /\ l = mem.log
                                /\ k = mem'.log /\ c = Len(mail) /\ d = Len(mail')
      OBVIOUS
  <2>2. c \in Nat /\ d \in Nat /\ c =< d
      BY <1>e, <2>1 DEF Later
  <2>3. Len(g) = Len(h) /\ \A j \in 1..Len(h) : g[j].env = h[j].env
      BY <1>e, <2>1 DEF Changed
  <2>4. Len(k) = Len(l) /\ \A j \in 1..Len(l) : k[j].env = l[j].env
      BY <1>e, <2>1
  <2>5. Fits("history", h, c) /\ Fits("log", l, c)
      BY <1>a, <2>1
  <2>6. Fits("history", g, d)
      BY <2>2, <2>3, <2>5, FitsMore
  <2>7. Fits("log", k, d)
      BY <2>2, <2>4, <2>5, FitsMore
  <2>8. \A n : (Known(h, n) => Known(g, n)) /\ (Known(l, n) => Known(k, n))
      BY <2>3, <2>4 DEF Known
  <2>9. AllFit'
      BY <1>e, <2>1, <2>6, <2>7, CommandFits DEF Books
  <2>10. InMemory' /\ OnDisk' /\ done' \subseteq 1..Len(mail')
      BY <1>b, <1>e, <2>1, <2>8, CommandHolds DEF Books
  <2> QED
      BY <1>c, <1>e, <2>9, <2>10
<1>4. ASSUME NEW i, edit_message(i) PROVE Goal
  <2>1. Edits(i)
      BY <1>0, <1>4, EditsIs
  <2>2. Later(mail, mail')
      BY <1>0, <2>1, LaterSame, LaterAppend DEF Edits
  <2>3. /\ Len(mem'.log) = Len(mem.log)
        /\ \A j \in 1..Len(mem.log) : mem'.log[j].env = mem.log[j].env
      BY <2>1 DEF Edits, Marked
  <2>4. Left(todo') = {"history", "log"}
      BY <2>1, PlansAre DEF Edits
  <2>5. "record" \notin Left(todo') /\ "sent" \notin Left(todo')
      BY <2>4
  <2> QED
      BY <1>e, <2>1, <2>2, <2>3, <2>5 DEF Edits
\* The books stay as they are.
<1>f. ASSUME UNCHANGED <<up, mem, disk, todo, writing, failed, lost, done>>,
             Later(mail, mail'), Len(mail') = Len(mail)
      PROVE  Goal
  <2>1. AllFit'
    <3>1. \A f \in Books : Fits(f, mem'[f], Len(mail'))
        BY <1>0, <1>f DEF AllFit
    <3> QED
        BY <1>f, <3>1, CommandFits
  <2>2. Pending'
      BY <1>0, <1>f DEF Pending, Left
  <2>3. Reporting'
    <3>1. ASSUME "sent" \in Left(todo), mail[Last(mem.history).env].text = FALSE
          PROVE  mail'[Last(mem.history).env].text = FALSE
      <4>1. mem.history # <<>>
          BY <1>0, <3>1 DEF Orderly
      <4>2. Len(mem.history) \in 1..Len(mem.history)
        <5>1. Len(mem.history) # 0
            BY <1>a, <4>1, EmptySeq
        <5> QED
            BY <1>a, <5>1
      <4>3. Last(mem.history).env \in 1..Len(mail)
        <5>1. /\ Last(mem.history).env \in Nat /\ Last(mem.history).env =< Len(mail)
              /\ Last(mem.history).env # 0
            BY <1>a, <4>2 DEF Fits, Last
        <5> QED
            BY <1>0, <5>1
      <4> QED
          BY <1>f, <3>1, <4>3 DEF Later
    <3> QED
        BY <1>0, <1>f, <3>1 DEF Reporting, Left, Known, Last
  <2>4. done' \subseteq 1..Len(mail')
      BY <1>0, <1>f
  <2>5. ASSUME NEW f, NEW s, Holds(f, s, done, mail) PROVE Holds(f, s, done', mail')
    <3>1. Holds(f, s, done, mail')
        BY <1>0, <1>f, <2>5, HoldsMore
    <3> QED
        BY <1>f, <3>1
  <2>6. InMemory'
    <3>1. ASSUME up, NEW f \in Books \ lost' PROVE Holds(f, mem'[f], done', mail')
      <4>1. Holds(f, mem[f], done, mail)
          BY <1>f, <3>1 DEF MemoryInv, InMemory
      <4> QED
          BY <1>f, <2>5, <4>1
    <3> QED
        BY <1>f, <3>1 DEF InMemory, Holds, Known, Books
  <2>7. OnDisk'
    <3>1. ASSUME NEW f \in Books \ (lost' \cup failed' \cup Torn)
          PROVE  Holds(f, Load(f)', done', mail')
      <4>1. Holds(f, Load(f), done, mail)
          BY <1>f, <3>1 DEF MemoryInv, OnDisk
      <4>2. Load(f)' = Load(f)
          BY <1>f, LoadSame
      <4> QED
          BY <2>5, <4>1, <4>2
    <3>2. Torn' = Torn
        BY <1>f DEF Torn
    <3> QED
        BY <3>1, <3>2 DEF OnDisk, Holds, Known, Books
  <2> QED
      BY <2>1, <2>2, <2>3, <2>4, <2>6, <2>7
<1>5. ASSUME receive_receipt PROVE Goal
  <2>1. /\ AtPrompt /\ UNCHANGED <<up, disk, writing, mail, failed, lost, done>>
        /\ UNCHANGED <<mem, todo>> \/ \E i : Ticks(i, Head(inbox))
      BY <1>0, <1>5, TicksIs DEF notes
  <2>2. Later(mail, mail') /\ Len(mail') = Len(mail)
      BY <1>0, <2>1, LaterSame
  <2>3. CASE UNCHANGED <<mem, todo>>
      BY <1>f, <2>1, <2>2, <2>3
  <2>4. ASSUME NEW i, Ticks(i, Head(inbox)) PROVE Goal
    <3>1. Changed(i, mem'.history) /\ mem'.log = mem.log /\ todo' = <<"history">>
        BY <2>4 DEF Ticks
    <3>2. Left(todo') = {"history"}
        BY <3>1, PlansAre
    <3>3. "record" \notin Left(todo') /\ "sent" \notin Left(todo')
        BY <3>2
    <3> QED
        BY <1>e, <2>1, <2>2, <3>1, <3>3
  <2> QED
      BY <2>1, <2>3, <2>4
<1>6. ASSUME tick \/ UNCHANGED vars PROVE Goal
  <2>1. UNCHANGED <<up, mem, disk, todo, writing, mail, failed, lost, done>>
      BY <1>6 DEF tick, notes, vars
  <2> QED
      BY <1>0, <1>f, <2>1, LaterSame
<1>7. ASSUME NEW p, peer_fetches(p) PROVE Goal
  <2>1. Later(mail, mail') /\ Len(mail') = Len(mail)
      BY <1>0, <1>7, FetchIs DEF Answers
  <2> QED
      BY <1>7, <1>f, <2>1 DEF peer_fetches, notes
<1>8. ASSUME NEW n, peer_reads(n) PROVE Goal
  <2>1. Later(mail, mail') /\ Len(mail') = Len(mail)
      BY <1>0, <1>8, ReadIs DEF Answers
  <2> QED
      BY <1>8, <1>f, <2>1 DEF peer_reads, notes
<1>9. ASSUME NEW p \in Peers,
             \/ send_message(p)
             \/ \E later \in clock..MaxTime :
                    send_group_message(p, later) \/ send_file(p, later)
      PROVE  Goal
    BY <1>0, <1>1, <1>9, SendsIs
<1>10. Process \/ report_sent => Goal
    BY MemoryProcess DEF MemoryInv
<1>11. Goal
    BY <1>2, <1>3, <1>4, <1>5, <1>6, <1>7, <1>8, <1>9, <1>10
       DEF Next, Messages, World
<1>12. SaveInv'
    BY <1>0, SaveStep
<1> QED
    BY <1>11, <1>12 DEF MemoryInv

LEMMA MemoryInit == Init => MemoryInv
<1> SUFFICES ASSUME Init PROVE MemoryInv
    OBVIOUS
<1>1. SaveInv
    BY SaveInit
<1>2. todo = <<>> /\ done = {} /\ up = FALSE
    BY DEF Init
<1>3. Left(<<>>) = {}
    BY PlansAre
<1>4. \A f \in Books : mem[f] = <<>> /\ Load(f) = <<>>
    BY EmptyBook DEF Init, Load
<1>5. AllFit
    BY <1>4, EmptyFits DEF AllFit
<1> QED
    BY <1>1, <1>2, <1>3, <1>5
       DEF MemoryInv, Pending, Reporting, InMemory, OnDisk, Holds

LEMMA MemoryInductive == Spec => []MemoryInv
BY MemoryInit, MemoryStep, PTL DEF Spec

(***************************************************************************)
(* SentIsKept: a message reported to the user as sent is known to every    *)
(* later process, tracked and, if it is a text, exactly once in the log,   *)
(* through any restarts, unless a failed or torn write cost the file.      *)
(***************************************************************************)
THEOREM SentIsKept == Spec => []SentIsRemembered
<1>1. MemoryInv => SentIsRemembered
  <2> SUFFICES ASSUME MemoryInv, up, "history" \notin lost, NEW n \in done
               PROVE  /\ \E i \in DOMAIN mem.history : mem.history[i].env = n
                      /\ mail[n].text /\ "log" \notin lost =>
                           \E i \in DOMAIN mem.log :
                             /\ mem.log[i].env = n
                             /\ \A j \in DOMAIN mem.log : mem.log[j].env = n => j = i
      BY DEF SentIsRemembered
  <2>1. /\ DOMAIN mem.history = 1..Len(mem.history) /\ DOMAIN mem.log = 1..Len(mem.log)
        /\ Len(mail) \in Nat
      BY MemParts DEF MemoryInv, SaveInv
  <2>2. Holds("history", mem.history, done, mail)
      BY DEF MemoryInv, InMemory, Books
  <2>3. Known(mem.history, n)
      BY <2>2 DEF Holds
  <2>4. ASSUME mail[n].text, "log" \notin lost
        PROVE  \E i \in 1..Len(mem.log) :
                 /\ mem.log[i].env = n
                 /\ \A j \in 1..Len(mem.log) : mem.log[j].env = n => j = i
    <3>1. Holds("log", mem.log, done, mail)
        BY <2>4 DEF MemoryInv, InMemory, Books
    <3>2. PICK i \in 1..Len(mem.log) : mem.log[i].env = n
        BY <2>4, <3>1 DEF Holds, Known
    <3>3. n # 0
        BY <2>1 DEF MemoryInv
    <3>4. Fits("log", mem.log, Len(mail))
        BY DEF MemoryInv, AllFit, Books
    <3>5. \A j \in 1..Len(mem.log) : mem.log[j].env = n => j = i
        BY <3>2, <3>3, <3>4 DEF Fits
    <3> QED
        BY <3>2, <3>5
  <2> QED
      BY <2>1, <2>3, <2>4 DEF Known
<1> QED
    BY <1>1, MemoryInductive, PTL
-----------------------------------------------------------------------------
(***************************************************************************)
(* Ticks.  Every receipt that waits has an envelope behind it that is as   *)
(* far as the receipt says (Backed), and a tracked message whose envelope  *)
(* is the only one it can be taken for shows no more than is true of it,   *)
(* in memory and on disk (OwnTicks).                                       *)
(***************************************************************************)
\* No other envelope of the mail b has the recipient and the time of entry m.
Alone(m, b) ==
    \A n \in 1..Len(b) : n = m.env \/ b[n].to # m.to \/ b[n].ts # m.ts

OwnTicks(h, b) ==
    \A i \in 1..Len(h) : Alone(h[i], b) => Rank(h[i].status) =< b[h[i].env].stage

Backed == \A k \in 1..Len(inbox) : \E n : Backs(n, inbox[k], mail)

TickInv ==
    /\ MemoryInv /\ Backed
    /\ OwnTicks(mem.history, mail) /\ OwnTicks(Load("history"), mail)

LEMMA RankType == \A st \in Statuses : Rank(st) \in 1..3
BY RankIs DEF Statuses

\* The mail goes on, the entries are the same in what counts.
LEMMA OwnMore ==
    ASSUME NEW h, NEW g, NEW b, NEW c, Later(b, c), OwnTicks(h, b),
           Fits("history", h, Len(b)), Len(g) = Len(h),
           \A i \in 1..Len(h) : /\ g[i].env = h[i].env /\ g[i].to = h[i].to
                                /\ g[i].ts = h[i].ts /\ g[i].status = h[i].status
                                /\ h[i].status \in Statuses
    PROVE  OwnTicks(g, c)
<1>1. ASSUME NEW i \in 1..Len(g), Alone(g[i], c)
      PROVE  Rank(g[i].status) =< c[g[i].env].stage
  <2>1. PICK n : n = h[i].env
      OBVIOUS
  <2>2. i \in 1..Len(h) /\ n \in Nat /\ n # 0 /\ n =< Len(b) /\ Len(b) \in Nat
      BY <1>1, <2>1 DEF Fits, Later
  <2>3. n \in 1..Len(b)
      BY <2>2
  <2>4. /\ g[i].env = n /\ g[i].to = h[i].to /\ g[i].ts = h[i].ts
        /\ g[i].status = h[i].status /\ Rank(h[i].status) \in Int
      BY <2>1, <2>2, RankType
  <2>5. Alone(h[i], b)
    <3>1. ASSUME NEW k \in 1..Len(b), k # h[i].env
          PROVE  b[k].to # h[i].to \/ b[k].ts # h[i].ts
      <4>1. k \in 1..Len(c) /\ c[k].to = b[k].to /\ c[k].ts = b[k].ts
          BY <3>1 DEF Later
      <4> QED
          BY <1>1, <2>1, <2>4, <3>1, <4>1 DEF Alone
    <3> QED
        BY <3>1 DEF Alone
  <2>6. Rank(h[i].status) =< b[n].stage
      BY <2>1, <2>2, <2>5 DEF OwnTicks
  <2>7. b[n].stage =< c[n].stage /\ b[n].stage \in Int /\ c[n].stage \in Int
    <3>1. b[n] \in Envelopes /\ b[n].stage =< c[n].stage
        BY <2>3 DEF Later
    <3>2. c[n] \in Envelopes
      <4>1. PICK M : M = Envelopes
          OBVIOUS
      <4>2. c \in Seq(M) /\ n \in 1..Len(c)
          BY <2>3, <4>1 DEF Later
      <4>3. c[n] \in M
          BY <4>2, ElementOfSeq
      <4> QED
          BY <4>1, <4>3
    <3> QED
        BY <3>1, <3>2 DEF Envelopes
  <2> QED
      BY <2>4, <2>6, <2>7
<1> QED
    BY <1>1 DEF OwnTicks

\* A receipt stays backed.
LEMMA BacksMore ==
    ASSUME NEW n, NEW r \in ReceiptMessages, NEW b, NEW c, Later(b, c), Backs(n, r, b)
    PROVE  Backs(n, r, c)
<1>1. /\ n \in 1..Len(b) /\ b[n].to = r.from /\ b[n].ts = r.ts
      /\ Rank(r.level) =< b[n].stage
    BY DEF Backs
<1>2. /\ n \in 1..Len(c) /\ c[n].to = b[n].to /\ c[n].ts = b[n].ts
      /\ b[n].stage =< c[n].stage /\ b[n] \in Envelopes
    BY <1>1 DEF Later
<1>3. c[n] \in Envelopes
  <2>1. PICK M : M = Envelopes
      OBVIOUS
  <2>2. c \in Seq(M)
      BY <2>1 DEF Later
  <2>3. c[n] \in M
      BY <1>2, <2>2, ElementOfSeq
  <2> QED
      BY <2>1, <2>3
<1>4. b[n].stage \in Int /\ c[n].stage \in Int
    BY <1>2, <1>3 DEF Envelopes
<1>5. Rank(r.level) \in Int
    BY RankType DEF ReceiptMessages
<1>6. Rank(r.level) =< c[n].stage
    BY <1>1, <1>2, <1>4, <1>5
<1> QED
    BY <1>1, <1>2, <1>6 DEF Backs

\* The files are written and read again, and receipts that were fetched may
\* be lost.
LEMMA ProcessCopies ==
    ASSUME SaveInv, Process \/ report_sent
    PROVE  /\ mail' = mail
           /\ \A f \in Books : /\ mem'[f] \in {mem[f], Load(f), <<>>}
                               /\ Load(f)' \in {mem[f], Load(f), <<>>}
           /\ \A k \in 1..Len(inbox') : \E j \in 1..Len(inbox) : inbox'[k] = inbox[j]
<1> DEFINE Copies == \A f \in Books : /\ mem'[f] \in {mem[f], Load(f), <<>>}
                                      /\ Load(f)' \in {mem[f], Load(f), <<>>}
<1>0. MemOK /\ Shape
    BY DEF SaveInv, Shape
<1>1. ASSUME disk' = disk, \A f \in Books : mem'[f] \in {mem[f], Load(f), <<>>}
      PROVE  Copies
    BY <1>1, LoadSame
<1>2. ASSUME start PROVE Copies
    BY <1>1, <1>2, EmptyBook DEF start
<1>3. ASSUME crash PROVE Copies
    BY <1>1, <1>3, EmptyBook DEF crash
<1>4. ASSUME exit PROVE Copies
    BY <1>1, <1>4, EmptyBook DEF exit
<1>5. ASSUME NEW quit, save_all(quit) PROVE Copies
    BY <1>1, <1>5 DEF save_all
<1>6. ASSUME NEW f \in Files, truncate(f) PROVE Copies
  <2>1. <<>> \in Seq(Contents)
      BY EmptySeq
  <2>2. /\ Load(f)' = Empty(f) /\ mem' = mem
        /\ \A g \in Files : g # f => Load(g)' = Load(g)
      BY <1>0, <1>6, <2>1, DiskSet DEF truncate
  <2> QED
      BY <2>2, EmptyBook
<1>7. ASSUME NEW f \in Files, fill(f) PROVE Copies
  <2>1. <<mem[f]>> \in Seq(Contents) /\ <<mem[f]>> # <<>>
    <3>1. PICK x \in Contents : x = mem[f]
        BY <1>0 DEF MemOK
    <3>2. <<x>> \in Seq(Contents) /\ <<x>> # <<>>
        OBVIOUS
    <3> QED
        BY <3>1, <3>2
  <2>2. /\ Load(f)' = mem[f] /\ mem' = mem
        /\ \A g \in Files : g # f => Load(g)' = Load(g)
      BY <1>0, <1>7, <2>1, DiskSet DEF fill
  <2> QED
      BY <2>2, EmptyBook
<1>8. ASSUME NEW f \in Files, write_fails(f) PROVE Copies
    BY <1>1, <1>8 DEF write_fails
<1>9. ASSUME NEW r, change_rooms(r) PROVE Copies
  <2>1. mem'.history = mem.history /\ mem'.log = mem.log
      BY <1>0, <1>9 DEF change_rooms, MemOK, Files
  <2> QED
      BY <1>1, <1>9, <2>1 DEF change_rooms, Books
<1>10. ASSUME report_sent PROVE Copies
    BY <1>1, <1>10 DEF report_sent
<1>11. Copies
    BY <1>2, <1>3, <1>4, <1>5, <1>6, <1>7, <1>8, <1>9, <1>10 DEF Process
<1>12. mail' = mail /\ (crash \/ inbox' = inbox)
    BY DEF Process, start, crash, exit, save_all, truncate, fill, write_fails,
           change_rooms, report_sent, world
<1>13. ASSUME crash, NEW k \in 1..Len(inbox')
       PROVE  \E j \in 1..Len(inbox) : inbox'[k] = inbox[j]
  <2>1. PICK batch \in 0..Len(inbox) : inbox' = SubSeq(inbox, batch + 1, Len(inbox))
      BY <1>13 DEF crash
  <2>2. PICK R : R = ReceiptMessages
      OBVIOUS
  <2>3. PICK s \in Seq(R) : s = inbox
      BY <1>0, <2>2, MemParts
  <2>4. PICK l \in Nat : l = Len(s)
      BY LenProperties
  <2>5. batch \in Nat /\ batch =< l /\ batch + 1 \in Int
      BY <2>1, <2>3, <2>4
  <2>6. PICK t : t = SubSeq(s, batch + 1, l)
      OBVIOUS
  <2>7. \A i \in (batch + 1)..l : i \in 1..Len(s)
      BY <2>4, <2>5
  <2>8. /\ Len(t) = IF batch + 1 =< l THEN l - (batch + 1) + 1 ELSE 0
        /\ \A i \in 1..(l - (batch + 1) + 1) : t[i] = s[(batch + 1) + i - 1]
      BY <2>5, <2>6, <2>7, SubSeqProperties
  <2>9. t = inbox'
      BY <2>1, <2>3, <2>4, <2>6
  <2>10. k \in 1..(l - batch) /\ batch + 1 =< l
      BY <1>13, <2>5, <2>8, <2>9
  <2>11. t[k] = s[batch + k] /\ batch + k \in 1..l
    <3>1. k \in 1..(l - (batch + 1) + 1) /\ (batch + 1) + k - 1 = batch + k
        BY <2>5, <2>10
    <3>2. t[k] = s[(batch + 1) + k - 1]
        BY <2>8, <3>1
    <3> QED
        BY <2>5, <2>10, <3>1, <3>2
  <2> QED
      BY <2>3, <2>4, <2>9, <2>11
<1>14. ASSUME inbox' = inbox, NEW k \in 1..Len(inbox')
       PROVE  \E j \in 1..Len(inbox) : inbox'[k] = inbox[j]
    BY <1>14
<1> QED
    BY <1>11, <1>12, <1>13, <1>14

LEMMA TickStep == TickInv /\ [Next]_vars => TickInv'
<1> SUFFICES ASSUME TickInv, [Next]_vars PROVE TickInv'
    OBVIOUS
<1> DEFINE Now == OwnTicks(mem'.history, mail')
           Saved == OwnTicks(Load("history")', mail')
           Goal == Now /\ Saved /\ Backed'
<1>0. /\ MemoryInv /\ SaveInv /\ Shape /\ Orderly /\ Backed
      /\ OwnTicks(mem.history, mail) /\ OwnTicks(Load("history"), mail)
    BY DEF TickInv, MemoryInv, SaveInv
<1>a. /\ Fits("history", mem.history, Len(mail))
      /\ Fits("history", Load("history"), Len(mail))
      /\ \A i \in 1..Len(mem.history) : mem.history[i].status \in Statuses
      /\ \A i \in 1..Len(Load("history")) : Load("history")[i].status \in Statuses
  <2>1. /\ Fits("history", mem.history, Len(mail))
        /\ Fits("history", Load("history"), Len(mail))
      BY <1>0 DEF MemoryInv, AllFit, Books
  <2>2. \A i \in 1..Len(mem.history) : mem.history[i].status \in Statuses
      BY <1>0, MemParts DEF Entries
  <2>3. ASSUME NEW i \in 1..Len(Load("history"))
        PROVE  Load("history")[i].status \in Statuses
    <3>1. PICK E : E = Entries
        OBVIOUS
    <3>2. PICK s \in Seq(E) : s = Load("history")
        BY <1>0, <3>1, MemParts
    <3>3. s[i] \in E
        BY <3>2, ElementOfSeq
    <3> QED
        BY <3>1, <3>2, <3>3 DEF Entries
  <2> QED
      BY <2>1, <2>2, <2>3
<1>b. ASSUME Later(mail, mail'), disk' = disk PROVE Saved
  <2>1. Load("history")' = Load("history")
      BY <1>b, LoadSame
  <2>2. PICK h : h = Load("history")
      OBVIOUS
  <2>3. OwnTicks(h, mail')
      BY <1>0, <1>a, <1>b, <2>2, OwnMore
  <2> QED
      BY <2>1, <2>2, <2>3
<1>c. ASSUME Later(mail, mail'), mem'.history = mem.history PROVE Now
  <2>1. PICK h : h = mem.history
      OBVIOUS
  <2>2. OwnTicks(h, mail')
      BY <1>0, <1>a, <1>c, <2>1, OwnMore
  <2> QED
      BY <1>c, <2>1, <2>2
<1>d. ASSUME Later(mail, mail'),
             \A k \in 1..Len(inbox') :
                 \/ \E j \in 1..Len(inbox) : inbox'[k] = inbox[j]
                 \/ \E n : Backs(n, inbox'[k], mail')
      PROVE  Backed'
  <2>1. ASSUME NEW k \in 1..Len(inbox') PROVE \E n : Backs(n, inbox'[k], mail')
    <3>1. ASSUME NEW j \in 1..Len(inbox), inbox'[k] = inbox[j]
          PROVE  \E n : Backs(n, inbox'[k], mail')
      <4>1. PICK n : Backs(n, inbox[j], mail)
          BY <1>0 DEF Backed
      <4>2. inbox[j] \in ReceiptMessages
          BY <1>0, MemParts
      <4>3. Backs(n, inbox[j], mail')
          BY <1>d, <4>1, <4>2, BacksMore
      <4> QED
          BY <3>1, <4>3
    <3> QED
        BY <1>d, <3>1
  <2> QED
      BY <2>1 DEF Backed, Backs, Rank
<1>1. ASSUME Process \/ report_sent PROVE Goal
  <2>1. /\ mail' = mail /\ mem'.history \in {mem.history, Load("history"), <<>>}
        /\ Load("history")' \in {mem.history, Load("history"), <<>>}
        /\ \A k \in 1..Len(inbox') : \E j \in 1..Len(inbox) : inbox'[k] = inbox[j]
      BY <1>0, <1>1, ProcessCopies DEF Books
  <2>2. OwnTicks(<<>>, mail)
    <3>1. Len(<<>>) = 0
        OBVIOUS
    <3> QED
        BY <3>1 DEF OwnTicks
  <2>3. Now /\ Saved
      BY <1>0, <2>1, <2>2
  <2>4. Later(mail, mail')
      BY <1>0, <2>1, LaterSame
  <2> QED
      BY <1>d, <2>1, <2>3, <2>4
<1>e. ASSUME Later(mail, mail'), inbox' = inbox PROVE Backed'
    BY <1>d, <1>e
<1>2. ASSUME NEW m, NEW e, Sends(m, e) PROVE Goal
  <2>1. /\ m \in Entries /\ m.env = Len(mail) + 1 /\ m.status = "Sent"
        /\ e \in Envelopes /\ e.stage = 1 /\ mail' = Append(mail, e)
        /\ mem'.history = Append(mem.history, m) /\ UNCHANGED <<disk, inbox>>
      BY <1>2 DEF Sends
  <2>2. Later(mail, mail') /\ mail'[Len(mail) + 1] = e
      BY <1>0, <2>1, LaterAppend
  <2>3. PICK E : E = Entries
      OBVIOUS
  <2>4. PICK h \in Seq(E) : h = mem.history
      BY <1>0, <2>3, MemParts
  <2>5. PICK g : g = Append(h, m)
      OBVIOUS
  <2>6. /\ Len(h) \in Nat /\ Len(g) = Len(h) + 1 /\ g[Len(h) + 1] = m
        /\ \A i \in 1..Len(h) : g[i] = h[i]
      BY <2>1, <2>3, <2>5, AppendProperties, LenProperties
  <2>7. OwnTicks(h, mail')
      BY <1>0, <1>a, <2>2, <2>4, OwnMore
  <2>8. ASSUME NEW i \in 1..Len(g), Alone(g[i], mail')
        PROVE  Rank(g[i].status) =< mail'[g[i].env].stage
    <3>1. CASE i \in 1..Len(h)
        BY <2>6, <2>7, <2>8, <3>1 DEF OwnTicks
    <3>2. CASE i = Len(h) + 1
      <4>1. g[i] = m /\ mail'[m.env] = e
          BY <2>1, <2>2, <2>6, <3>2
      <4>2. Rank(m.status) = 1
          BY <2>1, RankIs
      <4> QED
          BY <2>1, <4>1, <4>2
    <3> QED
        BY <2>6, <3>1, <3>2
  <2>9. OwnTicks(g, mail')
      BY <2>8 DEF OwnTicks
  <2>10. Now
      BY <2>1, <2>4, <2>5, <2>9
  <2> QED
      BY <1>b, <1>e, <2>1, <2>2, <2>10
<1>3. ASSUME NEW e, Logs(e) PROVE Goal
  <2>1. mem'.history = mem.history /\ UNCHANGED <<disk, mail, inbox>>
      BY <1>3 DEF Logs
  <2>2. Later(mail, mail')
      BY <1>0, <2>1, LaterSame
  <2> QED
      BY <1>b, <1>c, <1>e, <2>1, <2>2
<1>4. ASSUME record_sent \/ receive_message PROVE Goal
    BY <1>0, <1>3, <1>4, RecordIs, ReceiveIs
<1>5. ASSUME NEW i, edit_message(i) PROVE Goal
  <2>1. Edits(i)
      BY <1>0, <1>5, EditsIs
  <2>2. Later(mail, mail')
      BY <1>0, <2>1, LaterSame, LaterAppend DEF Edits
  <2>3. PICK h, g : h = mem.history /\ g = mem'.history
      OBVIOUS
  <2>4. /\ Len(g) = Len(h)
        /\ \A k \in 1..Len(h) : /\ g[k].env = h[k].env /\ g[k].to = h[k].to
                                /\ g[k].ts = h[k].ts /\ g[k].status = h[k].status
                                /\ h[k].status \in Statuses
    <3>1. /\ Changed(i, mem'.history)
          /\ mem'.history[i].status = mem.history[i].status
        BY <2>1 DEF Edits
    <3>2. ASSUME NEW k \in 1..Len(h) PROVE g[k].status = h[k].status
        BY <2>3, <3>1, <3>2 DEF Changed
    <3> QED
        BY <1>a, <2>3, <3>1, <3>2 DEF Changed
  <2>5. OwnTicks(g, mail')
      BY <1>0, <1>a, <2>2, <2>3, <2>4, OwnMore
  <2>6. disk' = disk /\ inbox' = inbox
      BY <2>1 DEF Edits
  <2> QED
      BY <1>b, <1>e, <2>2, <2>3, <2>5, <2>6
\* A receipt is about the one envelope that has its recipient and time.
<1>6. ASSUME receive_receipt PROVE Goal
  <2>1. /\ inbox # <<>> /\ inbox' = Tail(inbox) /\ UNCHANGED <<disk, mail>>
        /\ UNCHANGED <<mem, todo>> \/ \E i : Ticks(i, Head(inbox))
      BY <1>0, <1>6, TicksIs
  <2>2. Later(mail, mail')
      BY <1>0, <2>1, LaterSame
  <2>3. /\ Head(inbox) = inbox[1] /\ 1 \in 1..Len(inbox)
        /\ \A k \in 1..Len(inbox') : \E j \in 1..Len(inbox) : inbox'[k] = inbox[j]
    <3>1. PICK R : R = ReceiptMessages
        OBVIOUS
    <3>2. PICK s \in Seq(R) : s = inbox
        BY <1>0, <3>1, MemParts
    <3>3. /\ Len(s) \in Nat /\ Len(s) > 0 /\ Head(s) = s[1]
          /\ Len(Tail(s)) = Len(s) - 1
          /\ \A k \in 1..(Len(s) - 1) : Tail(s)[k] = s[k + 1]
        BY <2>1, <3>2, HeadTailProperties, EmptySeq, LenProperties
    <3>4. ASSUME NEW k \in 1..Len(inbox')
          PROVE  \E j \in 1..Len(inbox) : inbox'[k] = inbox[j]
      <4>1. k \in 1..(Len(s) - 1) /\ inbox' = Tail(s)
          BY <2>1, <3>2, <3>3
      <4>2. Tail(s)[k] = s[k + 1] /\ k + 1 \in 1..Len(s)
          BY <3>3, <4>1
      <4> QED
          BY <3>2, <4>1, <4>2
    <3>5. Head(s) = s[1] /\ 1 \in 1..Len(s)
        BY <3>3
    <3> QED
        BY <3>2, <3>4, <3>5
  <2>4. Backed'
      BY <1>d, <2>2, <2>3
  <2>5. ASSUME NEW i, Ticks(i, Head(inbox)) PROVE Now
    <3>1. PICK r : r = Head(inbox)
        OBVIOUS
    <3>2. PICK n : Backs(n, r, mail)
        BY <1>0, <2>3, <3>1 DEF Backed
    <3>3. PICK h, g : h = mem.history /\ g = mem'.history
        OBVIOUS
    <3>4. /\ Changed(i, g) /\ g[i].status = r.level
          /\ h[i].to = r.from /\ h[i].ts = r.ts
        BY <2>5, <3>1, <3>3 DEF Ticks
    <3>5. ASSUME NEW k \in 1..Len(g), Alone(g[k], mail)
          PROVE  Rank(g[k].status) =< mail[g[k].env].stage
      <4>1. CASE k # i
        <5>1. g[k] = h[k] /\ k \in 1..Len(h)
            BY <3>3, <3>4, <4>1 DEF Changed
        <5> QED
            BY <1>0, <3>3, <3>5, <5>1 DEF OwnTicks
      <4>2. CASE k = i
        <5>1. g[k].env = h[i].env /\ g[k].to = r.from /\ g[k].ts = r.ts
            BY <3>3, <3>4, <3>5, <4>2 DEF Changed
        <5>2. n = g[k].env
            BY <3>2, <3>5, <5>1 DEF Backs, Alone
        <5> QED
            BY <3>2, <3>4, <4>2, <5>2 DEF Backs
      <4> QED
          BY <4>1, <4>2
    <3>6. OwnTicks(g, mail)
        BY <3>5 DEF OwnTicks
    <3> QED
        BY <2>1, <3>3, <3>6
  <2>6. Now
      BY <1>c, <2>1, <2>2, <2>5
  <2> QED
      BY <1>b, <2>1, <2>2, <2>4, <2>6
<1>7. ASSUME tick \/ UNCHANGED vars PROVE Goal
  <2>1. UNCHANGED <<mem, disk, mail, inbox>>
      BY <1>7 DEF tick, vars
  <2>2. Later(mail, mail')
      BY <1>0, <2>1, LaterSame
  <2> QED
      BY <1>b, <1>c, <1>e, <2>1, <2>2
<1>8. ASSUME Answers, UNCHANGED <<mem, disk>> PROVE Goal
  <2>1. Later(mail, mail')
      BY <1>8 DEF Answers
  <2>2. Backed'
      BY <1>8, <1>d, <2>1 DEF Answers
  <2> QED
      BY <1>8, <1>b, <1>c, <2>1, <2>2
<1>9. ASSUME NEW p, peer_fetches(p) PROVE Goal
    BY <1>0, <1>8, <1>9, FetchIs DEF peer_fetches
<1>10. ASSUME NEW n, peer_reads(n) PROVE Goal
    BY <1>0, <1>8, <1>10, ReadIs DEF peer_reads
<1>11. ASSUME NEW p \in Peers,
              \/ send_message(p)
              \/ \E later \in clock..MaxTime :
                     send_group_message(p, later) \/ send_file(p, later)
       PROVE  Goal
    BY <1>0, <1>2, <1>11, SendsIs
<1>12. Goal
    BY <1>1, <1>4, <1>5, <1>6, <1>7, <1>9, <1>10, <1>11
       DEF Next, Messages, World
<1>13. MemoryInv'
    BY <1>0, MemoryStep
<1>14. (OwnTicks(mem.history, mail))' /\ (OwnTicks(Load("history"), mail))'
    BY <1>12 DEF OwnTicks, Alone, Rank
<1> QED
    BY <1>12, <1>13, <1>14 DEF TickInv

LEMMA TickInductive == Spec => []TickInv
<1>1. Init => TickInv
  <2> SUFFICES ASSUME Init PROVE TickInv
      OBVIOUS
  <2>1. mem.history = <<>> /\ Load("history") = <<>> /\ inbox = <<>>
      BY EmptyBook DEF Init, Load, Books
  <2>2. Len(<<>>) = 0
      OBVIOUS
  <2>3. Backed /\ OwnTicks(mem.history, mail) /\ OwnTicks(Load("history"), mail)
      BY <2>1, <2>2 DEF Backed, OwnTicks
  <2> QED
      BY <2>3, MemoryInit DEF TickInv
<1> QED
    BY <1>1, TickStep, PTL DEF Spec

(***************************************************************************)
(* TicksAreTrue: a tracked message shows as delivered or read only if its  *)
(* own envelope was, restarts included, unless another envelope to the     *)
(* same recipient bears the same millisecond: the receipt's sender and     *)
(* time are all that receive_receipt looks at.                             *)
(***************************************************************************)
THEOREM TicksAreTrue == Spec => []TicksAreOwn
<1>1. TickInv => TicksAreOwn
  <2> SUFFICES ASSUME TickInv, NEW i \in DOMAIN mem.history, ~Shared(mem.history[i])
               PROVE  Rank(mem.history[i].status) =< mail[mem.history[i].env].stage
      BY DEF TicksAreOwn
  <2>1. i \in 1..Len(mem.history) /\ DOMAIN mail = 1..Len(mail)
      BY MemParts DEF TickInv, MemoryInv, SaveInv
  <2>2. Alone(mem.history[i], mail)
      BY <2>1 DEF Shared, Alone
  <2> QED
      BY <2>1, <2>2 DEF TickInv, OwnTicks
<1> QED
    BY <1>1, TickInductive, PTL

-----------------------------------------------------------------------------
(***************************************************************************)
(* Marks of edits.  The two books agree on them in memory and, while no    *)
(* process runs, on disk; within a command the files may differ from each  *)
(* other, which is why astray also records a crash there.                  *)
(***************************************************************************)
Agree(h, l) ==
    \A i \in 1..Len(h), j \in 1..Len(l) :
        h[i].env = l[j].env => h[i].edited = l[j].edited

EditInv ==
    /\ MemoryInv
    /\ ~astray /\ lost = {} =>
         /\ up  => Agree(mem.history, mem.log)
         /\ ~up => Agree(Load("history"), Load("log"))

\* The process ends with everything saved: the files are as memory was.
LEMMA EndsSaved ==
    ASSUME SaveInv, up, failed = {}, \A f \in Books : f \notin Left(todo)
    PROVE  Load("history") = mem.history /\ Load("log") = mem.log
BY DEF SaveInv, Kept, Books, Files

LEMMA EditStep == EditInv /\ [Next]_vars => EditInv'
<1> SUFFICES ASSUME EditInv, [Next]_vars PROVE EditInv'
    OBVIOUS
<1> DEFINE Clean == ~astray' /\ lost' = {}
           Now == Agree(mem'.history, mem'.log)
           Saved == Agree(Load("history")', Load("log")')
           Goal == Clean => (up' => Now) /\ (~up' => Saved)
<1>0. /\ MemoryInv /\ SaveInv /\ Shape /\ Orderly
      /\ ~astray /\ lost = {} /\ up => Agree(mem.history, mem.log)
      /\ ~astray /\ lost = {} /\ ~up => Agree(Load("history"), Load("log"))
    BY DEF EditInv, MemoryInv, SaveInv
<1>a. /\ Fits("history", mem.history, Len(mail))
      /\ Fits("log", mem.log, Len(mail)) /\ Len(mail) \in Nat
    BY <1>0, MemParts DEF MemoryInv, AllFit, Books
\* Nothing happens to the books.
<1>b. ASSUME mem'.history = mem.history, mem'.log = mem.log, up' = up, up,
             ~astray' => ~astray, lost' = lost
      PROVE  Goal
    BY <1>0, <1>b
\* The process begins and ends.
<1>1. ASSUME start PROVE Goal
  <2>1. /\ ~up /\ up' = TRUE /\ astray' = astray /\ lost' = lost
        /\ mem'.history = Load("history") /\ mem'.log = Load("log")
      BY <1>1 DEF start, notes, Files
  <2> QED
      BY <1>0, <2>1
<1>2. ASSUME crash PROVE Goal
  <2> SUFFICES ASSUME Clean PROVE Saved /\ up' = FALSE
      BY DEF crash
  <2>1. /\ up /\ up' = FALSE /\ todo = <<>> /\ ~astray /\ lost = {} /\ failed = {}
        /\ disk' = disk
      BY <1>2 DEF crash
  <2>2. Left(todo) = {}
      BY <2>1, PlansAre
  <2>3. Load("history") = mem.history /\ Load("log") = mem.log
      BY <1>0, <2>1, <2>2, EndsSaved
  <2>4. Load("history")' = Load("history") /\ Load("log")' = Load("log")
      BY <2>1, LoadSame
  <2> QED
      BY <1>0, <2>1, <2>3, <2>4
<1>3. ASSUME exit PROVE Goal
  <2> SUFFICES ASSUME Clean PROVE Saved /\ up' = FALSE
      BY <1>3 DEF exit
  <2>1. /\ up /\ up' = FALSE /\ todo # <<>> /\ Head(todo) = "exit"
        /\ ~astray /\ lost = {} /\ failed = {} /\ disk' = disk
      BY <1>3 DEF exit, Saving
  <2>2. Left(todo) = {"exit"}
    <3>1. Planned(todo)
        BY <1>0 DEF Orderly
    <3>2. Tail(todo) = <<>> /\ Left(todo) = {Head(todo)} \cup Left(Tail(todo))
        BY <2>1, <3>1, PlanTail
    <3>3. Left(<<>>) = {}
        BY PlansAre
    <3> QED
        BY <2>1, <3>2, <3>3
  <2>3. Load("history") = mem.history /\ Load("log") = mem.log
      BY <1>0, <2>1, <2>2, EndsSaved DEF Books
  <2>4. Load("history")' = Load("history") /\ Load("log")' = Load("log")
      BY <2>1, LoadSame
  <2> QED
      BY <1>0, <2>1, <2>3, <2>4
<1>4. ASSUME \/ \E quit \in BOOLEAN : save_all(quit)
             \/ \E f \in Files : truncate(f) \/ fill(f) \/ write_fails(f)
             \/ report_sent
      PROVE  Goal
  <2>1. mem' = mem /\ up' = up /\ up /\ astray' = astray /\ lost' = lost
      BY <1>4 DEF save_all, truncate, fill, write_fails, report_sent, AtPrompt,
                  Saving, notes
  <2> QED
      BY <1>b, <2>1
<1>5. ASSUME NEW r, change_rooms(r) PROVE Goal
  <2>1. mem'.history = mem.history /\ mem'.log = mem.log
      BY <1>0, <1>5 DEF change_rooms, Shape, MemOK, Files
  <2>2. up' = up /\ up /\ astray' = astray /\ lost' = lost
      BY <1>5 DEF change_rooms, AtPrompt, notes
  <2> QED
      BY <1>b, <2>1, <2>2
<1>6. ASSUME Process \/ report_sent PROVE Goal
    BY <1>1, <1>2, <1>3, <1>4, <1>5, <1>6 DEF Process
\* A message that is sent is newer than all that is logged.
<1>7. ASSUME NEW m, NEW e, Sends(m, e) PROVE Goal
  <2>1. /\ m \in Entries /\ m.env = Len(mail) + 1
        /\ mem'.history = Append(mem.history, m) /\ mem'.log = mem.log
        /\ up /\ up' = up /\ astray' = astray /\ lost' = lost
      BY <1>7 DEF Sends, AtPrompt, notes
  <2> SUFFICES ASSUME Agree(mem.history, mem.log) PROVE Now
      BY <1>0, <2>1
  <2>2. PICK E : E = Entries
      OBVIOUS
  <2>3. PICK h \in Seq(E) : h = mem.history
      BY <1>0, <2>2, MemParts
  <2>4. PICK g : g = Append(h, m)
      OBVIOUS
  <2>5. /\ Len(h) \in Nat /\ Len(g) = Len(h) + 1 /\ g[Len(h) + 1] = m
        /\ \A i \in 1..Len(h) : g[i] = h[i]
      BY <2>1, <2>2, <2>4, AppendProperties, LenProperties
  <2>6. PICK l : l = mem.log
      OBVIOUS
  <2>7. ASSUME NEW i \in 1..Len(g), NEW j \in 1..Len(l), g[i].env = l[j].env
        PROVE  g[i].edited = l[j].edited
    <3>1. CASE i \in 1..Len(h)
        BY <2>3, <2>5, <2>6, <2>7, <3>1 DEF Agree
    <3>2. CASE i = Len(h) + 1
      <4>1. l[j].env \in Nat /\ l[j].env =< Len(mail)
          BY <1>a, <2>6 DEF Fits
      <4>2. l[j].env = Len(mail) + 1
          BY <2>1, <2>5, <2>7, <3>2
      <4> QED
          BY <1>a, <4>1, <4>2
    <3> QED
        BY <2>5, <3>1, <3>2
  <2>8. Agree(g, l)
      BY <2>7 DEF Agree
  <2> QED
      BY <2>1, <2>3, <2>4, <2>6, <2>8
\* An entry is logged: only messages that have it too are to agree.
<1>8. ASSUME NEW e, Logs(e),
             \A i \in 1..Len(mem.history) :
                 mem.history[i].env = e.env => mem.history[i].edited = FALSE
      PROVE  Goal
  <2>1. /\ e \in LogEntries /\ e.edited = FALSE
        /\ mem'.log = Append(mem.log, e) /\ mem'.history = mem.history
        /\ up /\ up' = up /\ astray' = astray /\ lost' = lost
      BY <1>8 DEF Logs, notes
  <2> SUFFICES ASSUME Agree(mem.history, mem.log) PROVE Now
      BY <1>0, <2>1
  <2>2. PICK E : E = LogEntries
      OBVIOUS
  <2>3. PICK l \in Seq(E) : l = mem.log
      BY <1>0, <2>2, MemParts
  <2>4. PICK k : k = Append(l, e)
      OBVIOUS
  <2>5. /\ Len(l) \in Nat /\ Len(k) = Len(l) + 1 /\ k[Len(l) + 1] = e
        /\ \A j \in 1..Len(l) : k[j] = l[j]
      BY <2>1, <2>2, <2>4, AppendProperties, LenProperties
  <2>6. PICK h : h = mem.history
      OBVIOUS
  <2>7. ASSUME NEW i \in 1..Len(h), NEW j \in 1..Len(k), h[i].env = k[j].env
        PROVE  h[i].edited = k[j].edited
    <3>1. CASE j \in 1..Len(l)
        BY <2>3, <2>5, <2>6, <2>7, <3>1 DEF Agree
    <3>2. CASE j = Len(l) + 1
      <4>1. k[j] = e
          BY <2>5, <3>2
      <4>2. h[i].edited = FALSE
          BY <1>8, <2>6, <2>7, <4>1
      <4> QED
          BY <2>1, <4>1, <4>2
    <3> QED
        BY <2>5, <3>1, <3>2
  <2>8. Agree(h, k)
      BY <2>7 DEF Agree
  <2> QED
      BY <2>1, <2>3, <2>4, <2>6, <2>8
<1>9. ASSUME receive_message PROVE Goal
  <2>1. PICK e : e.env = 0 /\ Logs(e)
      BY <1>0, <1>9, ReceiveIs
  <2>2. \A i \in 1..Len(mem.history) : mem.history[i].env # 0
      BY <1>a DEF Fits
  <2> QED
      BY <1>8, <2>1, <2>2
<1>10. ASSUME record_sent PROVE Goal
  <2>1. PICK e : e.env = Last(mem.history).env /\ Logs(e)
      BY <1>0, <1>10, RecordIs
  <2>2. Last(mem.history).env = Len(mail) /\ Last(mem.history).edited = FALSE
      BY <1>0, <1>10, RecordIs DEF MemoryInv, Pending
  <2>3. ASSUME NEW i \in 1..Len(mem.history), mem.history[i].env = e.env
        PROVE  mem.history[i].edited = FALSE
    <3>1. PICK h : h = mem.history
        OBVIOUS
    <3>2. Len(h) \in Nat
        BY <1>0, <3>1, MemParts
    <3>3. Len(h) \in 1..Len(h) /\ Last(h) = h[Len(h)]
        BY <2>3, <3>1, <3>2 DEF Last
    <3>4. i = Len(h)
      <4>1. h[i].env # 0 /\ h[i].env = h[Len(h)].env
          BY <1>a, <2>1, <2>3, <3>1, <3>3 DEF Fits
      <4> QED
          BY <1>a, <2>3, <3>1, <3>3, <4>1 DEF Fits
    <3> QED
        BY <2>2, <3>1, <3>3, <3>4
  <2> QED
      BY <1>8, <2>1, <2>3
\* An edit that is not astray marks the same message in both books.
<1>11. ASSUME NEW i, edit_message(i) PROVE Goal
  <2>1. Edits(i)
      BY <1>0, <1>11, EditsIs
  <2>2. up /\ up' = up /\ lost' = lost
      BY <2>1 DEF Edits, AtPrompt
  <2> SUFFICES ASSUME ~astray', Agree(mem.history, mem.log) PROVE Now
      BY <1>0, <2>1, <2>2 DEF Edits
  <2>3. PICK h, g, l, k : /\ h = mem.history /\ g = mem'.history
                          /\ l = mem.log /\ k = mem'.log
      OBVIOUS
  <2>4. PICK x : x = Max(Outgoing(l))
      OBVIOUS
  <2>5. /\ Outgoing(l) # {} /\ l[x].env = h[i].env
        /\ g[i].edited /\ Changed(i, g) /\ Marked(l, k)
      BY <2>1, <2>3, <2>4 DEF Edits
  <2>6. /\ x \in 1..Len(l) /\ l[x].env # 0 /\ k[x].edited /\ Len(k) = Len(l)
        /\ \A j \in 1..Len(l) : k[j].env = l[j].env /\ (j # x => k[j] = l[j])
      BY <2>4, <2>5 DEF Marked
  <2>7. /\ i \in 1..Len(h) /\ Len(g) = Len(h)
        /\ \A n \in 1..Len(h) : g[n].env = h[n].env /\ (n # i => g[n] = h[n])
      BY <2>3, <2>5 DEF Changed
  <2>8. /\ \A n \in 1..Len(h) : h[n].env = h[i].env => n = i
        /\ \A j \in 1..Len(l) : l[j].env = l[x].env => j = x
    <3>1. h[i].env # 0
        BY <2>5, <2>6
    <3> QED
        BY <1>a, <2>3, <2>6, <2>7, <3>1 DEF Fits
  <2>9. g[i].edited = TRUE /\ k[x].edited = TRUE
    <3>1. g \in Seq(Entries) /\ k \in Seq(LogEntries)
        BY <2>5 DEF Changed, Marked
    <3>2. PICK E : E = Entries
        OBVIOUS
    <3>3. PICK L : L = LogEntries
        OBVIOUS
    <3>4. g \in Seq(E) /\ k \in Seq(L)
        BY <3>1, <3>2, <3>3
    <3>5. g[i] \in E /\ k[x] \in L
        BY <2>6, <2>7, <3>4, ElementOfSeq
    <3>6. g[i].edited \in BOOLEAN /\ k[x].edited \in BOOLEAN
        BY <3>2, <3>3, <3>5 DEF Entries, LogEntries
    <3> QED
        BY <2>5, <2>6, <3>6
  <2>10. ASSUME NEW n \in 1..Len(g), NEW j \in 1..Len(k), g[n].env = k[j].env
         PROVE  g[n].edited = k[j].edited
    <3>1. n \in 1..Len(h) /\ j \in 1..Len(l) /\ h[n].env = l[j].env
        BY <2>6, <2>7, <2>10
    <3>2. n = i <=> j = x
        BY <2>5, <2>8, <3>1
    <3>3. CASE n = i
        BY <2>9, <3>2, <3>3
    <3>4. CASE n # i
      <4>1. g[n] = h[n] /\ k[j] = l[j]
          BY <2>6, <2>7, <3>1, <3>2, <3>4
      <4>2. h[n].edited = l[j].edited
          BY <2>3, <3>1 DEF Agree
      <4> QED
          BY <4>1, <4>2
    <3> QED
        BY <3>3, <3>4
  <2>11. Agree(g, k)
      BY <2>10 DEF Agree
  <2> QED
      BY <2>3, <2>11
<1>12. ASSUME receive_receipt PROVE Goal
  <2>1. /\ UNCHANGED <<mem, todo>> \/ \E i : Ticks(i, Head(inbox))
        /\ up /\ up' = up /\ astray' = astray /\ lost' = lost
      BY <1>0, <1>12, TicksIs DEF AtPrompt, notes
  <2>2. ASSUME NEW i, Ticks(i, Head(inbox)) PROVE Goal
    <3> SUFFICES ASSUME Agree(mem.history, mem.log) PROVE Now
        BY <1>0, <2>1
    <3>1. PICK h, g, l : h = mem.history /\ g = mem'.history /\ l = mem.log
        OBVIOUS
    <3>2. Changed(i, g) /\ g[i].edited = h[i].edited /\ mem'.log = l
        BY <2>2, <3>1 DEF Ticks
    <3>3. /\ Len(g) = Len(h)
          /\ \A n \in 1..Len(h) : g[n].env = h[n].env /\ g[n].edited = h[n].edited
      <4>1. ASSUME NEW n \in 1..Len(g)
            PROVE  g[n].env = h[n].env /\ g[n].edited = h[n].edited
          BY <3>1, <3>2 DEF Changed
      <4> QED
          BY <3>1, <3>2, <4>1 DEF Changed
    <3>4. Agree(g, l)
        BY <3>1, <3>3 DEF Agree
    <3> QED
        BY <3>1, <3>2, <3>4
  <2> QED
      BY <1>b, <2>1, <2>2
\* The world leaves the process and its files alone.
<1>13. ASSUME UNCHANGED <<up, mem, disk, notes>> PROVE Goal
  <2>1. Load("history")' = Load("history") /\ Load("log")' = Load("log")
      BY <1>13, LoadSame
  <2> QED
      BY <1>0, <1>13, <2>1 DEF notes
<1>14. ASSUME World \/ UNCHANGED vars PROVE Goal
  <2>1. UNCHANGED <<up, mem, disk, notes>>
      BY <1>14 DEF World, tick, peer_fetches, peer_reads, vars, notes
  <2> QED
      BY <1>13, <2>1
<1>15. ASSUME NEW p \in Peers,
              \/ send_message(p)
              \/ \E later \in clock..MaxTime :
                     send_group_message(p, later) \/ send_file(p, later)
       PROVE  Goal
    BY <1>0, <1>7, <1>15, SendsIs
<1>16. Goal
    BY <1>6, <1>9, <1>10, <1>11, <1>12, <1>14, <1>15 DEF Next, Messages
<1>17. MemoryInv'
    BY <1>0, MemoryStep
<1>18. /\ Now => (Agree(mem.history, mem.log))'
       /\ Saved => (Agree(Load("history"), Load("log")))'
    BY DEF Agree
<1> QED
    BY <1>16, <1>17, <1>18 DEF EditInv

LEMMA EditInductive == Spec => []EditInv
<1>1. Init => EditInv
  <2> SUFFICES ASSUME Init PROVE EditInv
      OBVIOUS
  <2>1. ~up /\ Load("history") = <<>>
      BY EmptyBook DEF Init, Load, Books
  <2>2. Len(<<>>) = 0
      OBVIOUS
  <2>3. Agree(Load("history"), Load("log"))
      BY <2>1, <2>2 DEF Agree
  <2> QED
      BY <2>1, <2>3, MemoryInit DEF EditInv
<1> QED
    BY <1>1, EditStep, PTL DEF Spec

(***************************************************************************)
(* EditMarksHold: while every edit is of the newest logged message and no  *)
(* crash comes within a command, the tracked messages and the log agree on *)
(* what was edited, through any restarts: /edit looks for its entry in     *)
(* each of the two lists in a way of its own.                              *)
(***************************************************************************)
THEOREM EditMarksHold == Spec => []EditMarksAgree
<1>1. EditInv => EditMarksAgree
  <2> SUFFICES ASSUME EditInv, AtPrompt, ~astray, lost \cup failed = {},
                      NEW i \in DOMAIN mem.history, NEW j \in DOMAIN mem.log,
                      mem.history[i].env = mem.log[j].env
               PROVE  mem.history[i].edited = mem.log[j].edited
      BY DEF EditMarksAgree
  <2>1. i \in 1..Len(mem.history) /\ j \in 1..Len(mem.log)
      BY MemParts DEF EditInv, MemoryInv, SaveInv
  <2>2. Agree(mem.history, mem.log)
    <3>1. lost = {}
        OBVIOUS
    <3> QED
        BY <3>1 DEF EditInv, AtPrompt
  <2> QED
      BY <2>1, <2>2 DEF Agree
<1> QED
    BY <1>1, EditInductive, PTL
=============================================================================
