------------------------- MODULE FileTransferProofs -------------------------
(***************************************************************************)
(* Theorems about FileTransfer, for any users, file names, file sizes and  *)
(* chunk size, and any number of files and faults.                         *)
(*                                                                         *)
(* The actions are first restated by what they do to one file: NewFile,    *)
(* ChunkGone, Completes, Collects and Loses, and Quits for all files of a  *)
(* user.  Two invariants follow: Shape says that every chunk, entry and    *)
(* download is one of a file that was sent, Flow where the chunks of a     *)
(* file can be.                                                            *)
(***************************************************************************)
EXTENDS FileTransfer, FiniteSetTheorems, SequenceTheorems, WellFoundedInduction, TLAPS

\* Files of any size, and what is made of them.
AllFiles == [id : Nat, from : Users, to : Users, name : Names, size : Nat]

\* The chunks of f, counted from 0, and what pending_files keeps of them.
Idx(f) == {i \in 0..f.size : i * CHUNK_SIZE < f.size}
Part(f, i) == [index |-> i, data |-> chunk_data(f, i)]
PartsOf(f) == {Part(f, i) : i \in Idx(f)}

AllChunks == {Chunk(f, i) : f \in AllFiles, i \in Nat}
AllParts == {Part(f, i) : f \in AllFiles, i \in Nat}
Entries == [id : Nat, name : Names, total : Nat, received : SUBSET AllParts]

\* What a name can hold.
Contents == Seq(Nat \X Nat)

\* The type invariant of the proof; sizes and counts are not bounded.
TransferTypes ==
    /\ files \in SUBSET AllFiles /\ IsFiniteSet(files)
    /\ sending \in [Users -> SUBSET [file : AllFiles, next : Nat]]
    /\ queue \in [Users -> Seq(AllChunks)]
    /\ pending \in [Users -> SUBSET Entries]
    /\ downloads \in [Users -> [Names -> SUBSET Contents]]

\* A file_id stands for one file.
FileIds ==
    /\ \A f \in files : f.id =< Cardinality(files)
    /\ \A f, g \in files : f.id = g.id => f = g
    /\ \A x \in saved : \E f \in files : x = f.id

\* A user sends one file at a time, one with chunks left.
Sends ==
    \A u \in Users :
        /\ \A w, x \in sending[u] : w = x
        /\ \A w \in sending[u] : w.file \in files /\ w.file.from = u
                                   /\ w.next \in Idx(w.file)

\* Every chunk at the relay is one of a file sent to that user.
Queues ==
    \A u \in Users : \A k \in DOMAIN queue[u] :
        \E f \in files : f.to = u /\ \E i \in Idx(f) : queue[u][k] = Chunk(f, i)

\* An entry of pending_files is about one file, lacks a chunk, and has none that
\* is not the file's.
EntryOf(p, f) ==
    /\ p.id = f.id /\ p.name = f.name /\ p.total = total_chunks(f.size)
    /\ p.received \subseteq PartsOf(f) /\ f.size > 0

Pendings ==
    \A u \in Users :
        /\ \A p, q \in pending[u] : p.id = q.id => p = q
        /\ \A p \in pending[u] : /\ Cardinality(p.received) # p.total
                                 /\ \E f \in files : f.to = u /\ EntryOf(p, f)

\* The chunks of f that its receiver has.
Had(f) == UNION {p.received : p \in {q \in pending[f.to] : q.id = f.id}}

\* The receiver has begun to collect f.
HasEntry(f) == \E p \in pending[f.to] : p.id = f.id

\* The chunks of f that wait at the relay, and the next one to be sent.
Waiting(f) ==
    {queue[f.to][k].index : k \in {l \in DOMAIN queue[f.to] : queue[f.to][l].id = f.id}}
ToSend(f) == {w.next : w \in {x \in sending[f.from] : x.file = f}}

\* No chunk comes twice.
NotTwice ==
    \A f \in files : \A k, l \in DOMAIN queue[f.to] :
        /\ queue[f.to][k].id = f.id /\ queue[f.to][l].id = f.id
        /\ queue[f.to][k].index = queue[f.to][l].index
        => k = l
Once == \A f \in files : \A r \in Had(f) : r.index \notin Waiting(f)

\* Chunks are sent in order.
InOrder ==
    \A f \in files : \A n \in ToSend(f) : /\ \A i \in Waiting(f) : i < n
                                          /\ \A r \in Had(f) : r.index < n

\* A file that was written is over and done with.
SavedIsOver ==
    \A f \in files : f.id \in saved => ToSend(f) = {} /\ Waiting(f) = {} /\ ~HasEntry(f)

\* A chunk that was sent and not lost waits or has been received.
NoneMissing ==
    \A f \in files : f.id \notin damaged \cup saved =>
        \A i \in Idx(f) : (\A n \in ToSend(f) : i < n) =>
            i \in Waiting(f) \/ Part(f, i) \in Had(f)

-----------------------------------------------------------------------------
\* Multiplication and division, as the provers know them.
LEMMA Multiples ==
    /\ \A a, b \in Int, C \in Nat : a =< b => a * C =< b * C
    /\ \A a, C \in Int : (a + 1) * C = a * C + C /\ a * C \in Int /\ 0 * C = 0
OBVIOUS

\* Quotient: a quotient and its remainder.
LEMMA Quotient ==
    \A z \in Int, C \in Nat \ {0} :
        z \div C \in Int /\ \E r \in 0..(C - 1) : z = (z \div C) * C + r
OBVIOUS

\* ConstantFacts: CHUNK_SIZE is not zero.
LEMMA ConstantFacts == CHUNK_SIZE \in Nat \ {0} /\ CHUNK_SIZE \in Int /\ MaxFaults \in Nat
BY FileAssumption

\* ChunkCount: the loop of send_file_inner sends as many chunks as are announced,
\* except for an empty file.
LEMMA ChunkCount ==
    ASSUME NEW z \in Nat, z > 0, NEW t, t = total_chunks(z)
    PROVE  t \in Nat \ {0} /\ \A i \in Nat : i * CHUNK_SIZE < z <=> i =< t - 1
<1>1. PICK C : C = CHUNK_SIZE
    OBVIOUS
<1>2. C \in Nat \ {0} /\ C \in Int
    BY <1>1, ConstantFacts
<1>3. t = (z + C - 1) \div C
    BY <1>1 DEF total_chunks
<1>4. t \in Int /\ \E r \in 0..(C - 1) : z + C - 1 = t * C + r
  <2>1. PICK y : y = z + C - 1
      OBVIOUS
  <2>2. y \in Int
      BY <1>2, <2>1
  <2>3. y \div C \in Int /\ \E r \in 0..(C - 1) : y = (y \div C) * C + r
      BY <1>2, <2>2, Quotient
  <2>4. t = y \div C
      BY <1>3, <2>1
  <2> QED
      BY <2>1, <2>3, <2>4, Zenon
<1>5. PICK r \in 0..(C - 1) : z + C - 1 = t * C + r
    BY <1>4
<1>6. t * C \in Int /\ t * C >= z /\ t * C - C < z
    BY <1>2, <1>4, <1>5, Multiples
<1>7. t >= 1
  <2> SUFFICES ASSUME t =< 0 PROVE FALSE
      BY <1>4
  <2>1. t * C =< 0
      BY <1>2, <1>4, Multiples
  <2> QED
      BY <1>6, <2>1
<1>8. ASSUME NEW i \in Nat, i =< t - 1 PROVE i * C < z
  <2>1. (i + 1) * C =< t * C /\ (i + 1) * C = i * C + C /\ i * C \in Int
      BY <1>2, <1>4, <1>8, Multiples
  <2> QED
      BY <1>2, <1>6, <2>1
<1>9. ASSUME NEW i \in Nat, ~(i =< t - 1) PROVE ~(i * C < z)
  <2>1. t * C =< i * C /\ i * C \in Int
    <3>1. t =< i
        BY <1>4, <1>9
    <3> QED
        BY <1>2, <1>4, <3>1, Multiples
  <2> QED
      BY <1>6, <2>1
<1> QED
    BY <1>1, <1>4, <1>7, <1>8, <1>9

\* IdxIs: the chunks of a file are numbered from 0 to one less than announced.
LEMMA IdxIs ==
    ASSUME NEW f, f.size \in Nat
    PROVE  /\ f.size = 0 => Idx(f) = {}
           /\ f.size > 0 => /\ total_chunks(f.size) \in Nat \ {0}
                            /\ Idx(f) = 0..(total_chunks(f.size) - 1)
           /\ \A i \in Nat : i * CHUNK_SIZE < f.size <=> i \in Idx(f)
<1>1. PICK z : z = f.size
    OBVIOUS
<1>2. \A i \in Nat : i * CHUNK_SIZE < z <=> i \in Idx(f)
  <2> TAKE i \in Nat
  <2>1. i * 1 =< i * CHUNK_SIZE /\ i * CHUNK_SIZE \in Int
      BY ConstantFacts
  <2> QED
      BY <1>1, <2>1 DEF Idx
<1>3. CASE z = 0
  <2>1. \A i \in Nat : i * CHUNK_SIZE >= 0
      BY ConstantFacts
  <2>2. \A i : i \in Idx(f) => i \in Nat
      BY <1>1, <1>3 DEF Idx
  <2>3. \A i \in Nat : ~(i * CHUNK_SIZE < z)
      BY <1>3, <2>1, ConstantFacts
  <2>4. \A i : i \notin Idx(f)
      BY <1>2, <2>2, <2>3, Zenon
  <2> QED
      BY <1>1, <1>2, <1>3, <2>4
<1>4. CASE z > 0
  <2>1. PICK t : t = total_chunks(z)
      OBVIOUS
  <2>2. t \in Nat \ {0} /\ \A i \in Nat : i * CHUNK_SIZE < z <=> i =< t - 1
      BY <1>1, <1>4, <2>1, ChunkCount
  <2>3. \A i : i \in Idx(f) <=> i \in 0..(t - 1)
    <3>1. \A i : i \in Idx(f) => i \in Nat
        BY <1>1 DEF Idx
    <3> QED
        BY <1>2, <2>2, <3>1
  <2>4. Idx(f) = 0..(t - 1)
      BY <2>3
  <2> QED
      BY <1>1, <1>2, <1>4, <2>1, <2>2, <2>4
<1> QED
    BY <1>1, <1>3, <1>4

\* MinOfTwo: the end of a chunk is its nominal end or the end of the file.
LEMMA MinOfTwo ==
    ASSUME NEW a \in Int, NEW b \in Int
    PROVE  Min({a, b}) = IF a =< b THEN a ELSE b
<1>1. PICK m : m = IF a =< b THEN a ELSE b
    OBVIOUS
<1>2. m \in {a, b} /\ \A y \in {a, b} : m =< y
    BY <1>1
<1>3. \A x \in {a, b} : (\A y \in {a, b} : x =< y) => x = m
    BY <1>1
<1>4. Min({a, b}) = m
    BY <1>2, <1>3 DEF Min
<1> QED
    BY <1>1, <1>4

\* The first i chunks of f, put together.
FirstChunks(f, i) == SubSeq(Bytes(f), 1, Min({i * CHUNK_SIZE, f.size}))

\* BytesType: the contents of a file are as long as its size.
LEMMA BytesType ==
    ASSUME NEW f \in AllFiles
    PROVE  /\ Bytes(f) \in Seq(Nat \X Nat) /\ Len(Bytes(f)) = f.size
           /\ f.size \in Nat
<1>1. f.size \in Nat /\ f.id \in Nat
    BY DEF AllFiles
<1>2. Bytes(f) \in [1..f.size -> Nat \X Nat]
    BY <1>1 DEF Bytes
<1>3. Bytes(f) \in Seq(Nat \X Nat)
    BY <1>1, <1>2
<1> QED
    BY <1>1, <1>2, <1>3, LenProperties

\* Joins: the end of one part of a sequence is the beginning of the next.
LEMMA Joins ==
    ASSUME NEW T, NEW s \in Seq(T), NEW a \in Nat, NEW b \in Nat, a =< b, b =< Len(s)
    PROVE  SubSeq(s, 1, a) \o SubSeq(s, a + 1, b) = SubSeq(s, 1, b)
<1>1. Len(s) \in Nat
    BY LenProperties
<1>2. PICK x, y, z : x = SubSeq(s, 1, a) /\ y = SubSeq(s, a + 1, b) /\ z = SubSeq(s, 1, b)
    OBVIOUS
<1>3. /\ x \in Seq(T) /\ Len(x) = a /\ \A i \in 1..a : x[i] = s[i]
      /\ z \in Seq(T) /\ Len(z) = b /\ \A i \in 1..b : z[i] = s[i]
      /\ y \in Seq(T) /\ Len(y) = b - a /\ \A i \in 1..(b - a) : y[i] = s[a + i]
    BY <1>1, <1>2, SubSeqProperties
<1>4. /\ x \o y \in Seq(T) /\ Len(x \o y) = Len(x) + Len(y)
      /\ \A i \in 1..(Len(x) + Len(y)) :
           (x \o y)[i] = IF i =< Len(x) THEN x[i] ELSE y[i - Len(x)]
  <2>1. x \in Seq(T) /\ y \in Seq(T)
      BY <1>3
  <2> QED
      BY <2>1, ConcatProperties
<1>7. a + (b - a) = b /\ Len(x) + Len(y) = b
    BY <1>3
<1>5. \A i \in 1..b : (x \o y)[i] = z[i]
  <2> TAKE i \in 1..b
  <2>1. (x \o y)[i] = IF i =< a THEN x[i] ELSE y[i - a]
      BY <1>3, <1>4, <1>7
  <2>2. i =< a => i \in 1..a
      OBVIOUS
  <2>3. ~(i =< a) => i - a \in 1..(b - a) /\ a + (i - a) = i
      OBVIOUS
  <2> QED
      BY <1>3, <2>1, <2>2, <2>3
<1>6. x \o y = z
  <2>1. x \o y \in Seq(T) /\ z \in Seq(T) /\ Len(x \o y) = Len(z)
      BY <1>3, <1>4, <1>7
  <2>2. \A i \in 1..Len(x \o y) : (x \o y)[i] = z[i]
      BY <1>4, <1>5, <1>7
  <2> QED
      BY <2>1, <2>2, SeqEqual
<1> QED
    BY <1>2, <1>6

\* IsSequence: a function on 1..n is a sequence of length n.
LEMMA IsSequence ==
    ASSUME NEW T, NEW n \in Nat, NEW s \in [1..n -> T]
    PROVE  s \in Seq(T) /\ Len(s) = n
<1>1. s \in Seq(T)
    OBVIOUS
<1> QED
    BY <1>1, LenProperties

\* Offsets: where chunk i begins and ends.
LEMMA Offsets ==
    ASSUME NEW f \in AllFiles, NEW i \in Nat
    PROVE  /\ i * CHUNK_SIZE \in Nat /\ (i + 1) * CHUNK_SIZE \in Nat
           /\ i * CHUNK_SIZE =< (i + 1) * CHUNK_SIZE
           /\ Min({i * CHUNK_SIZE, f.size})
                = IF i * CHUNK_SIZE =< f.size THEN i * CHUNK_SIZE ELSE f.size
           /\ Min({(i + 1) * CHUNK_SIZE, f.size})
                = IF (i + 1) * CHUNK_SIZE =< f.size THEN (i + 1) * CHUNK_SIZE ELSE f.size
<1>1. /\ i * CHUNK_SIZE \in Nat /\ (i + 1) * CHUNK_SIZE \in Nat
      /\ i * CHUNK_SIZE =< (i + 1) * CHUNK_SIZE
    BY ConstantFacts, Multiples
<1>2. PICK a, b, z : a = i * CHUNK_SIZE /\ b = (i + 1) * CHUNK_SIZE /\ z = f.size
    OBVIOUS
<1>3. a \in Int /\ b \in Int /\ z \in Int
    BY <1>1, <1>2, BytesType
<1>4. /\ Min({a, z}) = IF a =< z THEN a ELSE z
      /\ Min({b, z}) = IF b =< z THEN b ELSE z
    BY <1>3, MinOfTwo
<1> QED
    BY <1>1, <1>2, <1>4

\* NextChunk: chunk i follows on the first i chunks.
LEMMA NextChunk ==
    ASSUME NEW f \in AllFiles, NEW i \in Idx(f)
    PROVE  FirstChunks(f, i) \o chunk_data(f, i) = FirstChunks(f, i + 1)
<1>1. i \in Nat /\ i * CHUNK_SIZE < f.size
    BY BytesType DEF Idx
<1>2. PICK a, b, s : /\ a = i * CHUNK_SIZE /\ b = Min({(i + 1) * CHUNK_SIZE, f.size})
                     /\ s = Bytes(f)
    OBVIOUS
<1>3. /\ a \in Nat /\ b \in Nat /\ a =< b /\ b =< Len(s) /\ s \in Seq(Nat \X Nat)
      /\ Min({i * CHUNK_SIZE, f.size}) = a
  <2>1. PICK q, z, m : q = (i + 1) * CHUNK_SIZE /\ z = f.size /\ m = Min({i * CHUNK_SIZE, f.size})
      OBVIOUS
  <2>2. /\ a \in Nat /\ q \in Nat /\ a =< q /\ m = (IF a =< z THEN a ELSE z)
        /\ b = IF q =< z THEN q ELSE z
      BY <1>1, <1>2, <2>1, Offsets, Zenon
  <2>3. s \in Seq(Nat \X Nat) /\ Len(s) = z /\ z \in Nat /\ a < z
      BY <1>1, <1>2, <2>1, BytesType
  <2>4. b \in Nat /\ a =< b /\ b =< z /\ m = a
      BY <2>2, <2>3
  <2> QED
      BY <2>1, <2>2, <2>3, <2>4
<1>4. SubSeq(s, 1, a) \o SubSeq(s, a + 1, b) = SubSeq(s, 1, b)
    BY <1>3, Joins
<1>5. FirstChunks(f, i) = SubSeq(s, 1, a)
    BY <1>2, <1>3, Zenon DEF FirstChunks
<1>6. chunk_data(f, i) = SubSeq(s, a + 1, b)
    BY <1>2, Zenon DEF chunk_data
<1>7. FirstChunks(f, i + 1) = SubSeq(s, 1, b)
    BY <1>2, Zenon DEF FirstChunks
<1> QED
    BY <1>4, <1>5, <1>6, <1>7, Zenon

\* ChunkZero: the first chunk is where the file begins.
LEMMA ChunkZero ==
    ASSUME NEW f \in AllFiles
    PROVE  FirstChunks(f, 1) = chunk_data(f, 0)
<1>1. 0 * CHUNK_SIZE + 1 = 1 /\ (0 + 1) = 1
    BY ConstantFacts
<1> QED
    BY <1>1, Zenon DEF FirstChunks, chunk_data

\* LastChunk: as many chunks as announced are the whole file.
LEMMA LastChunk ==
    ASSUME NEW f \in AllFiles, f.size > 0
    PROVE  FirstChunks(f, total_chunks(f.size)) = Bytes(f)
<1>1. PICK t : t = total_chunks(f.size)
    OBVIOUS
<1>2. t \in Nat /\ Idx(f) = 0..(t - 1) /\ f.size \in Nat
    BY <1>1, IdxIs, BytesType
<1>3. t \notin Idx(f)
    BY <1>2
<1>4. ~(t * CHUNK_SIZE < f.size)
    BY <1>2, <1>3, IdxIs
<1>5. Min({t * CHUNK_SIZE, f.size}) = f.size
  <2>1. PICK q, z, m : q = t * CHUNK_SIZE /\ z = f.size /\ m = Min({t * CHUNK_SIZE, f.size})
      OBVIOUS
  <2>2. q \in Nat /\ m = IF q =< z THEN q ELSE z
      BY <1>2, <2>1, Offsets, Zenon
  <2>3. z \in Nat /\ ~(q < z)
      BY <1>2, <1>4, <2>1, Zenon
  <2>4. m = z
      BY <2>2, <2>3
  <2> QED
      BY <2>1, <2>4
<1>6. SubSeq(Bytes(f), 1, f.size) = Bytes(f)
    BY BytesType, SubSeqFull
<1> QED
    BY <1>1, <1>5, <1>6 DEF FirstChunks

\* f puts the members of s together, from the first on.
Accumulates(f, s, t) ==
    \A i \in 1..t : f[i] = IF i = 1 THEN s[i] ELSE f[i - 1] \o s[i]

\* AccumulatesOnce: putting a sequence together has one result (the least place at
\* which two results differ does not exist).
LEMMA AccumulatesOnce ==
    ASSUME NEW t \in Nat, NEW s, NEW g, NEW h, Accumulates(g, s, t), Accumulates(h, s, t),
           NEW j \in 1..t
    PROVE  g[j] = h[j]
<1> SUFFICES ASSUME g[j] # h[j] PROVE FALSE
    OBVIOUS
<1>1. PICK N : N = {i \in 1..t : g[i] # h[i]}
    OBVIOUS
<1>2. N \subseteq Nat /\ N # {} /\ N \subseteq 1..t
    BY <1>1
<1>3. PICK n \in N : \A k \in N : ~(<<k, n>> \in OpToRel(<, Nat))
    BY <1>2, NatLessThanWellFounded, WFMin
<1>4. \A k \in N : ~(k < n)
  <2> SUFFICES ASSUME NEW k \in N, k < n PROVE FALSE
      OBVIOUS
  <2>1. k \in Nat /\ n \in Nat
      BY <1>2
  <2>2. <<k, n>> \in OpToRel(<, Nat)
      BY <2>1, Zenon DEF OpToRel
  <2> QED
      BY <1>3, <2>2
<1>5. n \in 1..t /\ g[n] # h[n]
    BY <1>1
<1>6. n # 1
    BY <1>5 DEF Accumulates
<1>7. n - 1 \in 1..t /\ n - 1 < n
    BY <1>5, <1>6
<1>8. g[n - 1] = h[n - 1]
    BY <1>1, <1>4, <1>7
<1>9. g[n] = g[n - 1] \o s[n] /\ h[n] = h[n - 1] \o s[n]
    BY <1>5, <1>6 DEF Accumulates
<1> QED
    BY <1>5, <1>8, <1>9, Zenon

\* One turn of the recursion by which the library defines FlattenSeq.
Flattening(s, f) ==
    [i \in 1..Len(s) |-> IF i = 1 THEN s[i] ELSE f[i - 1] \o s[i]]

\* FlattenUnfolds: the library's FlattenSeq is a fixed point of that turn, if there is
\* one.
LEMMA FlattenUnfolds ==
    ASSUME NEW s, Len(s) # 0
    PROVE  \E f : f = (CHOOSE g : g = Flattening(s, g)) /\ FlattenSeq(s) = f[Len(s)]
BY Zenon DEF FlattenSeq, Flattening

\* Reassembled: all the chunks of a file, in order, are the file.
LEMMA Reassembled ==
    ASSUME NEW f \in AllFiles, f.size > 0, NEW t, t = total_chunks(f.size),
           NEW s, s = [i \in 1..t |-> chunk_data(f, i - 1)]
    PROVE  FlattenSeq(s) = Bytes(f)
<1>1. t \in Nat \ {0} /\ Idx(f) = 0..(t - 1)
    BY IdxIs, BytesType
<1>2. Len(s) = t /\ \A i \in 1..t : s[i] = chunk_data(f, i - 1)
  <2>1. PICK T : T = {chunk_data(f, i - 1) : i \in 1..t}
      OBVIOUS
  <2>2. s \in [1..t -> T] /\ \A i \in 1..t : s[i] = chunk_data(f, i - 1)
      BY <2>1
  <2>3. Len(s) = t
      BY <1>1, <2>2, IsSequence
  <2> QED
      BY <2>2, <2>3
<1>3. PICK g : g = [i \in 1..t |-> FirstChunks(f, i)]
    OBVIOUS
<1>4. Accumulates(g, s, t)
  <2> SUFFICES ASSUME NEW i \in 1..t
               PROVE  g[i] = IF i = 1 THEN s[i] ELSE g[i - 1] \o s[i]
      BY DEF Accumulates
  <2>1. CASE i = 1
      BY <1>2, <1>3, <2>1, ChunkZero
  <2>2. CASE i # 1
    <3>1. PICK k : k = i - 1
        OBVIOUS
    <3>2. k \in 1..t /\ k \in Idx(f) /\ k + 1 = i
        BY <1>1, <2>2, <3>1
    <3>3. FirstChunks(f, k) \o chunk_data(f, k) = FirstChunks(f, k + 1)
        BY <3>2, NextChunk
    <3>4. g[i] = FirstChunks(f, k + 1) /\ g[k] = FirstChunks(f, k) /\ s[i] = chunk_data(f, k)
        BY <1>2, <1>3, <3>1, <3>2
    <3> QED
        BY <2>2, <3>1, <3>3, <3>4, Zenon
  <2> QED
      BY <2>1, <2>2
<1>5. g = Flattening(s, g)
    BY <1>2, <1>3, <1>4, Zenon DEF Flattening, Accumulates
<1>6. PICK h : h = (CHOOSE x : x = Flattening(s, x)) /\ FlattenSeq(s) = h[Len(s)]
    BY <1>1, <1>2, FlattenUnfolds
<1>7. h = Flattening(s, h)
    BY <1>5, <1>6, Zenon
<1>8. Accumulates(h, s, t)
    BY <1>2, <1>7, Zenon DEF Flattening, Accumulates
<1>9. t \in 1..t
    BY <1>1
<1>10. g[t] = h[t]
    BY <1>1, <1>4, <1>8, <1>9, AccumulatesOnce
<1>11. g[t] = FirstChunks(f, t)
    BY <1>3, <1>9
<1> QED
    BY <1>2, <1>6, <1>10, <1>11, LastChunk
-----------------------------------------------------------------------------
\* ChunkFields: a chunk carries the index and the bytes that the receiver keeps.
LEMMA ChunkFields ==
    ASSUME NEW f, NEW i
    PROVE  /\ Chunk(f, i).id = f.id /\ Chunk(f, i).name = f.name
           /\ Chunk(f, i).total = total_chunks(f.size) /\ Chunk(f, i).index = i
           /\ Chunk(f, i).data = chunk_data(f, i)
           /\ Part(f, i).index = i /\ Part(f, i).data = chunk_data(f, i)
           /\ Part(f, i) = [index |-> Chunk(f, i).index, data |-> Chunk(f, i).data]
BY DEF Chunk, Part

\* PartsCount: a file has as many chunks as it announces, no two of them alike.
LEMMA PartsCount ==
    ASSUME NEW f \in AllFiles, f.size > 0
    PROVE  /\ IsFiniteSet(PartsOf(f)) /\ Cardinality(PartsOf(f)) = total_chunks(f.size)
<1>1. PICK t : t = total_chunks(f.size)
    OBVIOUS
<1>2. t \in Nat \ {0} /\ Idx(f) = 0..(t - 1)
    BY <1>1, IdxIs, BytesType
<1>3. PICK b : b = [i \in Idx(f) |-> Part(f, i)]
    OBVIOUS
<1>4. b \in Bijection(Idx(f), PartsOf(f))
  <2>1. \A i \in Idx(f) : b[i] = Part(f, i) /\ Part(f, i).index = i
      BY <1>3, ChunkFields
  <2>2. b \in [Idx(f) -> PartsOf(f)]
      BY <1>3 DEF PartsOf
  <2>3. \A i, j \in Idx(f) : b[i] = b[j] => i = j
      BY <2>1
  <2>4. \A r \in PartsOf(f) : \E i \in Idx(f) : b[i] = r
      BY <2>1 DEF PartsOf
  <2> QED
      BY <2>2, <2>3, <2>4 DEF Bijection, Injection, Surjection, IsInjective
<1>5. 0 \in Int /\ t - 1 \in Int /\ 0 =< t - 1
    BY <1>2
<1>6. IsFiniteSet(0..(t - 1)) /\ Cardinality(0..(t - 1)) = t
  <2>1. IsFiniteSet(0..(t - 1)) /\ Cardinality(0..(t - 1)) = IF 0 > t - 1 THEN 0 ELSE (t - 1) - 0 + 1
      BY <1>5, FS_Interval
  <2> QED
      BY <1>2, <2>1
<1>7. IsFiniteSet(Idx(f)) /\ Cardinality(Idx(f)) = t
    BY <1>2, <1>6
<1> QED
    BY <1>1, <1>4, <1>7, FS_Bijection DEF ExistsBijection

\* What an entry puts at place i.
PartsAt(p, i) == {r \in p.received : r.index = i - 1}
PartAt(p, i) ==
    IF PartsAt(p, i) = {} THEN <<>> ELSE (CHOOSE r \in PartsAt(p, i) : TRUE).data

\* WholeEntry: with as many chunks as announced an entry has every chunk, and
\* they are put together to the file.
LEMMA WholeEntry ==
    ASSUME NEW f \in AllFiles, NEW p, EntryOf(p, f)
    PROVE  /\ p.received = PartsOf(f) <=> Cardinality(p.received) = p.total
           /\ p.received = PartsOf(f) => assemble(p) = Bytes(f)
<1>1. p.received = PartsOf(f) <=> Cardinality(p.received) = p.total
  <2>1. PICK R, P, t : R = p.received /\ P = PartsOf(f) /\ t = p.total
      OBVIOUS
  <2>2. R \subseteq P /\ IsFiniteSet(P) /\ Cardinality(P) = t
      BY <2>1, PartsCount DEF EntryOf
  <2>3. R = P <=> Cardinality(R) = t
      BY <2>2, FS_Subset
  <2> QED
      BY <2>1, <2>3
<1>2. ASSUME p.received = PartsOf(f) PROVE assemble(p) = Bytes(f)
  <2>1. PICK t : t = p.total
      OBVIOUS
  <2>2. t = total_chunks(f.size) /\ f.size > 0 /\ t \in Nat \ {0} /\ Idx(f) = 0..(t - 1)
      BY <2>1, IdxIs, BytesType DEF EntryOf
  <2>3. PICK s, z : /\ s = [i \in 1..t |-> chunk_data(f, i - 1)]
                    /\ z = [i \in 1..t |-> PartAt(p, i)]
      OBVIOUS
  <2>4. ASSUME NEW i \in 1..t PROVE z[i] = chunk_data(f, i - 1)
    <3>1. PICK H : H = PartsAt(p, i)
        OBVIOUS
    <3>2. i - 1 \in Idx(f)
        BY <2>2
    <3>3. H = {Part(f, i - 1)}
      <4>1. Part(f, i - 1) \in H
          BY <1>2, <3>1, <3>2, ChunkFields DEF PartsOf, PartsAt
      <4>2. ASSUME NEW r \in H PROVE r = Part(f, i - 1)
        <5>1. PICK j \in Idx(f) : r = Part(f, j)
            BY <1>2, <3>1, <4>2 DEF PartsOf, PartsAt
        <5>2. j = i - 1
            BY <3>1, <5>1, ChunkFields DEF PartsAt
        <5> QED
            BY <5>1, <5>2
      <4> QED
          BY <4>1, <4>2
    <3>5. PICK c, d : c = (CHOOSE r \in PartsAt(p, i) : TRUE) /\ d = Part(f, i - 1)
        OBVIOUS
    <3>6. H = {d} /\ c = d
      <4>1. c \in H
          BY <3>1, <3>3, <3>5
      <4> QED
          BY <3>3, <3>5, <4>1
    <3>7. d.data = chunk_data(f, i - 1)
        BY <3>5, ChunkFields
    <3>8. PartAt(p, i) = c.data
        BY <3>1, <3>5, <3>6 DEF PartAt
    <3>9. z[i] = PartAt(p, i)
        BY <2>3
    <3> QED
        BY <3>6, <3>7, <3>8, <3>9
  <2>5. z = s
    <3>1. DOMAIN z = 1..t /\ DOMAIN s = 1..t /\ \A i \in 1..t : z[i] = s[i]
        BY <2>3, <2>4
    <3> QED
        BY <2>3, <3>1
  <2>6. FlattenSeq(s) = Bytes(f)
      BY <2>2, <2>3, Reassembled
  <2>7. assemble(p) = FlattenSeq(z)
      BY <2>1, <2>3, Zenon DEF assemble, PartAt, PartsAt
  <2> QED
      BY <2>5, <2>6, <2>7, Zenon
<1> QED
    BY <1>1, <1>2
-----------------------------------------------------------------------------
\* The ends of a queue.
LEMMA AppendedAt ==
    ASSUME NEW T, NEW s \in Seq(T), NEW e \in T, NEW r, r = Append(s, e)
    PROVE  /\ r \in Seq(T)
           /\ \A k \in DOMAIN s : k \in DOMAIN r /\ r[k] = s[k]
           /\ \E n \in DOMAIN r : r[n] = e /\ n \notin DOMAIN s
                                    /\ \A k \in DOMAIN r : k = n \/ k \in DOMAIN s
<1>1. /\ r \in Seq(T) /\ Len(r) = Len(s) + 1 /\ r[Len(s) + 1] = e
      /\ \A i \in 1..Len(s) : r[i] = s[i]
    BY AppendProperties
<1>2. DOMAIN s = 1..Len(s) /\ DOMAIN r = 1..Len(r) /\ Len(s) \in Nat
    BY <1>1, LenProperties
<1> QED
    BY <1>1, <1>2

\* TailAt: the queue without its first chunk.
LEMMA TailAt ==
    ASSUME NEW T, NEW s \in Seq(T), s # <<>>, NEW r, r = Tail(s)
    PROVE  /\ r \in Seq(T) /\ 1 \in DOMAIN s /\ Head(s) = s[1]
           /\ \A k \in DOMAIN r : /\ k + 1 \in DOMAIN s /\ k + 1 # 1 /\ r[k] = s[k + 1]
                                  /\ k \in Nat
           /\ \A k \in DOMAIN s : k # 1 => k - 1 \in DOMAIN r /\ r[k - 1] = s[k]
<1>1. Len(s) \in Nat \ {0} /\ DOMAIN s = 1..Len(s)
    BY EmptySeq, LenProperties
<1>2. /\ r \in Seq(T) /\ Len(r) = Len(s) - 1
      /\ \A i \in 1..Len(r) : r[i] = s[i + 1]
    BY HeadTailProperties
<1>3. DOMAIN r = 1..Len(r)
    BY <1>2, LenProperties
<1>4. Head(s) = s[1]
    BY HeadTailProperties
<1> QED
    BY <1>1, <1>2, <1>3, <1>4

\* IdxFacts: a file that is not empty has a first chunk, and one that has no next
\* chunk has no later one.
LEMMA IdxFacts ==
    ASSUME NEW f \in AllFiles
    PROVE  /\ Idx(f) \subseteq Nat
           /\ f.size > 0 => 0 \in Idx(f)
           /\ \A i \in Idx(f) : f.size > 0 /\ (i + 1 \notin Idx(f) => \A j \in Idx(f) : j =< i)
<1>1. /\ f.size \in Nat /\ (f.size = 0 => Idx(f) = {})
      /\ f.size > 0 => /\ total_chunks(f.size) \in Nat \ {0}
                       /\ Idx(f) = 0..(total_chunks(f.size) - 1)
    BY IdxIs, BytesType
<1>2. PICK I, t, z : I = Idx(f) /\ t = total_chunks(f.size) /\ z = f.size
    OBVIOUS
<1>3. CASE z = 0
    BY <1>1, <1>2, <1>3
<1>4. CASE z > 0
  <2>1. t \in Nat \ {0} /\ I = 0..(t - 1)
      BY <1>1, <1>2, <1>4
  <2>2. I \subseteq Nat /\ 0 \in I /\ \A i \in I : i + 1 \notin I => \A j \in I : j =< i
      BY <2>1
  <2> QED
      BY <1>2, <1>4, <2>2
<1> QED
    BY <1>1, <1>2, <1>3, <1>4

\* LoopIs: the loop of send_file_inner goes on while there is a chunk.
LEMMA LoopIs ==
    ASSUME NEW f \in AllFiles, NEW i \in Nat
    PROVE  Loop(f, i) = IF i \in Idx(f) THEN {[file |-> f, next |-> i]} ELSE {}
<1>1. i * CHUNK_SIZE < f.size <=> i \in Idx(f)
    BY IdxIs, BytesType
<1> QED
    BY <1>1 DEF Loop

\* What the actions do.
NewFile(f) ==
    /\ f \in AllFiles /\ f.id = Cardinality(files) + 1 /\ files' = files \cup {f}
    /\ sending[f.from] = {}
    /\ sending' = [sending EXCEPT ![f.from] =
                     IF 0 \in Idx(f) THEN {[file |-> f, next |-> 0]} ELSE {}]
    /\ UNCHANGED <<queue, pending, downloads, damaged, saved, torn>>

\* SendFileDoes: send_file is the beginning of a new file.
LEMMA SendFileDoes ==
    ASSUME TransferTypes, NEW u \in Users, NEW v \in Users, NEW name \in Names,
           NEW size \in 0..MaxSize, send_file(u, v, name, size)
    PROVE  \E f : NewFile(f)
<1>1. PICK f : f = [id |-> Cardinality(files) + 1, from |-> u, to |-> v,
                    name |-> name, size |-> size]
    OBVIOUS
<1>2. Cardinality(files) \in Nat
    BY FS_CardinalityType DEF TransferTypes
<1>3. f \in AllFiles /\ f.id = Cardinality(files) + 1 /\ f.from = u
    BY <1>1, <1>2 DEF AllFiles
<1>4. /\ files' = files \cup {f} /\ sending[u] = {}
      /\ sending' = [sending EXCEPT ![u] = Loop(f, 0)]
      /\ UNCHANGED <<queue, pending, downloads, damaged, saved, torn>>
    BY <1>1 DEF send_file
<1>5. Loop(f, 0) = IF 0 \in Idx(f) THEN {[file |-> f, next |-> 0]} ELSE {}
    BY <1>3, LoopIs
<1> QED
    BY <1>3, <1>4, <1>5 DEF NewFile

\* Chunk i of f is done with; S is what is left to send.
ChunkGone(f, i, S, reached) ==
    /\ f \in AllFiles /\ i \in Nat /\ [file |-> f, next |-> i] \in sending[f.from]
    /\ f \in files /\ i \in Idx(f)
    /\ S \subseteq {[file |-> f, next |-> i + 1]} /\ (S # {} => i + 1 \in Idx(f))
    /\ sending' = [sending EXCEPT ![f.from] = S]
    /\ queue' = IF reached THEN [queue EXCEPT ![f.to] = Append(@, Chunk(f, i))] ELSE queue
    /\ damaged \subseteq damaged' /\ damaged' \subseteq damaged \cup {f.id}
    /\ f.id \notin damaged' => reached /\ (S = {} => i + 1 \notin Idx(f))
    /\ UNCHANGED <<pending, downloads, files, saved, torn>>

\* SendChunkDoes: send_chunk and abandon_send are done with one chunk.
LEMMA SendChunkDoes ==
    ASSUME TransferTypes, Sends, NEW u \in Users, NEW ok \in BOOLEAN,
           send_chunk(u, ok) \/ abandon_send(u, ok)
    PROVE  \E f, i, S : \E reached \in BOOLEAN : ChunkGone(f, i, S, reached)
<1>1. PICK w \in sending[u] :
        /\ queue' = IF ok THEN [queue EXCEPT ![w.file.to] = Append(@, Chunk(w.file, w.next))]
                    ELSE queue
        /\ \/ /\ damaged' = IF ok THEN damaged ELSE damaged \cup {w.file.id}
              /\ sending' = [sending EXCEPT ![u] = Loop(w.file, w.next + 1)]
           \/ /\ damaged' = IF ok /\ Loop(w.file, w.next + 1) = {} THEN damaged
                            ELSE damaged \cup {w.file.id}
              /\ sending' = [sending EXCEPT ![u] = {}]
        /\ UNCHANGED <<pending, downloads, files, saved, torn>>
    BY DEF send_chunk, abandon_send
<1>2. PICK f, i : f = w.file /\ i = w.next
    OBVIOUS
<1>3. /\ f \in AllFiles /\ i \in Nat /\ w = [file |-> f, next |-> i] /\ f \in files
      /\ f.from = u /\ i \in Idx(f)
    BY <1>2 DEF TransferTypes, Sends
<1>4. PICK L : L = Loop(f, i + 1)
    OBVIOUS
<1>5. L = IF i + 1 \in Idx(f) THEN {[file |-> f, next |-> i + 1]} ELSE {}
  <2>1. PICK j : j = i + 1
      OBVIOUS
  <2>2. j \in Nat
      BY <1>3, <2>1
  <2>3. Loop(f, j) = IF j \in Idx(f) THEN {[file |-> f, next |-> j]} ELSE {}
      BY <1>3, <2>2, LoopIs
  <2> QED
      BY <1>4, <2>1, <2>3
<1>6. CASE /\ damaged' = IF ok THEN damaged ELSE damaged \cup {f.id}
           /\ sending' = [sending EXCEPT ![u] = L]
  <2>1. ChunkGone(f, i, L, ok)
      BY <1>1, <1>2, <1>3, <1>5, <1>6 DEF ChunkGone
  <2> QED
      BY <2>1
<1>7. CASE /\ damaged' = IF ok /\ L = {} THEN damaged ELSE damaged \cup {f.id}
           /\ sending' = [sending EXCEPT ![u] = {}]
  <2>1. ChunkGone(f, i, {}, ok)
      BY <1>1, <1>2, <1>3, <1>5, <1>7 DEF ChunkGone
  <2> QED
      BY <2>1
<1> QED
    BY <1>1, <1>2, <1>4, <1>6, <1>7

\* The first chunk of u's queue, chunk i of f, is taken; f's entry becomes p.
Takes(u, f, i) ==
    /\ u \in Users /\ f \in files /\ f \in AllFiles /\ f.to = u /\ i \in Idx(f)
    /\ queue[u] # <<>> /\ Head(queue[u]) = Chunk(f, i)
    /\ queue' = [queue EXCEPT ![u] = Tail(@)]
    /\ UNCHANGED <<sending, files>>

Others(u, f) == {q \in pending[u] : q.id # f.id}

\* HeadIsChunk: what waits first is a chunk of a file sent to this user.
LEMMA HeadIsChunk ==
    ASSUME TransferTypes, Queues, NEW u \in Users, queue[u] # <<>>
    PROVE  \E f \in files : \E i \in Idx(f) :
             f \in AllFiles /\ f.to = u /\ Head(queue[u]) = Chunk(f, i)
<1>1. queue[u] \in Seq(AllChunks) /\ files \in SUBSET AllFiles
    BY DEF TransferTypes
<1>2. 1 \in DOMAIN queue[u] /\ Head(queue[u]) = queue[u][1]
    BY <1>1, TailAt
<1> QED
    BY <1>1, <1>2 DEF Queues

\* HadIs: what the receiver has of f is what f's entry holds.
LEMMA HadIs ==
    ASSUME Pendings, NEW f, f.to \in Users
    PROVE  /\ \A p \in pending[f.to] : p.id = f.id => Had(f) = p.received
           /\ (\A p \in pending[f.to] : p.id # f.id) => Had(f) = {}
BY DEF Had, Pendings

\* EntryDoes: process_file_chunk finds the entry of the chunk's own file, or makes it,
\* and puts the chunk in.
LEMMA EntryDoes ==
    ASSUME TransferTypes, FileIds, Pendings, NEW f \in files, NEW i \in Idx(f),
           NEW c, c = Chunk(f, i), NEW p, p = insert_chunk(pending_entry(f.to, c), c)
    PROVE  /\ p \in Entries /\ EntryOf(p, f)
           /\ p.received = {r \in Had(f) : r.index # i} \cup {Part(f, i)}
<1>1. PICK u : u = f.to
    OBVIOUS
<1>2. f \in AllFiles /\ u \in Users /\ f.size > 0 /\ i \in Nat /\ f.id \in Nat /\ f.name \in Names
      /\ total_chunks(f.size) \in Nat
  <2>1. f \in AllFiles
      BY DEF TransferTypes
  <2>2. f.size > 0 /\ i \in Nat
      BY <2>1, IdxFacts
  <2>3. total_chunks(f.size) \in Nat
      BY <2>1, <2>2, IdxIs, BytesType
  <2> QED
      BY <1>1, <2>1, <2>2, <2>3 DEF AllFiles
<1>3. PICK old, q : old = {x \in pending[u] : x.id = c.id} /\ q = pending_entry(u, c)
    OBVIOUS
<1>4. /\ c.id = f.id /\ c.name = f.name /\ c.total = total_chunks(f.size) /\ c.index = i
      /\ [index |-> c.index, data |-> c.data] = Part(f, i)
    BY ChunkFields
<1>5. Part(f, i) \in AllParts /\ Part(f, i) \in PartsOf(f) /\ Part(f, i).index = i
    BY <1>2, ChunkFields DEF AllParts, PartsOf
<1>6. q \in Entries /\ EntryOf(q, f) /\ q.received = Had(f)
  <2>1. CASE old = {}
    <3>1. q = [id |-> f.id, name |-> f.name, total |-> total_chunks(f.size), received |-> {}]
        BY <1>3, <1>4, <2>1 DEF pending_entry
    <3>2. \A x \in pending[f.to] : x.id # f.id
        BY <1>1, <1>3, <1>4, <2>1
    <3>3. Had(f) = {}
        BY <1>1, <1>2, <3>2, HadIs
    <3> QED
        BY <1>2, <3>1, <3>3 DEF Entries, EntryOf
  <2>2. CASE old # {}
    <3>1. q = CHOOSE x \in old : TRUE
        BY <1>3, <2>2, Zenon DEF pending_entry
    <3>2. q \in old
        BY <2>2, <3>1
    <3>3. q \in pending[u] /\ q.id = f.id
        BY <1>3, <1>4, <3>2
    <3>4. Had(f) = q.received
        BY <1>1, <1>2, <3>3, HadIs
    <3>5. PICK g \in files : g.to = u /\ EntryOf(q, g)
        BY <1>2, <3>3 DEF Pendings
    <3>6. g = f
        BY <3>3, <3>5 DEF EntryOf, FileIds
    <3>7. q \in Entries
        BY <1>2, <3>3 DEF TransferTypes
    <3> QED
        BY <3>4, <3>5, <3>6, <3>7
  <2> QED
      BY <2>1, <2>2
<1>7. p = [q EXCEPT !.received = {r \in @ : r.index # i} \cup {Part(f, i)}]
    BY <1>1, <1>3, <1>4 DEF insert_chunk
<1>8. PICK R : R = {r \in q.received : r.index # i} \cup {Part(f, i)}
    OBVIOUS
<1>9. R \in SUBSET AllParts /\ R \subseteq PartsOf(f)
    BY <1>5, <1>6, <1>8 DEF Entries, EntryOf
<1>10. p = [q EXCEPT !.received = R]
    BY <1>7, <1>8
<1>11. /\ p \in Entries /\ p.received = R /\ p.id = q.id /\ p.name = q.name
       /\ p.total = q.total
    BY <1>6, <1>9, <1>10 DEF Entries
<1> QED
    BY <1>6, <1>8, <1>9, <1>11 DEF EntryOf

\* A chunk more in f's entry.
More(f, i) == {r \in Had(f) : r.index # i} \cup {Part(f, i)}

Completes(u, f, i) ==
    /\ Takes(u, f, i) /\ More(f, i) = PartsOf(f)
    /\ pending' = [pending EXCEPT ![u] = Others(u, f)]
    /\ \/ /\ downloads' = [downloads EXCEPT ![u][f.name] = {Bytes(f)}]
          /\ saved' = saved \cup {f.id} /\ UNCHANGED <<damaged, torn>>
       \/ /\ damaged' = damaged \cup {f.id}
          /\ UNCHANGED <<downloads, saved, torn>>
       \/ /\ \E k \in 0..(f.size - 1) :
               downloads' = [downloads EXCEPT ![u][f.name] = {SubSeq(Bytes(f), 1, k)}]
          /\ damaged' = damaged \cup {f.id} /\ torn' = torn \cup {f.id}
          /\ UNCHANGED saved

Collects(u, f, i) ==
    /\ Takes(u, f, i) /\ UNCHANGED <<downloads, saved, damaged, torn>>
    /\ \E p \in Entries : /\ EntryOf(p, f) /\ p.received = More(f, i)
                          /\ Cardinality(p.received) # p.total
                          /\ pending' = [pending EXCEPT ![u] = Others(u, f) \cup {p}]

Loses(u, f, i) ==
    /\ Takes(u, f, i) /\ damaged' = damaged \cup {f.id}
    /\ UNCHANGED <<pending, downloads, saved, torn>>

\* u's process ends: what it was sending or had collected is lost.
Quits(u) ==
    /\ u \in Users
    /\ sending' = [sending EXCEPT ![u] = {}] /\ pending' = [pending EXCEPT ![u] = {}]
    /\ damaged \subseteq damaged'
    /\ \A w \in sending[u] : w.file.id \in damaged'
    /\ \A p \in pending[u] : p.id \in damaged'
    /\ UNCHANGED <<queue, downloads, files, saved, torn>>

\* QuitDoes: quit damages every file that the user was sending or collecting.
LEMMA QuitDoes ==
    ASSUME NEW u \in Users, quit(u)
    PROVE  Quits(u)
BY DEF quit, Quits

\* ProcessDoes: process_file_chunk completes a file, whose bytes it then writes, or
\* collects a chunk.
LEMMA ProcessDoes ==
    ASSUME TransferTypes, FileIds, Queues, Pendings, NEW u \in Users, NEW written \in BOOLEAN,
           process_file_chunk(u, written)
    PROVE  \E f, i : Completes(u, f, i) \/ Collects(u, f, i)
<1>1. queue[u] # <<>>
    BY DEF process_file_chunk
<1>2. PICK f \in files : \E i \in Idx(f) :
        f \in AllFiles /\ f.to = u /\ Head(queue[u]) = Chunk(f, i)
    BY <1>1, HeadIsChunk
<1>3. PICK i \in Idx(f) : f \in AllFiles /\ f.to = u /\ Head(queue[u]) = Chunk(f, i)
    BY <1>2
<1>4. Takes(u, f, i)
    BY <1>1, <1>3 DEF Takes, process_file_chunk
<1>5. PICK c : c = Head(queue[u])
    OBVIOUS
<1>6. PICK p : p = insert_chunk(pending_entry(u, c), c)
    OBVIOUS
<1>7. p \in Entries /\ EntryOf(p, f) /\ p.received = More(f, i)
  <2>1. c = Chunk(f, i) /\ p = insert_chunk(pending_entry(f.to, c), c)
      BY <1>3, <1>5, <1>6
  <2>2. PICK R : R = {r \in Had(f) : r.index # i} \cup {Part(f, i)}
      OBVIOUS
  <2>3. p \in Entries /\ EntryOf(p, f) /\ p.received = {r \in Had(f) : r.index # i} \cup {Part(f, i)}
      BY <1>3, <2>1, EntryDoes
  <2> QED
      BY <2>3 DEF More
<1>8. p.id = f.id /\ p.name = f.name /\ {q \in pending[u] : q.id # p.id} = Others(u, f)
    BY <1>7 DEF EntryOf, Others
<1>9. IF Cardinality(p.received) = p.total
      THEN write(u, p, written) /\ pending' = [pending EXCEPT ![u] = Others(u, f)]
      ELSE /\ pending' = [pending EXCEPT ![u] = Others(u, f) \cup {p}]
           /\ UNCHANGED <<downloads, saved, faults, damaged, torn>>
    BY <1>5, <1>6, <1>8, Zenon DEF process_file_chunk
<1>10. CASE Cardinality(p.received) = p.total
  <2>1. p.received = PartsOf(f) /\ assemble(p) = Bytes(f)
      BY <1>3, <1>7, <1>10, WholeEntry
  <2>2. write(u, p, written) /\ pending' = [pending EXCEPT ![u] = Others(u, f)]
      BY <1>9, <1>10
  <2>3. \/ /\ downloads' = [downloads EXCEPT ![u][f.name] = {Bytes(f)}]
           /\ saved' = saved \cup {f.id} /\ UNCHANGED <<damaged, torn>>
        \/ /\ damaged' = damaged \cup {f.id}
           /\ UNCHANGED <<downloads, saved, torn>>
        \/ /\ \E k \in 0..(f.size - 1) :
                downloads' = [downloads EXCEPT ![u][f.name] = {SubSeq(Bytes(f), 1, k)}]
           /\ damaged' = damaged \cup {f.id} /\ torn' = torn \cup {f.id}
           /\ UNCHANGED saved
    <3>1. Len(Bytes(f)) = f.size
        BY <1>3, BytesType
    <3> QED
        BY <1>8, <2>1, <2>2, <3>1, Zenon DEF write
  <2> QED
      BY <1>4, <1>7, <2>1, <2>2, <2>3 DEF Completes
<1>11. CASE Cardinality(p.received) # p.total
    BY <1>4, <1>7, <1>9, <1>11 DEF Collects
<1> QED
    BY <1>10, <1>11

\* LoseDoes: lose_chunk drops one chunk and marks its file.
LEMMA LoseDoes ==
    ASSUME TransferTypes, Queues, NEW u \in Users, lose_chunk(u)
    PROVE  \E f, i : Loses(u, f, i)
<1>1. queue[u] # <<>>
    BY DEF lose_chunk
<1>2. PICK f \in files : \E i \in Idx(f) :
        f \in AllFiles /\ f.to = u /\ Head(queue[u]) = Chunk(f, i)
    BY <1>1, HeadIsChunk
<1>3. PICK i \in Idx(f) : f \in AllFiles /\ f.to = u /\ Head(queue[u]) = Chunk(f, i)
    BY <1>2
<1>4. Head(queue[u]).id = f.id
    BY <1>3, ChunkFields
<1> QED
    BY <1>1, <1>3, <1>4 DEF Takes, Loses, lose_chunk

\* The steps of the model, in these terms.
LEMMA StepIs ==
    ASSUME TransferTypes, FileIds, Sends, Queues, Pendings, [Next]_vars
    PROVE  \/ \E f : NewFile(f)
           \/ \E f, i, S : \E reached \in BOOLEAN : ChunkGone(f, i, S, reached)
           \/ \E u, f, i : Completes(u, f, i) \/ Collects(u, f, i) \/ Loses(u, f, i)
           \/ \E u : Quits(u)
           \/ UNCHANGED vars
<1>1. ASSUME NEW u \in Users, NEW v \in Users \ {u}, NEW name \in Names,
             NEW size \in 0..MaxSize, send_file(u, v, name, size)
      PROVE  \E f : NewFile(f)
    BY <1>1, SendFileDoes
<1>2. ASSUME NEW u \in Users, NEW ok \in BOOLEAN, send_chunk(u, ok) \/ abandon_send(u, ok)
      PROVE  \E f, i, S : \E reached \in BOOLEAN : ChunkGone(f, i, S, reached)
    BY <1>2, SendChunkDoes
<1>3. ASSUME NEW u \in Users, NEW ok \in BOOLEAN, process_file_chunk(u, ok)
      PROVE  \E f, i : Completes(u, f, i) \/ Collects(u, f, i)
    BY <1>3, ProcessDoes
<1>4. ASSUME NEW u \in Users, lose_chunk(u) PROVE \E f, i : Loses(u, f, i)
    BY <1>4, LoseDoes
<1>5. ASSUME NEW u \in Users, quit(u) PROVE \E v : Quits(v)
    BY <1>5, QuitDoes
<1> QED
    BY <1>1, <1>2, <1>3, <1>4, <1>5, Zenon DEF Next
-----------------------------------------------------------------------------
\* The state is well formed, and the downloads are files.
Shape == TransferTypes /\ FileIds /\ Sends /\ Queues /\ Pendings /\ SavedIsSent

\* FreshFile: nothing is known of a file before it is sent.
LEMMA FreshFile ==
    ASSUME Shape, NEW f, NEW u \in Users, f.id = Cardinality(files) + 1
    PROVE  /\ f \notin files /\ f.id \notin saved /\ \A g \in files : g.id # f.id
           /\ \A k \in DOMAIN queue[u] : queue[u][k].id # f.id
           /\ \A p \in pending[u] : p.id # f.id
<1>1. Cardinality(files) \in Nat /\ files \in SUBSET AllFiles
    BY FS_CardinalityType DEF Shape, TransferTypes
<1>2. \A g \in files : g.id # f.id
  <2> TAKE g \in files
  <2>1. g.id \in Nat /\ g.id =< Cardinality(files)
      BY <1>1 DEF Shape, FileIds, AllFiles
  <2> QED
      BY <1>1, <2>1
<1>3. \A k \in DOMAIN queue[u] : \E g \in files : queue[u][k].id = g.id
    BY ChunkFields DEF Shape, Queues
<1>4. \A p \in pending[u] : \E g \in files : p.id = g.id
    BY DEF Shape, Pendings, EntryOf
<1> QED
    BY <1>2, <1>3, <1>4 DEF Shape, FileIds

\* SameDownloads: downloads stay what they are while nobody touches them; a file more
\* that was sent changes nothing.
LEMMA SameDownloads ==
    ASSUME SavedIsSent, files \subseteq files', UNCHANGED <<downloads, saved, torn>>
    PROVE  SavedIsSent'
BY DEF SavedIsSent, Begins

\* NewFileShape: a new file has an id of its own.
LEMMA NewFileShape ==
    ASSUME Shape, NEW f, NewFile(f)
    PROVE  Shape'
<1>1. /\ f \in AllFiles /\ f.id = Cardinality(files) + 1 /\ files' = files \cup {f}
      /\ sending[f.from] = {}
      /\ UNCHANGED <<queue, pending, downloads, damaged, saved, torn>>
      /\ f.from \in Users
    BY DEF NewFile, AllFiles
<1>2. f \notin files /\ \A g \in files : g.id # f.id
    BY <1>1, FreshFile
<1>3. PICK S : S = IF 0 \in Idx(f) THEN {[file |-> f, next |-> 0]} ELSE {}
    OBVIOUS
<1>4. sending' = [sending EXCEPT ![f.from] = S]
    BY <1>3 DEF NewFile
<1>5. S \in SUBSET [file : AllFiles, next : Nat]
    BY <1>1, <1>3
<1>6. /\ IsFiniteSet(files) /\ Cardinality(files) \in Nat /\ IsFiniteSet(files')
      /\ Cardinality(files') = Cardinality(files) + 1
    BY <1>1, <1>2, FS_AddElement, FS_CardinalityType DEF Shape, TransferTypes
<1>7. TransferTypes'
    BY <1>1, <1>4, <1>5, <1>6 DEF Shape, TransferTypes
<1>8. FileIds'
  <2>1. \A g \in files' : g.id =< Cardinality(files')
    <3> TAKE g \in files'
    <3>1. CASE g = f
        BY <1>1, <1>6, <3>1
    <3>2. CASE g \in files
      <4>1. g.id =< Cardinality(files) /\ g.id \in Nat
          BY <3>2 DEF Shape, FileIds, TransferTypes, AllFiles
      <4> QED
          BY <1>6, <4>1
    <3> QED
        BY <1>1, <3>1, <3>2
  <2>2. \A g, h \in files' : g.id = h.id => g = h
      BY <1>1, <1>2 DEF Shape, FileIds
  <2>3. \A x \in saved' : \E g \in files' : x = g.id
      BY <1>1 DEF Shape, FileIds
  <2> QED
      BY <2>1, <2>2, <2>3 DEF FileIds
<1>9. Sends'
  <2> SUFFICES ASSUME NEW u \in Users
               PROVE  /\ \A w, x \in sending'[u] : w = x
                      /\ \A w \in sending'[u] : w.file \in files' /\ w.file.from = u
                                                  /\ w.next \in Idx(w.file)
      BY DEF Sends
  <2>1. CASE u = f.from
    <3>1. sending'[u] = S
        BY <1>1, <1>4, <2>1 DEF Shape, TransferTypes
    <3>2. \A w \in S : w = [file |-> f, next |-> 0] /\ 0 \in Idx(f)
        BY <1>3
    <3> QED
        BY <1>1, <2>1, <3>1, <3>2
  <2>2. CASE u # f.from
    <3>1. sending'[u] = sending[u]
        BY <1>4, <2>2 DEF Shape, TransferTypes
    <3> QED
        BY <1>1, <3>1 DEF Shape, Sends
  <2> QED
      BY <2>1, <2>2
<1>10. Queues'
    BY <1>1 DEF Shape, Queues
<1>11. Pendings'
    BY <1>1 DEF Shape, Pendings
<1>12. SavedIsSent'
    BY <1>1, SameDownloads DEF Shape
<1> QED
    BY <1>7, <1>8, <1>9, <1>10, <1>11, <1>12 DEF Shape

\* What is sent, and what reaches the relay.
LEMMA GoneParts ==
    ASSUME Shape, NEW f, NEW i, NEW S, NEW reached \in BOOLEAN, ChunkGone(f, i, S, reached)
    PROVE  /\ f.from \in Users /\ f.to \in Users /\ Chunk(f, i) \in AllChunks
           /\ sending' \in [Users -> SUBSET [file : AllFiles, next : Nat]]
           /\ sending'[f.from] = S
           /\ sending[f.from] = {[file |-> f, next |-> i]}
           /\ \A u \in Users : u # f.from => sending'[u] = sending[u]
           /\ queue' \in [Users -> Seq(AllChunks)]
           /\ \A u \in Users : u # f.to => queue'[u] = queue[u]
           /\ reached => queue'[f.to] = Append(queue[f.to], Chunk(f, i))
           /\ ~reached => queue' = queue
<1>1. /\ f \in AllFiles /\ i \in Nat /\ S \subseteq {[file |-> f, next |-> i + 1]}
      /\ sending' = [sending EXCEPT ![f.from] = S]
      /\ queue' = IF reached THEN [queue EXCEPT ![f.to] = Append(@, Chunk(f, i))] ELSE queue
      /\ [file |-> f, next |-> i] \in sending[f.from]
    BY DEF ChunkGone
<1>2. f.from \in Users /\ f.to \in Users /\ Chunk(f, i) \in AllChunks
    BY <1>1 DEF AllFiles, AllChunks
<1>3. [file |-> f, next |-> i + 1] \in [file : AllFiles, next : Nat]
    BY <1>1
<1>4. /\ sending \in [Users -> SUBSET [file : AllFiles, next : Nat]]
      /\ queue \in [Users -> Seq(AllChunks)]
    BY DEF Shape, TransferTypes
<1>5. Append(queue[f.to], Chunk(f, i)) \in Seq(AllChunks)
    BY <1>2, <1>4, AppendProperties
<1>6. sending[f.from] = {[file |-> f, next |-> i]}
    BY <1>1, <1>2 DEF Shape, Sends
<1>7. S \in SUBSET [file : AllFiles, next : Nat]
    BY <1>1, <1>3
<1>8. /\ sending' \in [Users -> SUBSET [file : AllFiles, next : Nat]] /\ sending'[f.from] = S
      /\ \A u \in Users : u # f.from => sending'[u] = sending[u]
    BY <1>1, <1>2, <1>4, <1>7
<1>9. /\ queue' \in [Users -> Seq(AllChunks)]
      /\ \A u \in Users : u # f.to => queue'[u] = queue[u]
      /\ reached => queue'[f.to] = Append(queue[f.to], Chunk(f, i))
      /\ ~reached => queue' = queue
    BY <1>1, <1>2, <1>4, <1>5
<1> QED
    BY <1>2, <1>6, <1>8, <1>9

\* GoneShape: what is sent is a chunk of the file, and the next one is too.
LEMMA GoneShape ==
    ASSUME Shape, NEW f, NEW i, NEW S, NEW reached \in BOOLEAN, ChunkGone(f, i, S, reached)
    PROVE  Shape'
<1>1. /\ f \in files /\ i \in Idx(f) /\ S \subseteq {[file |-> f, next |-> i + 1]}
      /\ S # {} => i + 1 \in Idx(f)
      /\ UNCHANGED <<pending, downloads, files, saved, torn>>
      /\ [file |-> f, next |-> i] \in sending[f.from]
    BY DEF ChunkGone
<1>2. /\ f.from \in Users /\ f.to \in Users /\ Chunk(f, i) \in AllChunks
      /\ sending' \in [Users -> SUBSET [file : AllFiles, next : Nat]]
      /\ sending'[f.from] = S
      /\ \A u \in Users : u # f.from => sending'[u] = sending[u]
      /\ queue' \in [Users -> Seq(AllChunks)]
      /\ \A u \in Users : u # f.to => queue'[u] = queue[u]
      /\ reached => queue'[f.to] = Append(queue[f.to], Chunk(f, i))
      /\ ~reached => queue' = queue
    BY GoneParts
<1>3. TransferTypes' /\ FileIds' /\ Pendings'
    BY <1>1, <1>2 DEF Shape, TransferTypes, FileIds, Pendings
<1>6. SavedIsSent'
    BY <1>1, SameDownloads DEF Shape
<1>4. Sends'
  <2> SUFFICES ASSUME NEW u \in Users
               PROVE  /\ \A w, x \in sending'[u] : w = x
                      /\ \A w \in sending'[u] : w.file \in files /\ w.file.from = u
                                                  /\ w.next \in Idx(w.file)
      BY <1>1 DEF Sends
  <2>1. CASE u = f.from
      BY <1>1, <1>2, <2>1
  <2>2. CASE u # f.from
      BY <1>2, <2>2 DEF Shape, Sends
  <2> QED
      BY <2>1, <2>2
<1>5. Queues'
  <2> SUFFICES ASSUME NEW u \in Users, NEW k \in DOMAIN queue'[u]
               PROVE  \E g \in files : g.to = u /\ \E j \in Idx(g) : queue'[u][k] = Chunk(g, j)
      BY <1>1 DEF Queues
  <2>1. CASE queue'[u] = queue[u]
      BY <2>1 DEF Shape, Queues
  <2>2. CASE u = f.to /\ reached
    <3>1. queue[u] \in Seq(AllChunks) /\ queue'[u] = Append(queue[u], Chunk(f, i))
        BY <1>2, <2>2 DEF Shape, TransferTypes
    <3>2. \/ k \in DOMAIN queue[u] /\ queue'[u][k] = queue[u][k]
          \/ queue'[u][k] = Chunk(f, i)
        BY <1>2, <3>1, AppendedAt
    <3> QED
        BY <1>1, <2>2, <3>2 DEF Shape, Queues
  <2> QED
      BY <1>2, <2>1, <2>2
<1> QED
    BY <1>3, <1>4, <1>5, <1>6 DEF Shape

\* What is left of the queue.
LEMMA TakesParts ==
    ASSUME Shape, NEW u, NEW f, NEW i, Takes(u, f, i)
    PROVE  /\ u \in Users /\ f \in files /\ f \in AllFiles /\ f.to = u /\ i \in Idx(f)
           /\ UNCHANGED <<sending, files>>
           /\ queue' \in [Users -> Seq(AllChunks)]
           /\ \A v \in Users : v # u => queue'[v] = queue[v]
           /\ 1 \in DOMAIN queue[u] /\ queue[u][1] = Chunk(f, i)
           /\ \A k \in DOMAIN queue'[u] :
                /\ k + 1 \in DOMAIN queue[u] /\ k + 1 # 1 /\ k \in Nat
                /\ queue'[u][k] = queue[u][k + 1]
           /\ \A k \in DOMAIN queue[u] : k # 1 => /\ k - 1 \in DOMAIN queue'[u]
                                                  /\ queue'[u][k - 1] = queue[u][k]
<1>1. /\ u \in Users /\ f \in files /\ f \in AllFiles /\ f.to = u /\ i \in Idx(f)
      /\ queue[u] # <<>> /\ Head(queue[u]) = Chunk(f, i)
      /\ queue' = [queue EXCEPT ![u] = Tail(@)]
      /\ UNCHANGED <<sending, files>>
    BY DEF Takes
<1>2. queue \in [Users -> Seq(AllChunks)]
    BY DEF Shape, TransferTypes
<1>3. PICK s, r : s = queue[u] /\ r = Tail(queue[u])
    OBVIOUS
<1>4. s \in Seq(AllChunks) /\ s # <<>> /\ r = Tail(s)
    BY <1>1, <1>2, <1>3
<1>5. /\ r \in Seq(AllChunks) /\ 1 \in DOMAIN s /\ Head(s) = s[1]
      /\ \A k \in DOMAIN r : k + 1 \in DOMAIN s /\ k + 1 # 1 /\ r[k] = s[k + 1] /\ k \in Nat
      /\ \A k \in DOMAIN s : k # 1 => k - 1 \in DOMAIN r /\ r[k - 1] = s[k]
    BY <1>4, TailAt
<1>6. /\ queue' \in [Users -> Seq(AllChunks)] /\ queue'[u] = r
      /\ \A v \in Users : v # u => queue'[v] = queue[v]
    BY <1>1, <1>2, <1>3, <1>5
<1> QED
    BY <1>1, <1>3, <1>5, <1>6

\* TakesShape: a queue without its first chunk holds chunks of files as before.
LEMMA TakesShape ==
    ASSUME Shape, NEW u, NEW f, NEW i, Takes(u, f, i)
    PROVE  Queues' /\ Sends' /\ UNCHANGED files
<1>1. /\ UNCHANGED <<sending, files>> /\ u \in Users
      /\ \A v \in Users : v # u => queue'[v] = queue[v]
      /\ \A k \in DOMAIN queue'[u] : k + 1 \in DOMAIN queue[u] /\ queue'[u][k] = queue[u][k + 1]
    BY TakesParts
<1>2. Queues'
  <2> SUFFICES ASSUME NEW v \in Users, NEW k \in DOMAIN queue'[v]
               PROVE  \E g \in files : g.to = v /\ \E j \in Idx(g) : queue'[v][k] = Chunk(g, j)
      BY <1>1 DEF Queues
  <2>1. CASE v = u
      BY <1>1, <2>1 DEF Shape, Queues
  <2>2. CASE v # u
      BY <1>1, <2>2 DEF Shape, Queues
  <2> QED
      BY <2>1, <2>2
<1>3. Sends'
    BY <1>1 DEF Shape, Sends
<1> QED
    BY <1>1, <1>2, <1>3

\* CompletesShape: a file that is complete is written whole, under its name.
LEMMA CompletesShape ==
    ASSUME Shape, NEW u, NEW f, NEW i, Completes(u, f, i)
    PROVE  Shape'
<1>1. /\ u \in Users /\ f \in files /\ f \in AllFiles /\ f.to = u
      /\ UNCHANGED <<sending, files>> /\ queue' \in [Users -> Seq(AllChunks)]
    BY TakesParts DEF Completes
<1>2. Queues' /\ Sends'
    BY TakesShape DEF Completes
<1>3. pending' = [pending EXCEPT ![u] = Others(u, f)] /\ pending \in [Users -> SUBSET Entries]
    BY DEF Completes, Shape, TransferTypes
<1>4. Others(u, f) \subseteq pending[u]
    BY DEF Others
<1>5. /\ pending' \in [Users -> SUBSET Entries]
      /\ \A v \in Users : pending'[v] \subseteq pending[v]
    BY <1>1, <1>3, <1>4
<1>6. Pendings'
    BY <1>1, <1>5 DEF Shape, Pendings
<1>7. /\ downloads \in [Users -> [Names -> SUBSET Contents]] /\ f.name \in Names
      /\ Bytes(f) \in Contents /\ Len(Bytes(f)) = f.size /\ f.size \in Nat
    BY <1>1, BytesType DEF Shape, TransferTypes, AllFiles, Contents
\* What is written is the file, or the beginning of it.
<1>8. ASSUME NEW written \in Contents,
             downloads' = [downloads EXCEPT ![u][f.name] = {written}],
             \/ f.id \in saved' /\ written = Bytes(f)
             \/ f.id \in torn' /\ Begins(written, f),
             saved \subseteq saved', saved' \subseteq saved \cup {f.id},
             torn \subseteq torn'
      PROVE  Shape'
  <2>1. /\ downloads' \in [Users -> [Names -> SUBSET Contents]]
        /\ \A v \in Users, n \in Names :
             downloads'[v][n] = IF v = u /\ n = f.name THEN {written} ELSE downloads[v][n]
      BY <1>1, <1>7, <1>8
  <2>2. TransferTypes'
      BY <1>1, <1>5, <2>1 DEF Shape, TransferTypes
  <2>3. FileIds'
      BY <1>1, <1>8 DEF Shape, FileIds
  <2>4. SavedIsSent'
    <3> SUFFICES ASSUME NEW v \in Users, NEW n \in Names, NEW content \in downloads'[v][n]
                 PROVE  \E g \in files : /\ g.to = v /\ g.name = n
                                         /\ \/ g.id \in saved' /\ content = Bytes(g)
                                            \/ g.id \in torn' /\ Begins(content, g)
        BY <1>1 DEF SavedIsSent, Begins
    <3>1. CASE v = u /\ n = f.name
        BY <1>1, <1>8, <2>1, <3>1
    <3>2. CASE ~(v = u /\ n = f.name)
        BY <1>8, <2>1, <3>2 DEF Shape, SavedIsSent
    <3> QED
        BY <3>1, <3>2
  <2> QED
      BY <1>2, <1>6, <2>2, <2>3, <2>4 DEF Shape
<1>9. CASE /\ downloads' = [downloads EXCEPT ![u][f.name] = {Bytes(f)}]
           /\ saved' = saved \cup {f.id} /\ UNCHANGED torn
    BY <1>7, <1>8, <1>9
<1>10. ASSUME NEW k \in 0..(f.size - 1), torn' = torn \cup {f.id}, UNCHANGED saved,
              downloads' = [downloads EXCEPT ![u][f.name] = {SubSeq(Bytes(f), 1, k)}]
       PROVE  Shape'
  <2>1. PICK written : written = SubSeq(Bytes(f), 1, k)
      OBVIOUS
  <2>2. written \in Contents
    <3>1. \A j \in 1..k : Bytes(f)[j] \in Nat \X Nat
        BY <1>7 DEF Contents
    <3> QED
        BY <1>7, <2>1, <3>1, SubSeqProperties DEF Contents
  <2>3. Begins(written, f)
      BY <2>1 DEF Begins
  <2> QED
      BY <1>8, <1>10, <2>1, <2>2, <2>3
<1>11. CASE UNCHANGED <<downloads, saved, torn>>
  <2>1. TransferTypes' /\ FileIds'
      BY <1>1, <1>5, <1>11 DEF Shape, TransferTypes, FileIds
  <2>2. SavedIsSent'
      BY <1>1, <1>11, SameDownloads DEF Shape
  <2> QED
      BY <1>2, <1>6, <2>1, <2>2 DEF Shape
<1> QED
    BY <1>9, <1>10, <1>11 DEF Completes

\* CollectsShape: an entry with a chunk more still lacks one and is its file's only
\* entry.
LEMMA CollectsShape ==
    ASSUME Shape, NEW u, NEW f, NEW i, Collects(u, f, i)
    PROVE  Shape'
<1>1. /\ u \in Users /\ f \in files /\ f \in AllFiles /\ f.to = u
      /\ UNCHANGED <<sending, files>> /\ queue' \in [Users -> Seq(AllChunks)]
      /\ UNCHANGED <<downloads, saved, torn>>
    BY TakesParts DEF Collects
<1>2. Queues' /\ Sends'
    BY TakesShape DEF Collects
<1>3. PICK p \in Entries : /\ EntryOf(p, f) /\ Cardinality(p.received) # p.total
                           /\ pending' = [pending EXCEPT ![u] = Others(u, f) \cup {p}]
    BY DEF Collects
<1>4. pending \in [Users -> SUBSET Entries] /\ Others(u, f) \subseteq pending[u]
      /\ (\A q \in Others(u, f) : q.id # f.id) /\ p.id = f.id
    BY <1>3 DEF Shape, TransferTypes, Others, EntryOf
<1>5. /\ pending' \in [Users -> SUBSET Entries] /\ pending'[u] = Others(u, f) \cup {p}
      /\ \A v \in Users : v # u => pending'[v] = pending[v]
    BY <1>1, <1>3, <1>4
<1>6. Pendings'
  <2> SUFFICES ASSUME NEW v \in Users
               PROVE  /\ \A q, x \in pending'[v] : q.id = x.id => q = x
                      /\ \A q \in pending'[v] : /\ Cardinality(q.received) # q.total
                                                /\ \E g \in files : g.to = v /\ EntryOf(q, g)
      BY <1>1 DEF Pendings
  <2>1. CASE v = u
    <3>1. \A q, x \in Others(u, f) : q.id = x.id => q = x
        BY <1>1, <1>4 DEF Shape, Pendings
    <3>2. \A q \in Others(u, f) : /\ Cardinality(q.received) # q.total
                                  /\ \E g \in files : g.to = v /\ EntryOf(q, g)
        BY <1>1, <1>4, <2>1 DEF Shape, Pendings
    <3> QED
      <4>1. \A q \in pending'[v] : q \in Others(u, f) \/ q = p
          BY <1>5, <2>1
      <4>2. \A q, x \in pending'[v] : q.id = x.id => q = x
          BY <1>4, <3>1, <4>1, Zenon
      <4>3. \A q \in pending'[v] : /\ Cardinality(q.received) # q.total
                                   /\ \E g \in files : g.to = v /\ EntryOf(q, g)
          BY <1>1, <1>3, <2>1, <3>2, <4>1, Zenon
      <4> QED
          BY <4>2, <4>3
  <2>2. CASE v # u
      BY <1>5, <2>2 DEF Shape, Pendings
  <2> QED
      BY <2>1, <2>2
<1>7. TransferTypes' /\ FileIds'
    BY <1>1, <1>5 DEF Shape, TransferTypes, FileIds
<1>8. SavedIsSent'
    BY <1>1, SameDownloads DEF Shape
<1> QED
    BY <1>2, <1>6, <1>7, <1>8 DEF Shape

\* LosesShape: a lost chunk changes no entry.
LEMMA LosesShape ==
    ASSUME Shape, NEW u, NEW f, NEW i, Loses(u, f, i)
    PROVE  Shape'
<1>1. UNCHANGED <<sending, files>> /\ queue' \in [Users -> Seq(AllChunks)]
      /\ UNCHANGED <<pending, downloads, saved, torn>>
    BY TakesParts DEF Loses
<1>2. Queues' /\ Sends'
    BY TakesShape DEF Loses
<1>3. TransferTypes' /\ FileIds' /\ Pendings'
    BY <1>1 DEF Shape, TransferTypes, FileIds, Pendings
<1>4. SavedIsSent'
    BY <1>1, SameDownloads DEF Shape
<1> QED
    BY <1>2, <1>3, <1>4 DEF Shape

\* QuitsParts: nothing of a user who quit is being sent or collected.
LEMMA QuitsParts ==
    ASSUME Shape, NEW u, Quits(u)
    PROVE  /\ sending' \in [Users -> SUBSET [file : AllFiles, next : Nat]]
           /\ pending' \in [Users -> SUBSET Entries]
           /\ sending'[u] = {} /\ pending'[u] = {}
           /\ \A v \in Users : v # u => sending'[v] = sending[v] /\ pending'[v] = pending[v]
           /\ \A v \in Users : sending'[v] \subseteq sending[v] /\ pending'[v] \subseteq pending[v]
<1>1. /\ u \in Users /\ sending' = [sending EXCEPT ![u] = {}]
      /\ pending' = [pending EXCEPT ![u] = {}]
    BY DEF Quits
<1>2. /\ sending \in [Users -> SUBSET [file : AllFiles, next : Nat]]
      /\ pending \in [Users -> SUBSET Entries]
    BY DEF Shape, TransferTypes
<1> QED
    BY <1>1, <1>2

\* QuitsShape: what is left is as it was.
LEMMA QuitsShape ==
    ASSUME Shape, NEW u, Quits(u)
    PROVE  Shape'
<1>1. /\ sending' \in [Users -> SUBSET [file : AllFiles, next : Nat]]
      /\ pending' \in [Users -> SUBSET Entries]
      /\ \A v \in Users : sending'[v] \subseteq sending[v] /\ pending'[v] \subseteq pending[v]
      /\ UNCHANGED <<queue, downloads, files, saved, torn>>
    BY QuitsParts DEF Quits
<1>2. TransferTypes' /\ FileIds' /\ Queues'
    BY <1>1 DEF Shape, TransferTypes, FileIds, Queues
<1>5. SavedIsSent'
    BY <1>1, SameDownloads DEF Shape
<1>3. Sends'
    BY <1>1 DEF Shape, Sends
<1>4. Pendings'
    BY <1>1 DEF Shape, Pendings
<1> QED
    BY <1>2, <1>3, <1>4, <1>5 DEF Shape

\* ShapeStep: every step keeps the shape of the state.
LEMMA ShapeStep == ASSUME Shape, [Next]_vars PROVE Shape'
<1>1. CASE \E f : NewFile(f)
    BY <1>1, NewFileShape
<1>2. CASE \E f, i, S : \E reached \in BOOLEAN : ChunkGone(f, i, S, reached)
    BY <1>2, GoneShape
<1>3. CASE \E u, f, i : Completes(u, f, i) \/ Collects(u, f, i) \/ Loses(u, f, i)
    BY <1>3, CompletesShape, CollectsShape, LosesShape
<1>4. CASE \E u : Quits(u)
    BY <1>4, QuitsShape
<1>5. CASE UNCHANGED vars
  <2>1. TransferTypes' /\ FileIds' /\ Sends' /\ Queues' /\ Pendings'
      BY <1>5 DEF vars, Shape, TransferTypes, FileIds, Sends, Queues, Pendings
  <2>2. SavedIsSent'
      BY <1>5, SameDownloads DEF vars, Shape
  <2> QED
      BY <2>1, <2>2 DEF Shape
<1> QED
    BY <1>1, <1>2, <1>3, <1>4, <1>5, StepIs DEF Shape
-----------------------------------------------------------------------------
\* Where the chunks of a file are.
Flow == NotTwice /\ Once /\ InOrder /\ SavedIsOver /\ NoneMissing

\* WaitingAre: the chunks that wait are the file's, and those under its id.
LEMMA WaitingAre ==
    ASSUME Shape, NEW f \in files
    PROVE  /\ f \in AllFiles /\ f.to \in Users /\ f.from \in Users
           /\ Waiting(f) \subseteq Idx(f) /\ ToSend(f) \subseteq Idx(f) /\ Idx(f) \subseteq Nat
           /\ Had(f) \subseteq PartsOf(f)
<1>1. f \in AllFiles /\ f.to \in Users /\ f.from \in Users
    BY DEF Shape, TransferTypes, AllFiles
<1>2. Waiting(f) \subseteq Idx(f)
  <2> SUFFICES ASSUME NEW k \in DOMAIN queue[f.to], queue[f.to][k].id = f.id
               PROVE  queue[f.to][k].index \in Idx(f)
      BY DEF Waiting
  <2>1. PICK g \in files : \E i \in Idx(g) : queue[f.to][k] = Chunk(g, i)
      BY <1>1 DEF Shape, Queues
  <2>2. PICK i \in Idx(g) : queue[f.to][k] = Chunk(g, i)
      BY <2>1
  <2>3. g.id = f.id /\ queue[f.to][k].index = i
      BY <2>2, ChunkFields
  <2>4. g = f
      BY <2>3 DEF Shape, FileIds
  <2> QED
      BY <2>2, <2>3, <2>4
<1>3. ToSend(f) \subseteq Idx(f)
    BY <1>1 DEF Shape, Sends, ToSend
<1>4. Had(f) \subseteq PartsOf(f)
  <2> SUFFICES ASSUME NEW p \in pending[f.to], p.id = f.id PROVE p.received \subseteq PartsOf(f)
      BY DEF Had
  <2>1. PICK g \in files : EntryOf(p, g)
      BY <1>1 DEF Shape, Pendings
  <2>2. g = f
      BY <2>1 DEF Shape, FileIds, EntryOf
  <2> QED
      BY <2>1, <2>2 DEF EntryOf
<1> QED
    BY <1>1, <1>2, <1>3, <1>4, IdxFacts

\* The same for file g.
Same(g) ==
    /\ ToSend(g)' = ToSend(g) /\ Waiting(g)' = Waiting(g) /\ Had(g)' = Had(g)
    /\ HasEntry(g)' <=> HasEntry(g)
    /\ g.id \in saved' <=> g.id \in saved
    /\ g.id \in damaged => g.id \in damaged'

\* The same of one file.
FlowOf(g) ==
    /\ \A r \in Had(g) : r.index \notin Waiting(g)
    /\ \A n \in ToSend(g) : /\ \A i \in Waiting(g) : i < n
                            /\ \A r \in Had(g) : r.index < n
    /\ g.id \in saved => ToSend(g) = {} /\ Waiting(g) = {} /\ ~HasEntry(g)
    /\ g.id \notin damaged \cup saved =>
        \A i \in Idx(g) : (\A n \in ToSend(g) : i < n) =>
            i \in Waiting(g) \/ Part(g, i) \in Had(g)

\* FlowIs: the flow of chunks, file by file.
LEMMA FlowIs == Flow <=> NotTwice /\ \A g \in files : FlowOf(g)
BY Zenon DEF Flow, FlowOf, Once, InOrder, SavedIsOver, NoneMissing

\* FlowNext: the same of the next state.
LEMMA FlowNext == ASSUME NotTwice', \A g \in files' : FlowOf(g)' PROVE Flow'
BY Zenon DEF Flow, FlowOf, Once, InOrder, SavedIsOver, NoneMissing

\* SameFlow: what holds of a file holds while nothing happens to it.
LEMMA SameFlow == ASSUME NEW g, Same(g), FlowOf(g) PROVE FlowOf(g)'
BY Zenon DEF Same, FlowOf

\* NewFileFlow: of a new file nothing waits and nothing was received.
LEMMA NewFileFlow ==
    ASSUME Shape, Flow, NEW f, NewFile(f)
    PROVE  Flow'
<1>1. /\ f \in AllFiles /\ f.id = Cardinality(files) + 1 /\ files' = files \cup {f}
      /\ sending[f.from] = {} /\ f.from \in Users /\ f.to \in Users
      /\ UNCHANGED <<queue, pending, downloads, damaged, saved, torn>>
    BY DEF NewFile, AllFiles
<1>2. /\ f \notin files /\ f.id \notin saved
      /\ \A k \in DOMAIN queue[f.to] : queue[f.to][k].id # f.id
      /\ \A p \in pending[f.to] : p.id # f.id
    BY <1>1, FreshFile
<1>3. PICK S : S = IF 0 \in Idx(f) THEN {[file |-> f, next |-> 0]} ELSE {}
    OBVIOUS
<1>4. /\ sending' = [sending EXCEPT ![f.from] = S]
      /\ sending \in [Users -> SUBSET [file : AllFiles, next : Nat]]
    BY <1>3 DEF NewFile, Shape, TransferTypes
<1>5. sending'[f.from] = S /\ \A u \in Users : u # f.from => sending'[u] = sending[u]
    BY <1>1, <1>4
<1>6. \A g \in files : FlowOf(g)'
  <2> TAKE g \in files
  <2>1. g.from \in Users /\ g # f
      BY <1>2, WaitingAre
  <2>2. ToSend(g)' = ToSend(g)
    <3>1. \A w \in S : w.file = f
        BY <1>3
    <3>2. {x \in sending'[g.from] : x.file = g} = {x \in sending[g.from] : x.file = g}
        BY <1>1, <1>5, <2>1, <3>1
    <3> QED
        BY <3>2 DEF ToSend
  <2>3. Same(g)
      BY <1>1, <2>2 DEF Same, Waiting, Had, HasEntry
  <2> QED
      BY <2>3, SameFlow, FlowIs
<1>7. FlowOf(f)'
  <2>1. Waiting(f)' = {} /\ Had(f)' = {}
      BY <1>1, <1>2 DEF Waiting, Had
  <2>2. f.id \notin saved'
      BY <1>1, <1>2
  <2>3. \A i \in Idx(f) : ~ \A n \in ToSend(f)' : i < n
    <3> SUFFICES ASSUME NEW i \in Idx(f) PROVE \E n \in ToSend(f)' : ~(i < n)
        OBVIOUS
    <3>1. i \in Nat /\ 0 \in Idx(f)
        BY <1>1, IdxFacts
    <3>2. [file |-> f, next |-> 0] \in sending'[f.from]
        BY <1>3, <1>5, <3>1
    <3>3. 0 \in ToSend(f)'
        BY <3>2 DEF ToSend
    <3> QED
        BY <3>1, <3>3
  <2> QED
      BY <2>1, <2>2, <2>3 DEF FlowOf
<1>8. NotTwice'
  <2> SUFFICES ASSUME NEW g \in files', NEW k \in DOMAIN queue[g.to], NEW l \in DOMAIN queue[g.to],
                      queue[g.to][k].id = g.id, queue[g.to][l].id = g.id,
                      queue[g.to][k].index = queue[g.to][l].index
               PROVE  k = l
      BY <1>1 DEF NotTwice
  <2>1. CASE g = f
      BY <1>2, <2>1
  <2>2. CASE g \in files
      BY <2>2 DEF Flow, NotTwice
  <2> QED
      BY <1>1, <2>1, <2>2
<1> QED
    BY <1>1, <1>6, <1>7, <1>8, FlowNext

\* GoneSame: other files are not touched when a chunk of f goes.
LEMMA GoneSame ==
    ASSUME Shape, NEW f, NEW i, NEW S, NEW reached \in BOOLEAN, ChunkGone(f, i, S, reached),
           NEW g \in files, g # f
    PROVE  Same(g)
<1>1. /\ f \in files /\ UNCHANGED <<pending, downloads, files, saved, torn>>
      /\ damaged \subseteq damaged' /\ S \subseteq {[file |-> f, next |-> i + 1]}
    BY DEF ChunkGone
<1>2. /\ f.from \in Users /\ f.to \in Users /\ Chunk(f, i) \in AllChunks
      /\ sending'[f.from] = S /\ sending[f.from] = {[file |-> f, next |-> i]}
      /\ \A u \in Users : u # f.from => sending'[u] = sending[u]
      /\ \A u \in Users : u # f.to => queue'[u] = queue[u]
      /\ reached => queue'[f.to] = Append(queue[f.to], Chunk(f, i))
      /\ ~reached => queue' = queue
    BY GoneParts
<1>3. g.from \in Users /\ g.to \in Users /\ g.id # f.id
    BY <1>1, WaitingAre DEF Shape, FileIds
<1>4. ToSend(g)' = ToSend(g)
  <2>1. {x \in sending'[g.from] : x.file = g} = {x \in sending[g.from] : x.file = g}
      BY <1>1, <1>2, <1>3
  <2> QED
      BY <2>1 DEF ToSend
<1>5. Waiting(g)' = Waiting(g)
  <2>1. CASE queue'[g.to] = queue[g.to]
      BY <2>1 DEF Waiting
  <2>2. CASE reached /\ g.to = f.to
    <3>1. PICK q, r : q = queue[g.to] /\ r = queue'[g.to]
        OBVIOUS
    <3>2. q \in Seq(AllChunks) /\ r = Append(q, Chunk(f, i))
        BY <1>2, <2>2, <3>1 DEF Shape, TransferTypes
    <3>3. /\ \A k \in DOMAIN q : k \in DOMAIN r /\ r[k] = q[k]
          /\ \A k \in DOMAIN r : r[k] = Chunk(f, i) \/ k \in DOMAIN q
        BY <1>2, <3>2, AppendedAt
    <3>4. Chunk(f, i).id = f.id
        BY ChunkFields
    <3>5. {l \in DOMAIN r : r[l].id = g.id} = {l \in DOMAIN q : q[l].id = g.id}
        BY <1>3, <3>3, <3>4
    <3>6. PICK W, V : /\ V = {q[k].index : k \in {l \in DOMAIN q : q[l].id = g.id}}
                      /\ W = {r[k].index : k \in {l \in DOMAIN r : r[l].id = g.id}}
        OBVIOUS
    <3>7. V = Waiting(g) /\ W = Waiting(g)'
        BY <3>1, <3>6 DEF Waiting
    <3>8. V = W
        BY <3>3, <3>5, <3>6
    <3> QED
        BY <3>7, <3>8
  <2> QED
      BY <1>2, <1>3, <2>1, <2>2
<1> QED
    BY <1>1, <1>4, <1>5 DEF Same, Had, HasEntry

\* GoneSets: the chunk goes from the sender to the relay, or is lost.
LEMMA GoneSets ==
    ASSUME Shape, NEW f, NEW i, NEW S, NEW reached \in BOOLEAN, ChunkGone(f, i, S, reached)
    PROVE  /\ ToSend(f) = {i} /\ ToSend(f)' = {w.next : w \in S}
           /\ Waiting(f)' = IF reached THEN Waiting(f) \cup {i} ELSE Waiting(f)
           /\ Had(f)' = Had(f) /\ (HasEntry(f)' <=> HasEntry(f)) /\ saved' = saved
<1>1. /\ f \in files /\ UNCHANGED <<pending, downloads, files, saved, torn>>
      /\ S \subseteq {[file |-> f, next |-> i + 1]}
    BY DEF ChunkGone
<1>2. /\ f.from \in Users /\ f.to \in Users /\ Chunk(f, i) \in AllChunks
      /\ sending'[f.from] = S /\ sending[f.from] = {[file |-> f, next |-> i]}
      /\ reached => queue'[f.to] = Append(queue[f.to], Chunk(f, i))
      /\ ~reached => queue' = queue
    BY GoneParts
<1>3. ToSend(f) = {i}
  <2>1. PICK w : w = [file |-> f, next |-> i]
      OBVIOUS
  <2>2. {x \in {w} : x.file = f} = {w} /\ {x.next : x \in {w}} = {i}
      BY <2>1
  <2> QED
      BY <1>2, <2>1, <2>2 DEF ToSend
<1>4. ToSend(f)' = {w.next : w \in S}
  <2>1. {x \in S : x.file = f} = S
      BY <1>1
  <2> QED
      BY <1>2, <2>1 DEF ToSend
<1>5. Waiting(f)' = IF reached THEN Waiting(f) \cup {i} ELSE Waiting(f)
  <2>1. CASE ~reached
      BY <1>2, <2>1 DEF Waiting
  <2>2. CASE reached
    <3>1. PICK q, r : q = queue[f.to] /\ r = queue'[f.to]
        OBVIOUS
    <3>2. q \in Seq(AllChunks) /\ r = Append(q, Chunk(f, i))
        BY <1>2, <2>2, <3>1 DEF Shape, TransferTypes
    <3>3. /\ \A k \in DOMAIN q : k \in DOMAIN r /\ r[k] = q[k]
          /\ \E n \in DOMAIN r : r[n] = Chunk(f, i) /\ n \notin DOMAIN q
                                   /\ \A k \in DOMAIN r : k = n \/ k \in DOMAIN q
        BY <1>2, <3>2, AppendedAt
    <3>4. Chunk(f, i).id = f.id /\ Chunk(f, i).index = i
        BY ChunkFields
    <3>5. PICK W, V : /\ V = {q[k].index : k \in {l \in DOMAIN q : q[l].id = f.id}}
                      /\ W = {r[k].index : k \in {l \in DOMAIN r : r[l].id = f.id}}
        OBVIOUS
    <3>6. V = Waiting(f) /\ W = Waiting(f)'
        BY <3>1, <3>5 DEF Waiting
    <3>7. \A x : x \in W => x \in V \cup {i}
        BY <3>3, <3>4, <3>5
    <3>8. \A x : x \in V \cup {i} => x \in W
        BY <3>3, <3>4, <3>5
    <3> QED
        BY <2>2, <3>6, <3>7, <3>8
  <2> QED
      BY <2>1, <2>2
<1> QED
    BY <1>1, <1>3, <1>4, <1>5 DEF Had, HasEntry

\* GoneNotTwice: the chunk that is sent now is not at the relay yet.
LEMMA GoneNotTwice ==
    ASSUME Shape, Flow, NEW f, NEW i, NEW S, NEW reached \in BOOLEAN,
           ChunkGone(f, i, S, reached)
    PROVE  NotTwice'
<1>1. f \in files /\ UNCHANGED files /\ i \in Nat
    BY DEF ChunkGone
<1>2. /\ f.to \in Users /\ Chunk(f, i) \in AllChunks
      /\ \A u \in Users : u # f.to => queue'[u] = queue[u]
      /\ reached => queue'[f.to] = Append(queue[f.to], Chunk(f, i))
      /\ ~reached => queue' = queue
    BY GoneParts
<1>3. i \notin Waiting(f)
    BY <1>1, GoneSets DEF Flow, InOrder
<1> SUFFICES ASSUME NEW g \in files, NEW k \in DOMAIN queue'[g.to], NEW l \in DOMAIN queue'[g.to],
                    queue'[g.to][k].id = g.id, queue'[g.to][l].id = g.id,
                    queue'[g.to][k].index = queue'[g.to][l].index
             PROVE  k = l
    BY <1>1 DEF NotTwice
<1>4. g.to \in Users /\ (g # f => g.id # f.id)
    BY <1>1, WaitingAre DEF Shape, FileIds
<1>5. CASE queue'[g.to] = queue[g.to]
    BY <1>5 DEF Flow, NotTwice
<1>6. CASE reached /\ g.to = f.to
  <2>1. PICK q, r : q = queue[g.to] /\ r = queue'[g.to]
      OBVIOUS
  <2>2. q \in Seq(AllChunks) /\ r = Append(q, Chunk(f, i))
      BY <1>2, <1>6, <2>1 DEF Shape, TransferTypes
  <2>3. /\ \A m \in DOMAIN q : m \in DOMAIN r /\ r[m] = q[m]
        /\ \E n \in DOMAIN r : r[n] = Chunk(f, i) /\ n \notin DOMAIN q
                                 /\ \A m \in DOMAIN r : m = n \/ m \in DOMAIN q
      BY <1>2, <2>2, AppendedAt
  <2>4. Chunk(f, i).id = f.id /\ Chunk(f, i).index = i
      BY ChunkFields
  <2>5. \A m, n \in DOMAIN q : q[m].id = g.id /\ q[n].id = g.id /\ q[m].index = q[n].index => m = n
      BY <2>1 DEF Flow, NotTwice
  <2>6. \A m \in DOMAIN q : q[m].id = f.id => q[m].index # i
      BY <1>3, <1>6, <2>1 DEF Waiting
  <2>7. /\ k \in DOMAIN r /\ l \in DOMAIN r /\ r[k].id = g.id /\ r[l].id = g.id
        /\ r[k].index = r[l].index
      BY <2>1
  <2> QED
      BY <1>4, <2>3, <2>4, <2>5, <2>6, <2>7
<1> QED
    BY <1>2, <1>4, <1>5, <1>6

\* GoneFlow: chunks leave the sender in order and none is forgotten.
LEMMA GoneFlow ==
    ASSUME Shape, Flow, NEW f, NEW i, NEW S, NEW reached \in BOOLEAN,
           ChunkGone(f, i, S, reached)
    PROVE  Flow'
<1>1. /\ f \in files /\ UNCHANGED files /\ i \in Idx(f) /\ i \in Nat
      /\ S \subseteq {[file |-> f, next |-> i + 1]}
      /\ damaged \subseteq damaged'
      /\ f.id \notin damaged' => reached /\ (S = {} => i + 1 \notin Idx(f))
    BY DEF ChunkGone
<1>2. PICK W, H, N : W = Waiting(f) /\ H = Had(f) /\ N = ToSend(f)'
    OBVIOUS
<1>3. /\ ToSend(f) = {i} /\ N = {w.next : w \in S}
      /\ Waiting(f)' = IF reached THEN W \cup {i} ELSE W
      /\ Had(f)' = H /\ (HasEntry(f)' <=> HasEntry(f)) /\ saved' = saved
    BY <1>2, GoneSets
<1>4. N \subseteq {i + 1} /\ (S # {} => N = {i + 1})
    BY <1>1, <1>3
<1>5. FlowOf(f)
    BY <1>1, FlowIs
<1>6. /\ \A r \in H : r.index \notin W /\ r.index < i
      /\ \A j \in W : j < i
      /\ f.id \notin saved
      /\ f.id \notin damaged => \A j \in Idx(f) : j < i => j \in W \/ Part(f, j) \in H
    BY <1>2, <1>3, <1>5 DEF FlowOf
<1>7. W \subseteq Nat /\ Idx(f) \subseteq Nat /\ \A r \in H : r.index \in Nat
  <2>1. W \subseteq Idx(f) /\ Idx(f) \subseteq Nat /\ H \subseteq PartsOf(f)
      BY <1>1, <1>2, WaitingAre
  <2>2. \A r \in PartsOf(f) : r.index \in Idx(f)
      BY ChunkFields DEF PartsOf
  <2> QED
      BY <2>1, <2>2
<1>8. FlowOf(f)'
  <2>1. PICK V : V = Waiting(f)'
      OBVIOUS
  <2>2. V \subseteq W \cup {i} /\ W \subseteq V /\ (reached => i \in V)
      BY <1>3, <2>1
  <2>3. \A r \in H : r.index \notin V
      BY <1>1, <1>6, <1>7, <2>2
  <2>4. \A n \in N : (\A j \in V : j < n) /\ (\A r \in H : r.index < n)
      BY <1>1, <1>4, <1>6, <1>7, <2>2
  <2>5. ASSUME f.id \notin damaged', NEW j \in Idx(f), \A n \in N : j < n
        PROVE  j \in V \/ Part(f, j) \in H
    <3>1. j =< i
      <4>1. CASE S = {}
        <5>1. i + 1 \notin Idx(f) /\ f \in AllFiles
            BY <1>1, <2>5, <4>1, WaitingAre
        <5> QED
            BY <1>1, <5>1, IdxFacts
      <4>2. CASE S # {}
          BY <1>1, <1>4, <1>7, <2>5, <4>2
      <4> QED
          BY <4>1, <4>2
    <3>2. CASE j = i
        BY <1>1, <2>2, <2>5, <3>2
    <3>3. CASE j < i
        BY <1>1, <1>6, <2>2, <2>5, <3>3
    <3> QED
        BY <1>1, <1>7, <3>1, <3>2, <3>3
  <2>6. f.id \notin saved'
      BY <1>3, <1>6
  <2>7. /\ \A r \in Had(f)' : r.index \notin Waiting(f)'
        /\ \A n \in ToSend(f)' : /\ \A j \in Waiting(f)' : j < n
                                 /\ \A r \in Had(f)' : r.index < n
        /\ f.id \notin damaged' => \A j \in Idx(f) : (\A n \in ToSend(f)' : j < n) =>
               j \in Waiting(f)' \/ Part(f, j) \in Had(f)'
      BY <1>2, <1>3, <2>1, <2>3, <2>4, <2>5, Zenon
  <2> QED
      BY <2>6, <2>7 DEF FlowOf
<1>9. \A g \in files : FlowOf(g)'
  <2> TAKE g \in files
  <2>1. CASE g = f
      BY <1>8, <2>1
  <2>2. CASE g # f
      BY <2>2, GoneSame, SameFlow, FlowIs
  <2> QED
      BY <2>1, <2>2
<1> QED
    BY <1>1, <1>9, GoneNotTwice, FlowNext

\* TakesSets: a chunk less waits, and nothing else of any file.
LEMMA TakesSets ==
    ASSUME Shape, Flow, NEW u, NEW f, NEW i, Takes(u, f, i)
    PROVE  /\ i \in Waiting(f) /\ Waiting(f)' = Waiting(f) \ {i}
           /\ \A g \in files : g # f => Waiting(g)' = Waiting(g)
           /\ \A g \in files : ToSend(g)' = ToSend(g)
           /\ NotTwice'
<1>1. /\ u \in Users /\ f \in files /\ f \in AllFiles /\ f.to = u
      /\ UNCHANGED <<sending, files>>
      /\ \A v \in Users : v # u => queue'[v] = queue[v]
      /\ 1 \in DOMAIN queue[u] /\ queue[u][1] = Chunk(f, i)
    BY TakesParts
<1>2. PICK q, r : q = queue[u] /\ r = queue'[u]
    OBVIOUS
<1>3. /\ 1 \in DOMAIN q /\ q[1].id = f.id /\ q[1].index = i
      /\ \A k \in DOMAIN r : k + 1 \in DOMAIN q /\ k + 1 # 1 /\ k \in Nat /\ r[k] = q[k + 1]
      /\ \A k \in DOMAIN q : k # 1 => k - 1 \in DOMAIN r /\ r[k - 1] = q[k]
  <2>1. Chunk(f, i).id = f.id /\ Chunk(f, i).index = i
      BY ChunkFields
  <2> QED
      BY <1>1, <1>2, <2>1, TakesParts
<1>4. \A k \in DOMAIN q : q[k].id = f.id /\ q[k].index = i => k = 1
    BY <1>1, <1>2, <1>3 DEF Flow, NotTwice
<1>5. \A g \in files : g.to = u =>
        /\ Waiting(g) = {q[k].index : k \in {l \in DOMAIN q : q[l].id = g.id}}
        /\ Waiting(g)' = {r[k].index : k \in {l \in DOMAIN r : r[l].id = g.id}}
    BY <1>2 DEF Waiting
<1>6. i \in Waiting(f)
    BY <1>1, <1>3, <1>5
<1>7. Waiting(f)' = Waiting(f) \ {i}
  <2>1. PICK V, W : /\ V = {r[k].index : k \in {l \in DOMAIN r : r[l].id = f.id}}
                    /\ W = {q[k].index : k \in {l \in DOMAIN q : q[l].id = f.id}}
      OBVIOUS
  <2>2. Waiting(f) = W /\ Waiting(f)' = V
      BY <1>1, <1>5, <2>1
  <2>3. ASSUME NEW x \in V PROVE x \in W \ {i}
    <3>1. PICK k \in DOMAIN r : r[k].id = f.id /\ x = r[k].index
        BY <2>1, <2>3
    <3>2. k + 1 \in DOMAIN q /\ k + 1 # 1 /\ q[k + 1].id = f.id /\ q[k + 1].index = x
        BY <1>3, <3>1
    <3> QED
        BY <1>4, <2>1, <3>2
  <2>4. ASSUME NEW x \in W, x # i PROVE x \in V
    <3>1. PICK k \in DOMAIN q : q[k].id = f.id /\ x = q[k].index
        BY <2>1, <2>4
    <3>2. k # 1
        BY <1>3, <2>4, <3>1
    <3>3. k - 1 \in DOMAIN r /\ r[k - 1].id = f.id /\ r[k - 1].index = x
        BY <1>3, <3>1, <3>2
    <3> QED
        BY <2>1, <3>3
  <2> QED
      BY <2>2, <2>3, <2>4
<1>8. ASSUME NEW g \in files, g # f PROVE Waiting(g)' = Waiting(g)
  <2>1. g.to \in Users /\ g.id # f.id
      BY <1>1, <1>8, WaitingAre DEF Shape, FileIds
  <2>2. CASE g.to # u
      BY <1>1, <2>1, <2>2 DEF Waiting
  <2>3. CASE g.to = u
    <3>1. PICK V, W : /\ V = {r[k].index : k \in {l \in DOMAIN r : r[l].id = g.id}}
                      /\ W = {q[k].index : k \in {l \in DOMAIN q : q[l].id = g.id}}
        OBVIOUS
    <3>2. Waiting(g) = W /\ Waiting(g)' = V
        BY <1>5, <2>3, <3>1
    <3>3. ASSUME NEW x \in V PROVE x \in W
      <4>1. PICK k \in DOMAIN r : r[k].id = g.id /\ x = r[k].index
          BY <3>1, <3>3
      <4>2. k + 1 \in DOMAIN q /\ q[k + 1].id = g.id /\ q[k + 1].index = x
          BY <1>3, <4>1
      <4> QED
          BY <3>1, <4>2
    <3>4. ASSUME NEW x \in W PROVE x \in V
      <4>1. PICK k \in DOMAIN q : q[k].id = g.id /\ x = q[k].index
          BY <3>1, <3>4
      <4>2. k # 1
          BY <1>3, <2>1, <4>1
      <4>3. k - 1 \in DOMAIN r /\ r[k - 1].id = g.id /\ r[k - 1].index = x
          BY <1>3, <4>1, <4>2
      <4> QED
          BY <3>1, <4>3
    <3> QED
        BY <3>2, <3>3, <3>4
  <2> QED
      BY <2>2, <2>3
<1>9. NotTwice'
  <2> SUFFICES ASSUME NEW g \in files, NEW k \in DOMAIN queue'[g.to], NEW l \in DOMAIN queue'[g.to],
                      queue'[g.to][k].id = g.id, queue'[g.to][l].id = g.id,
                      queue'[g.to][k].index = queue'[g.to][l].index
               PROVE  k = l
      BY <1>1 DEF NotTwice
  <2>1. g.to \in Users
      BY WaitingAre
  <2>2. CASE g.to # u
      BY <1>1, <2>1, <2>2 DEF Flow, NotTwice
  <2>3. CASE g.to = u
    <3>1. /\ k + 1 \in DOMAIN q /\ l + 1 \in DOMAIN q /\ q[k + 1].id = g.id /\ q[l + 1].id = g.id
          /\ q[k + 1].index = q[l + 1].index /\ k \in Nat /\ l \in Nat
        BY <1>2, <1>3, <2>3
    <3>2. k + 1 = l + 1
        BY <1>2, <2>3, <3>1 DEF Flow, NotTwice
    <3> QED
        BY <3>1, <3>2
  <2> QED
      BY <2>2, <2>3
<1>10. \A g \in files : ToSend(g)' = ToSend(g)
    BY <1>1 DEF ToSend
<1> QED
    BY <1>6, <1>7, <1>8, <1>9, <1>10

\* EntrySets: pending_files changes for the file of the chunk only.
LEMMA EntrySets ==
    ASSUME Shape, NEW u, NEW f, NEW i, Takes(u, f, i), NEW P, \A p \in P : p.id = f.id,
           pending' = [pending EXCEPT ![u] = Others(u, f) \cup P]
    PROVE  /\ \A g \in files : g # f => Had(g)' = Had(g) /\ (HasEntry(g)' <=> HasEntry(g))
           /\ Had(f)' = UNION {p.received : p \in P} /\ (HasEntry(f)' <=> P # {})
<1>1. u \in Users /\ f \in files /\ f.to = u
    BY TakesParts
<1>2. /\ pending'[u] = Others(u, f) \cup P
      /\ \A v \in Users : v # u => pending'[v] = pending[v]
    BY <1>1 DEF Shape, TransferTypes
<1>3. ASSUME NEW g \in files, g # f PROVE Had(g)' = Had(g) /\ (HasEntry(g)' <=> HasEntry(g))
  <2>1. g.to \in Users /\ g.id # f.id
      BY <1>1, <1>3, WaitingAre DEF Shape, FileIds
  <2>2. {p \in pending'[g.to] : p.id = g.id} = {p \in pending[g.to] : p.id = g.id}
      BY <1>2, <2>1 DEF Others
  <2> QED
      BY <2>2 DEF Had, HasEntry
<1>4. {p \in pending'[f.to] : p.id = f.id} = P
    BY <1>1, <1>2 DEF Others
<1>5. HasEntry(f)' <=> P # {}
    BY <1>4 DEF HasEntry
<1>6. Had(f)' = UNION {p.received : p \in P}
    BY <1>4 DEF Had
<1> QED
    BY <1>3, <1>5, <1>6

\* TakesFlow: what holds of f while a chunk of it is taken.
LEMMA TakesFlow ==
    ASSUME Shape, Flow, NEW u, NEW f, NEW i, Takes(u, f, i)
    PROVE  /\ More(f, i) = Had(f) \cup {Part(f, i)} /\ f.id \notin saved
           /\ \A r \in More(f, i) : r.index \notin Waiting(f)'
           /\ \A n \in ToSend(f)' : /\ \A j \in Waiting(f)' : j < n
                                    /\ \A r \in More(f, i) : r.index < n
           /\ f.id \notin damaged =>
                \A j \in Idx(f) : (\A n \in ToSend(f)' : j < n) =>
                    j \in Waiting(f)' \/ Part(f, j) \in More(f, i)
<1>1. /\ i \in Waiting(f) /\ Waiting(f)' = Waiting(f) \ {i} /\ ToSend(f)' = ToSend(f)
      /\ f \in files
    BY TakesSets, TakesParts
<1>2. FlowOf(f) /\ Part(f, i).index = i
    BY <1>1, FlowIs, ChunkFields
<1>3. PICK H, W, N : H = Had(f) /\ W = Waiting(f) /\ N = ToSend(f)
    OBVIOUS
<1>4. /\ \A r \in H : r.index \notin W
      /\ \A n \in N : (\A j \in W : j < n) /\ (\A r \in H : r.index < n)
      /\ f.id \notin saved
      /\ f.id \notin damaged =>
           \A j \in Idx(f) : (\A n \in N : j < n) => j \in W \/ Part(f, j) \in H
    BY <1>1, <1>2, <1>3, Zenon DEF FlowOf
<1>5. More(f, i) = H \cup {Part(f, i)}
    BY <1>1, <1>3, <1>4 DEF More
<1> QED
    BY <1>1, <1>2, <1>3, <1>4, <1>5

\* CompletesFlow: the last chunk that comes is the last one there is.
LEMMA CompletesFlow ==
    ASSUME Shape, Flow, NEW u, NEW f, NEW i, Completes(u, f, i)
    PROVE  Flow'
<1>1. /\ Takes(u, f, i) /\ More(f, i) = PartsOf(f)
      /\ pending' = [pending EXCEPT ![u] = Others(u, f) \cup {}]
      /\ \/ saved' = saved \cup {f.id} /\ damaged' = damaged
         \/ damaged' = damaged \cup {f.id} /\ saved' = saved
    BY DEF Completes
<1>2. f \in files /\ UNCHANGED files
    BY <1>1, TakesParts
<1>3. /\ \A g \in files : g # f => Had(g)' = Had(g) /\ (HasEntry(g)' <=> HasEntry(g))
      /\ Had(f)' = {} /\ ~HasEntry(f)'
  <2>1. PICK P : P = {}
      OBVIOUS
  <2>2. pending' = [pending EXCEPT ![u] = Others(u, f) \cup P] /\ \A p \in P : p.id = f.id
      BY <1>1, <2>1
  <2>3. /\ \A g \in files : g # f => Had(g)' = Had(g) /\ (HasEntry(g)' <=> HasEntry(g))
        /\ Had(f)' = UNION {p.received : p \in P} /\ (HasEntry(f)' <=> P # {})
      BY <1>1, <2>2, EntrySets
  <2> QED
      BY <2>1, <2>3
<1>4. /\ Waiting(f)' = Waiting(f) \ {i}
      /\ \A g \in files : g # f => Waiting(g)' = Waiting(g)
      /\ \A g \in files : ToSend(g)' = ToSend(g)
      /\ NotTwice'
    BY <1>1, TakesSets
<1>5. /\ \A r \in More(f, i) : r.index \notin Waiting(f)'
      /\ \A n \in ToSend(f)' : /\ \A j \in Waiting(f)' : j < n
                               /\ \A r \in More(f, i) : r.index < n
    BY <1>1, TakesFlow
<1>6. Waiting(f)' = {} /\ ToSend(f)' = {}
  <2>1. Waiting(f)' \subseteq Idx(f) /\ ToSend(f)' \subseteq Idx(f) /\ Idx(f) \subseteq Nat
      BY <1>2, <1>4, WaitingAre
  <2>2. \A j \in Idx(f) : Part(f, j) \in More(f, i) /\ Part(f, j).index = j
      BY <1>1, ChunkFields DEF PartsOf
  <2>3. Waiting(f)' = {}
      BY <1>5, <2>1, <2>2
  <2>4. \A n \in ToSend(f)' : n < n /\ n \in Nat
      BY <1>5, <2>1, <2>2
  <2> QED
      BY <2>3, <2>4
<1>7. FlowOf(f)'
  <2>1. f.id \in damaged' \cup saved'
      BY <1>1
  <2> QED
      BY <1>3, <1>6, <2>1 DEF FlowOf
<1>8. \A g \in files : g # f => FlowOf(g)'
  <2> SUFFICES ASSUME NEW g \in files, g # f PROVE FlowOf(g)'
      OBVIOUS
  <2>1. g.id # f.id
      BY <1>2 DEF Shape, FileIds
  <2>2. Same(g)
      BY <1>1, <1>3, <1>4, <2>1 DEF Same
  <2> QED
      BY <2>2, SameFlow, FlowIs
<1> QED
    BY <1>2, <1>4, <1>7, <1>8, FlowNext

\* CollectsFlow: a chunk that is taken is in the file's entry afterwards.
LEMMA CollectsFlow ==
    ASSUME Shape, Flow, NEW u, NEW f, NEW i, Collects(u, f, i)
    PROVE  Flow'
<1>1. Takes(u, f, i) /\ UNCHANGED <<saved, damaged>>
    BY DEF Collects
<1>2. f \in files /\ UNCHANGED files
    BY <1>1, TakesParts
<1>3. PICK p : /\ p.id = f.id /\ p.received = More(f, i)
               /\ pending' = [pending EXCEPT ![u] = Others(u, f) \cup {p}]
    BY DEF Collects, EntryOf
<1>4. /\ \A g \in files : g # f => Had(g)' = Had(g) /\ (HasEntry(g)' <=> HasEntry(g))
      /\ Had(f)' = More(f, i)
  <2>1. PICK P : P = {p}
      OBVIOUS
  <2>2. pending' = [pending EXCEPT ![u] = Others(u, f) \cup P] /\ \A q \in P : q.id = f.id
      BY <1>3, <2>1
  <2>3. /\ \A g \in files : g # f => Had(g)' = Had(g) /\ (HasEntry(g)' <=> HasEntry(g))
        /\ Had(f)' = UNION {q.received : q \in P}
      BY <1>1, <2>2, EntrySets
  <2>4. UNION {q.received : q \in P} = p.received
      BY <2>1
  <2> QED
      BY <1>3, <2>3, <2>4
<1>5. /\ \A g \in files : g # f => Waiting(g)' = Waiting(g)
      /\ \A g \in files : ToSend(g)' = ToSend(g)
      /\ NotTwice'
    BY <1>1, TakesSets
<1>6. FlowOf(f)'
  <2>1. f.id \notin saved' /\ (f.id \notin damaged' => f.id \notin damaged)
      BY <1>1, TakesFlow
  <2>2. /\ \A r \in Had(f)' : r.index \notin Waiting(f)'
        /\ \A n \in ToSend(f)' : /\ \A j \in Waiting(f)' : j < n
                                 /\ \A r \in Had(f)' : r.index < n
        /\ f.id \notin damaged' => \A j \in Idx(f) : (\A n \in ToSend(f)' : j < n) =>
               j \in Waiting(f)' \/ Part(f, j) \in Had(f)'
      BY <1>1, <1>4, <2>1, TakesFlow
  <2> QED
      BY <2>1, <2>2, Zenon DEF FlowOf
<1>7. \A g \in files : g # f => FlowOf(g)'
  <2> SUFFICES ASSUME NEW g \in files, g # f PROVE FlowOf(g)'
      OBVIOUS
  <2>1. Same(g)
      BY <1>1, <1>4, <1>5 DEF Same
  <2> QED
      BY <2>1, SameFlow, FlowIs
<1> QED
    BY <1>2, <1>5, <1>6, <1>7, FlowNext

\* LosesFlow: a lost chunk is the damage of its file.
LEMMA LosesFlow ==
    ASSUME Shape, Flow, NEW u, NEW f, NEW i, Loses(u, f, i)
    PROVE  Flow'
<1>1. Takes(u, f, i) /\ damaged' = damaged \cup {f.id} /\ UNCHANGED <<pending, saved>>
    BY DEF Loses
<1>2. f \in files /\ UNCHANGED files
    BY <1>1, TakesParts
<1>3. /\ \A g \in files : g # f => Waiting(g)' = Waiting(g)
      /\ \A g \in files : ToSend(g)' = ToSend(g)
      /\ NotTwice'
    BY <1>1, TakesSets
<1>4. Had(f)' = Had(f) /\ \A g \in files : Had(g)' = Had(g) /\ (HasEntry(g)' <=> HasEntry(g))
    BY <1>1 DEF Had, HasEntry
<1>5. FlowOf(f)'
  <2>1. f.id \notin saved' /\ f.id \in damaged'
      BY <1>1, TakesFlow
  <2>2. /\ \A r \in Had(f)' : r.index \notin Waiting(f)'
        /\ \A n \in ToSend(f)' : /\ \A j \in Waiting(f)' : j < n
                                 /\ \A r \in Had(f)' : r.index < n
      BY <1>1, <1>4, TakesFlow
  <2> QED
      BY <2>1, <2>2 DEF FlowOf
<1>6. \A g \in files : g # f => FlowOf(g)'
  <2> SUFFICES ASSUME NEW g \in files, g # f PROVE FlowOf(g)'
      OBVIOUS
  <2>1. Same(g)
      BY <1>1, <1>3, <1>4 DEF Same
  <2> QED
      BY <2>1, SameFlow, FlowIs
<1> QED
    BY <1>2, <1>3, <1>5, <1>6, FlowNext

\* QuitsFlow: of the files that a user who quits was sending or collecting less is
\* known than before, of all others the same.
LEMMA QuitsFlow ==
    ASSUME Shape, Flow, NEW u, Quits(u)
    PROVE  Flow'
<1>1. /\ UNCHANGED <<queue, files, saved>> /\ damaged \subseteq damaged'
      /\ \A w \in sending[u] : w.file.id \in damaged'
      /\ \A p \in pending[u] : p.id \in damaged'
    BY DEF Quits
<1>2. /\ \A v \in Users : v # u => sending'[v] = sending[v] /\ pending'[v] = pending[v]
      /\ \A v \in Users : sending'[v] \subseteq sending[v] /\ pending'[v] \subseteq pending[v]
      /\ sending'[u] = {} /\ pending'[u] = {}
    BY QuitsParts
<1>3. NotTwice'
    BY <1>1 DEF Flow, NotTwice
<1>4. ASSUME NEW g \in files PROVE FlowOf(g)'
  <2>1. g.from \in Users /\ g.to \in Users
      BY WaitingAre
  <2>2. /\ ToSend(g)' \subseteq ToSend(g) /\ Waiting(g)' = Waiting(g)
        /\ Had(g)' \subseteq Had(g) /\ (HasEntry(g)' => HasEntry(g))
      BY <1>1, <1>2, <2>1 DEF ToSend, Waiting, Had, HasEntry
  <2>3. FlowOf(g)
      BY FlowIs
  <2>4. CASE g.id \in damaged'
      BY <1>1, <2>2, <2>3, <2>4 DEF FlowOf
  <2>5. CASE g.id \notin damaged'
    <3>1. ToSend(g)' = ToSend(g)
      <4>1. \A w \in sending[u] : w.file # g
          BY <1>1, <2>5
      <4>2. {x \in sending'[g.from] : x.file = g} = {x \in sending[g.from] : x.file = g}
          BY <1>2, <2>1, <4>1
      <4> QED
          BY <4>2 DEF ToSend
    <3>2. {p \in pending'[g.to] : p.id = g.id} = {p \in pending[g.to] : p.id = g.id}
        BY <1>1, <1>2, <2>1, <2>5
    <3>3. Had(g)' = Had(g) /\ (HasEntry(g)' <=> HasEntry(g))
        BY <3>2 DEF Had, HasEntry
    <3>4. Same(g)
        BY <1>1, <2>2, <3>1, <3>3 DEF Same
    <3> QED
        BY <2>3, <3>4, SameFlow
  <2> QED
      BY <2>4, <2>5
<1> QED
    BY <1>1, <1>3, <1>4, FlowNext

\* FlowStep: every step keeps the flow of chunks.
LEMMA FlowStep == ASSUME Shape, Flow, [Next]_vars PROVE Flow'
<1>1. CASE \E f : NewFile(f)
    BY <1>1, NewFileFlow
<1>2. CASE \E f, i, S : \E reached \in BOOLEAN : ChunkGone(f, i, S, reached)
    BY <1>2, GoneFlow
<1>3. CASE \E u, f, i : Completes(u, f, i) \/ Collects(u, f, i) \/ Loses(u, f, i)
    BY <1>3, CompletesFlow, CollectsFlow, LosesFlow
<1>4. CASE \E u : Quits(u)
    BY <1>4, QuitsFlow
<1>5. CASE UNCHANGED vars
  <2>1. UNCHANGED <<sending, queue, pending, files, damaged, saved>>
      BY <1>5 DEF vars
  <2>2. \A g \in files : Same(g)
      BY <2>1 DEF Same, Waiting, ToSend, Had, HasEntry
  <2>3. NotTwice'
      BY <2>1 DEF Flow, NotTwice
  <2> QED
      BY <2>1, <2>2, <2>3, SameFlow, FlowIs, FlowNext
<1> QED
    BY <1>1, <1>2, <1>3, <1>4, <1>5, StepIs DEF Shape

\* TransferInit: no file, no chunk, nothing downloaded.
LEMMA TransferInit == Init => Shape /\ Flow
<1> SUFFICES ASSUME Init PROVE Shape /\ Flow
    OBVIOUS
<1>1. /\ files = {} /\ saved = {} /\ sending = [u \in Users |-> {}]
      /\ queue = [u \in Users |-> <<>>] /\ pending = [u \in Users |-> {}]
      /\ downloads = [u \in Users |-> [n \in Names |-> {}]]
    BY DEF Init
<1>2. TransferTypes
    BY <1>1, FS_EmptySet DEF TransferTypes
<1>3. FileIds /\ Sends /\ Queues /\ Pendings /\ SavedIsSent
    BY <1>1 DEF FileIds, Sends, Queues, Pendings, SavedIsSent
<1>4. Flow
    BY <1>1 DEF Flow, NotTwice, Once, InOrder, SavedIsOver, NoneMissing
<1> QED
    BY <1>2, <1>3, <1>4 DEF Shape

(***************************************************************************)
(* TransferInvariance: the shape of the state and the flow of chunks       *)
(* together are an invariant, for any users, names, file sizes, chunk size *)
(* and faults.                                                             *)
(***************************************************************************)
THEOREM TransferInvariance == Spec => [](Shape /\ Flow)
<1>1. Init => Shape /\ Flow
    BY TransferInit
<1>2. Shape /\ Flow /\ [Next]_vars => (Shape /\ Flow)'
    BY ShapeStep, FlowStep
<1> QED
    BY <1>1, <1>2, PTL DEF Spec

(***************************************************************************)
(* DownloadsAreSentFiles: whatever transfers interleave, whatever chunks   *)
(* are lost and whichever process ends or write breaks off, the downloads  *)
(* directory holds under a name the bytes of one file sent to this user    *)
(* under that name: all of them, or the first ones of a file whose writing *)
(* broke off (process_file_chunk).                                         *)
(***************************************************************************)
THEOREM DownloadsAreSentFiles == Spec => []SavedIsSent
<1>1. Shape /\ Flow => SavedIsSent
    BY DEF Shape
<1> QED
    BY <1>1, TransferInvariance, PTL

\* WholeArrives: a file with nothing to send and nothing waiting has been received whole,
\* and an entry that is whole does not exist: the file was written.
LEMMA WholeArrives == ASSUME Shape, Flow PROVE ArrivesWhole
<1> SUFFICES ASSUME NEW f \in files, f.size > 0, f.id \notin damaged, ~UnderWay(f)
             PROVE  /\ f.id \in saved
                    /\ ~ \E p \in pending[f.to] : p.id = f.id
    BY DEF ArrivesWhole
<1>1. ToSend(f) = {} /\ Waiting(f) = {}
    BY DEF UnderWay, ToSend, Waiting
<1>2. FlowOf(f)
    BY FlowIs
<1>3. f \in AllFiles /\ f.to \in Users /\ Had(f) \subseteq PartsOf(f)
    BY WaitingAre
<1>4. f.id \in saved
  <2> SUFFICES ASSUME f.id \notin saved PROVE FALSE
      OBVIOUS
  <2>1. \A i \in Idx(f) : Part(f, i) \in Had(f)
      BY <1>1, <1>2 DEF FlowOf
  <2>2. Had(f) = PartsOf(f)
      BY <1>3, <2>1 DEF PartsOf
  <2>3. Part(f, 0) \in Had(f)
      BY <1>3, <2>1, IdxFacts
  <2>4. PICK p \in pending[f.to] : p.id = f.id
      BY <2>3 DEF Had
  <2>5. p.received = PartsOf(f)
      BY <1>3, <2>2, <2>4, HadIs DEF Shape
  <2>6. Cardinality(p.received) # p.total /\ \E g \in files : EntryOf(p, g)
      BY <1>3, <2>4 DEF Shape, Pendings
  <2>7. EntryOf(p, f)
      BY <2>4, <2>6 DEF Shape, FileIds, EntryOf
  <2> QED
      BY <1>3, <2>5, <2>6, <2>7, WholeEntry
<1> QED
    BY <1>2, <1>4 DEF FlowOf, HasEntry

(***************************************************************************)
(* FilesArriveWhole: a file that is not empty, none of whose chunks was    *)
(* refused or lost, whose write did not fail and neither of whose ends     *)
(* quit meanwhile, has been written once nothing of it is to be sent or    *)
(* handled, and has no entry left in pending_files.                        *)
(***************************************************************************)
THEOREM FilesArriveWhole == Spec => []ArrivesWhole
<1>1. Shape /\ Flow => ArrivesWhole
    BY WholeArrives
<1> QED
    BY <1>1, TransferInvariance, PTL
=============================================================================
