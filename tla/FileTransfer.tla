---------------------------- MODULE FileTransfer ----------------------------
(***************************************************************************)
(* Files and voice messages of the CLI client: send_file_inner and         *)
(* process_file_chunk of tintin-cli/src/main.rs.                           *)
(*                                                                         *)
(* A file is cut into chunks, each an encrypted message of its own with    *)
(* one round trip to the relay; the transfers of different senders         *)
(* interleave chunk by chunk.  The receiver collects chunks by file_id.    *)
(* Byte k of file f is <<f.id, k>>, so a mixed or cut file is never equal  *)
(* to a sent one.  file_id, a time in nanoseconds, is taken to be unique;  *)
(* file names are not.  A file to oneself is left out: receive_messages    *)
(* takes all but its first chunk for text.                                 *)
(***************************************************************************)
EXTENDS Integers, SequencesExt

CONSTANTS Users,
          Names,        \* file names
          CHUNK_SIZE,   \* bytes in a chunk (262144 in the code)
          MaxSize,      \* bound: bytes in a file
          MaxFiles,     \* bound: files sent
          MaxFaults     \* bound: refused or lost chunks, connections, writes,
                        \*        ends of processes

ASSUME FileAssumption ==
    /\ CHUNK_SIZE \in Nat \ {0}
    /\ {MaxSize, MaxFiles, MaxFaults} \subseteq Nat

VARIABLES sending,     \* [Users -> {} or {[file, next]}]: send_file under way
          queue,       \* [Users -> chunks waiting]
          pending,     \* [Users -> pending_files: [id, name, total, received]]
          downloads,   \* [Users -> [Names -> {} or {contents}]]
          faults,
          \* history, read by no action of the program:
          files,       \* every file whose sending began
          damaged,     \* ids of files that lost a chunk or could not be written
          saved,       \* ids of files written to downloads
          torn         \* ids of files whose writing broke off

vars == <<sending, queue, pending, downloads, faults, files, damaged, saved,
          torn>>

Bytes(f) == [k \in 1..f.size |-> <<f.id, k>>]

total_chunks(size) ==
    IF size = 0 THEN 1 ELSE (size + CHUNK_SIZE - 1) \div CHUNK_SIZE

\* file_data.chunks(CHUNK_SIZE): chunk i, from 0; none of an empty file.
chunk_data(f, i) ==
    SubSeq(Bytes(f), i * CHUNK_SIZE + 1, Min({(i + 1) * CHUNK_SIZE, f.size}))

Chunk(f, i) ==
    [id |-> f.id, name |-> f.name, total |-> total_chunks(f.size), index |-> i,
     data |-> chunk_data(f, i)]

\* The loop of send_file_inner goes on with chunk i, or is done.
Loop(f, i) == IF i * CHUNK_SIZE < f.size THEN {[file |-> f, next |-> i]} ELSE {}

Init ==
    /\ sending = [u \in Users |-> {}]
    /\ queue = [u \in Users |-> <<>>]
    /\ pending = [u \in Users |-> {}]
    /\ downloads = [u \in Users |-> [n \in Names |-> {}]]
    /\ faults = 0
    /\ files = {} /\ damaged = {} /\ saved = {} /\ torn = {}
-----------------------------------------------------------------------------
\* /sendfile and /voice, up to the loop.
send_file(u, v, name, size) ==
    /\ sending[u] = {} /\ Cardinality(files) < MaxFiles
    /\ LET f == [id |-> Cardinality(files) + 1, from |-> u, to |-> v,
                 name |-> name, size |-> size]
       IN /\ files' = files \cup {f}
          /\ sending' = [sending EXCEPT ![u] = Loop(f, 0)]
    /\ UNCHANGED <<queue, pending, downloads, faults, damaged, saved, torn>>

\* One turn of the loop: a refused chunk is reported and not sent again.
send_chunk(u, ok) ==
    \E w \in sending[u] :
        /\ ok \/ faults < MaxFaults
        /\ faults' = IF ok THEN faults ELSE faults + 1
        /\ queue' = IF ok THEN [queue EXCEPT ![w.file.to] =
                                  Append(@, Chunk(w.file, w.next))]
                    ELSE queue
        /\ damaged' = IF ok THEN damaged ELSE damaged \cup {w.file.id}
        /\ sending' = [sending EXCEPT ![u] = Loop(w.file, w.next + 1)]
        /\ UNCHANGED <<pending, downloads, files, saved, torn>>

\* A broken connection, or no bundle for a new session: `?' leaves the loop;
\* the chunk may have reached the relay before.
abandon_send(u, reached) ==
    \E w \in sending[u] :
        /\ faults < MaxFaults /\ faults' = faults + 1
        /\ queue' = IF reached THEN [queue EXCEPT ![w.file.to] =
                                       Append(@, Chunk(w.file, w.next))]
                    ELSE queue
        /\ damaged' = IF reached /\ Loop(w.file, w.next + 1) = {} THEN damaged
                      ELSE damaged \cup {w.file.id}
        /\ sending' = [sending EXCEPT ![u] = {}]
        /\ UNCHANGED <<pending, downloads, files, saved, torn>>
-----------------------------------------------------------------------------
\* Variant with a fault, for checking the properties: pending files are kept
\* by name.
pending_entry_by_name(u, c) ==
    LET old == {p \in pending[u] : p.name = c.name}
    IN IF old = {} THEN [id |-> c.id, name |-> c.name, total |-> c.total,
                         received |-> {}]
       ELSE CHOOSE p \in old : TRUE

\* pending_files.entry(file_id).or_insert_with(...).
pending_entry(u, c) ==
    LET old == {p \in pending[u] : p.id = c.id}
    IN IF old = {} THEN [id |-> c.id, name |-> c.name, total |-> c.total,
                         received |-> {}]
       ELSE CHOOSE p \in old : TRUE

\* received_chunks.insert(chunk_index, chunk_data).
insert_chunk(p, c) ==
    [p EXCEPT !.received = {r \in @ : r.index # c.index}
                              \cup {[index |-> c.index, data |-> c.data]}]

\* Reassembly in the order of the indices; a missing one adds nothing.
assemble(p) ==
    FlattenSeq([i \in 1..p.total |->
        LET here == {r \in p.received : r.index = i - 1}
        IN IF here = {} THEN <<>> ELSE (CHOOSE r \in here : TRUE).data])

\* fs::write to the downloads directory opens the name, which empties it, and
\* fills it.  If that cannot be done the name keeps what it had; if it breaks
\* off, with an error or with the process, the name keeps the bytes that came
\* through, and nothing removes them.
write(u, p, written) ==
    IF written
    THEN /\ downloads' = [downloads EXCEPT ![u][p.name] = {assemble(p)}]
         /\ saved' = saved \cup {p.id}
         /\ UNCHANGED <<faults, damaged, torn>>
    ELSE /\ faults < MaxFaults /\ faults' = faults + 1
         /\ damaged' = damaged \cup {p.id}
         /\ \/ UNCHANGED <<downloads, torn>>
            \/ /\ \E k \in 0..(Len(assemble(p)) - 1) :
                    downloads' = [downloads EXCEPT ![u][p.name] =
                                    {SubSeq(assemble(p), 1, k)}]
               /\ torn' = torn \cup {p.id}
         /\ UNCHANGED saved

\* Variant with a fault, for checking the properties: a complete file stays
\* in pending_files.
process_file_chunk_keep(u, written) ==
    /\ queue[u] # <<>>
    /\ LET c == Head(queue[u])
           p == insert_chunk(pending_entry(u, c), c)
           others == {q \in pending[u] : q.id # p.id}
       IN /\ pending' = [pending EXCEPT ![u] = others \cup {p}]
          /\ IF Cardinality(p.received) = p.total
             THEN write(u, p, written)
             ELSE written /\ UNCHANGED <<downloads, saved, faults, damaged, torn>>
    /\ queue' = [queue EXCEPT ![u] = Tail(@)]
    /\ UNCHANGED <<sending, files>>

\* process_file_chunk: the chunk is kept; when as many as announced are there
\* the file is written under its name and forgotten, written or not.
process_file_chunk(u, written) ==
    /\ queue[u] # <<>>
    /\ LET c == Head(queue[u])
           p == insert_chunk(pending_entry(u, c), c)
           others == {q \in pending[u] : q.id # p.id}
       IN IF Cardinality(p.received) = p.total
          THEN write(u, p, written) /\ pending' = [pending EXCEPT ![u] = others]
          ELSE /\ written
               /\ pending' = [pending EXCEPT ![u] = others \cup {p}]
               /\ UNCHANGED <<downloads, saved, faults, damaged, torn>>
    /\ queue' = [queue EXCEPT ![u] = Tail(@)]
    /\ UNCHANGED <<sending, files>>

\* A chunk that does not decrypt, or was in a response that was lost.
lose_chunk(u) ==
    /\ queue[u] # <<>>
    /\ faults < MaxFaults /\ faults' = faults + 1
    /\ damaged' = damaged \cup {Head(queue[u]).id}
    /\ queue' = [queue EXCEPT ![u] = Tail(@)]
    /\ UNCHANGED <<sending, pending, downloads, files, saved, torn>>

\* The process ends.  What it was sending and had collected was in memory
\* only; of what it had fetched, see lose_chunk.
quit(u) ==
    /\ faults < MaxFaults /\ faults' = faults + 1
    /\ sending' = [sending EXCEPT ![u] = {}]
    /\ pending' = [pending EXCEPT ![u] = {}]
    /\ damaged' = damaged \cup {w.file.id : w \in sending[u]}
                          \cup {p.id : p \in pending[u]}
    /\ UNCHANGED <<queue, downloads, files, saved, torn>>

Next ==
    \E u \in Users :
        \/ \E v \in Users \ {u}, name \in Names, size \in 0..MaxSize :
            send_file(u, v, name, size)
        \/ \E ok \in BOOLEAN :
            send_chunk(u, ok) \/ abandon_send(u, ok) \/ process_file_chunk(u, ok)
        \/ lose_chunk(u) \/ quit(u)

Spec == Init /\ [][Next]_vars
-----------------------------------------------------------------------------
Files == [id : 1..MaxFiles, from : Users, to : Users, name : Names,
          size : 0..MaxSize]
Data == Seq((1..MaxFiles) \X (1..MaxSize))
Pending == [id : 1..MaxFiles, name : Names, total : Nat,
            received : SUBSET [index : Nat, data : Data]]

TypeOK ==
    /\ files \subseteq Files
    /\ \A u \in Users :
        /\ sending[u] \subseteq [file : Files, next : Nat]
        /\ \A i \in DOMAIN queue[u] : queue[u][i] \in
             [id : 1..MaxFiles, name : Names, total : Nat \ {0}, index : Nat,
              data : Data \ {<<>>}]
        /\ \A p \in pending[u] : p.received \subseteq [index : Nat, data : Data]
        /\ \A n \in Names : downloads[u][n] \subseteq Data
    /\ faults \in 0..MaxFaults
    /\ damaged \cup saved \cup torn \subseteq 1..MaxFiles

(***************************************************************************)
(* SavedIsSent: what the downloads directory holds under a name is, byte   *)
(* for byte, one file sent to this user under that name, or the beginning  *)
(* of one whose writing broke off.  It never lacks a chunk in the middle   *)
(* and never mixes two files, although transfers of equally named files    *)
(* interleave, overwrite each other, and chunks get lost                   *)
(* (process_file_chunk).                                                   *)
(***************************************************************************)
Begins(content, f) == \E k \in 0..(f.size - 1) : content = SubSeq(Bytes(f), 1, k)

SavedIsSent ==
    \A u \in Users, n \in Names : \A content \in downloads[u][n] :
        \E f \in files : /\ f.to = u /\ f.name = n
                         /\ \/ f.id \in saved /\ content = Bytes(f)
                            \/ f.id \in torn /\ Begins(content, f)

\* Chunks of f are still to be sent or handled.
UnderWay(f) ==
    \/ \E w \in sending[f.from] : w.file = f
    \/ \E i \in DOMAIN queue[f.to] : queue[f.to][i].id = f.id

(***************************************************************************)
(* ArrivesWhole: a file that is not empty, none of whose chunks was        *)
(* refused or lost, whose write did not fail and neither of whose ends     *)
(* quit meanwhile, is written when its last chunk has been handled, and    *)
(* leaves no entry behind in pending_files.  (An empty file is announced   *)
(* with one chunk and sends none, so it never arrives.)                    *)
(***************************************************************************)
ArrivesWhole ==
    \A f \in files : f.size > 0 /\ f.id \notin damaged /\ ~UnderWay(f) =>
        /\ f.id \in saved
        /\ ~ \E p \in pending[f.to] : p.id = f.id
=============================================================================
