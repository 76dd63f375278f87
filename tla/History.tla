------------------------------ MODULE History ------------------------------
(***************************************************************************)
(* What a CLI client remembers and what it finds again after a restart:    *)
(* the tracked messages with their ticks, the chat log and the lists of    *)
(* groups and channels, each with the file it is saved to.                 *)
(*                                                                         *)
(* A command changes memory and then writes files, one after the other;    *)
(* std::fs::write truncates a file before it fills it, and a process may   *)
(* be killed anywhere.  The relay is the user's peers: they fetch and read *)
(* an envelope, each of which answers a receipt that bears the envelope's  *)
(* millisecond.                                                            *)
(***************************************************************************)
EXTENDS Integers, Sequences, SequencesExt

CONSTANTS Peers,       \* users to whom envelopes go
          Rooms,       \* groups and channels
          MaxPosts,    \* bound: envelopes posted
          MaxTime,     \* bound: the last millisecond
          MaxIncoming, \* bound: messages received
          MaxChanges,  \* bound: changes of the room lists, /save and /quit
          MaxFaults    \* bound: crashes and writes that fail

ASSUME HistoryAssumption ==
    {MaxPosts, MaxTime, MaxIncoming, MaxChanges, MaxFaults} \subseteq Nat

VARIABLES up,       \* the process runs
          mem,      \* sent_messages, chat_log, groups and channels
          disk,     \* [Files -> <<>> if missing or cut short, else <<content>>]
          todo,     \* what the command under way still does
          writing,  \* the first file of todo is truncated and not yet filled
          clock,    \* milliseconds
          mail,     \* every envelope posted: [to, ts, stage]
          inbox,    \* receipts queued for the user
          received, changes, faults,
          \* history, read by no action of the program:
          failed,   \* files whose last write failed
          lost,     \* files of which content went down with a process
          done,     \* tracked messages reported to the user as sent
          astray    \* an edit was not of the newest logged message, or a
                    \* crash came within a command

vars == <<up, mem, disk, todo, writing, clock, mail, inbox,
          received, changes, faults, failed, lost, done, astray>>

\* The files; "rooms" is the one of the groups and, likewise, of the channels.
Files == {"history", "rooms", "log"}
All == <<"history", "rooms", "log">>   \* save_all
RoomName == "[room] id"
Levels == <<"Sent", "Delivered", "Read">>
Rank(s) == CHOOSE n \in DOMAIN Levels : Levels[n] = s

Empty(f) == IF f \in {"history", "log"} THEN <<>> ELSE {}

\* A file that is missing or does not parse loads as nothing.
Load(f) == IF disk[f] = <<>> THEN Empty(f) ELSE disk[f][1]

\* The prompt is shown.
AtPrompt == up /\ todo = <<>>

Init ==
    /\ up = FALSE
    /\ mem = [f \in Files |-> Empty(f)]
    /\ disk = [f \in Files |-> <<>>]
    /\ todo = <<>> /\ writing = FALSE
    /\ clock = 0 /\ mail = <<>> /\ inbox = <<>>
    /\ received = 0 /\ changes = 0 /\ faults = 0
    /\ failed = {} /\ lost = {} /\ done = {} /\ astray = FALSE

world == <<clock, mail, inbox, received>>
notes == <<failed, lost, done, astray>>
-----------------------------------------------------------------------------
(***************************************************************************)
(* The process and its files.                                              *)
(***************************************************************************)
\* Variant with a fault, for checking the properties: the log is not loaded.
start_without_log ==
    /\ ~up /\ up' = TRUE
    /\ mem' = [f \in Files |-> IF f = "log" THEN Empty(f) ELSE Load(f)]
    /\ UNCHANGED <<disk, todo, writing, changes, faults, world, notes>>

\* TinTinClient::new: what was saved last is loaded.
start ==
    /\ ~up /\ up' = TRUE
    /\ mem' = [f \in Files |-> Load(f)]
    /\ UNCHANGED <<disk, todo, writing, changes, faults, world, notes>>

\* The process is killed.  A file that was truncated stays so, and what was
\* fetched from the relay and not yet looked at is gone.
crash ==
    /\ up /\ faults < MaxFaults
    /\ up' = FALSE /\ todo' = <<>> /\ writing' = FALSE
    /\ mem' = [f \in Files |-> Empty(f)]
    /\ \E batch \in 0..Len(inbox) :
           inbox' = SubSeq(inbox, batch + 1, Len(inbox))
    /\ faults' = faults + 1
    /\ lost' = lost \cup failed \cup (IF writing THEN {Head(todo)} ELSE {})
    /\ failed' = {} /\ astray' = (astray \/ todo # <<>>)
    /\ UNCHANGED <<disk, clock, mail, received, changes, done>>

Saving(f) == up /\ todo # <<>> /\ Head(todo) = f

\* std::fs::write opens the file and truncates it...
truncate(f) ==
    /\ Saving(f) /\ ~writing
    /\ writing' = TRUE
    /\ disk' = [disk EXCEPT ![f] = <<>>]
    /\ UNCHANGED <<up, mem, todo, changes, faults, world, notes>>

\* ...and fills it.
fill(f) ==
    /\ Saving(f) /\ writing
    /\ writing' = FALSE /\ todo' = Tail(todo)
    /\ disk' = [disk EXCEPT ![f] = <<mem[f]>>]
    /\ failed' = failed \ {f}
    /\ UNCHANGED <<up, mem, changes, faults, world, lost, done, astray>>

\* A write that fails, before or after the file is truncated, is reported at
\* most: the command goes on.
write_fails(f) ==
    /\ Saving(f) /\ faults < MaxFaults
    /\ writing' = FALSE /\ todo' = Tail(todo)
    /\ failed' = failed \cup {f} /\ faults' = faults + 1
    /\ UNCHANGED <<up, mem, disk, changes, world, lost, done, astray>>

\* /save, and /quit, after which the process ends.
save_all(quit) ==
    /\ AtPrompt /\ changes < MaxChanges /\ changes' = changes + 1
    /\ todo' = IF quit THEN Append(All, "exit") ELSE All
    /\ UNCHANGED <<up, mem, disk, writing, faults, world, notes>>

exit ==
    /\ Saving("exit")
    /\ up' = FALSE /\ todo' = <<>>
    /\ mem' = [f \in Files |-> Empty(f)]
    /\ lost' = lost \cup failed /\ failed' = {}
    /\ UNCHANGED <<disk, writing, changes, faults, world, done, astray>>

\* A list of groups or channels changes (create, join, leave, sync) and is
\* saved.
change_rooms(r) ==
    /\ AtPrompt /\ changes < MaxChanges /\ changes' = changes + 1
    /\ mem' = [mem EXCEPT !.rooms = IF r \in @ THEN @ \ {r} ELSE @ \cup {r}]
    /\ todo' = <<"rooms">>
    /\ UNCHANGED <<up, disk, writing, faults, world, notes>>
-----------------------------------------------------------------------------
(***************************************************************************)
(* Messages.                                                               *)
(***************************************************************************)
\* An envelope to p, stamped with the present millisecond.
Post(p, text) ==
    mail' = Append(mail, [to |-> p, ts |-> clock, stage |-> 1, text |-> text])

Track(to, ts) ==
    [env |-> Len(mail) + 1, to |-> to, ts |-> ts, status |-> "Sent",
     edited |-> FALSE]

Log(n) == [env |-> n, edited |-> FALSE]

\* /msg: tracked under the envelope's own time, saved, then logged.
send_message(p) ==
    /\ AtPrompt /\ Len(mail) < MaxPosts
    /\ Post(p, TRUE)
    /\ mem' = [mem EXCEPT !.history = Append(@, Track(p, clock))]
    /\ todo' = <<"history", "record", "log", "sent">>
    /\ UNCHANGED <<up, disk, writing, clock, inbox, received, changes, faults,
                   notes>>

\* /group send and /channel send: a copy to p (one of the members), tracked
\* under the room's name at the time the loop is over.
send_group_message(p, later) ==
    /\ AtPrompt /\ Len(mail) < MaxPosts
    /\ Post(p, TRUE) /\ clock' = later
    /\ mem' = [mem EXCEPT !.history = Append(@, Track(RoomName, later))]
    /\ todo' = <<"history", "record", "log", "sent">>
    /\ UNCHANGED <<up, disk, writing, inbox, received, changes, faults, notes>>

\* /sendfile and /voice: tracked at the time the last chunk (the one envelope
\* modelled here) was answered, and not logged.
send_file(p, later) ==
    /\ AtPrompt /\ Len(mail) < MaxPosts
    /\ Post(p, FALSE) /\ clock' = later
    /\ mem' = [mem EXCEPT !.history = Append(@, Track(p, later))]
    /\ todo' = <<"history", "sent">>
    /\ UNCHANGED <<up, disk, writing, inbox, received, changes, faults, notes>>

\* record_message of the message just tracked.
record_sent ==
    /\ Saving("record")
    /\ mem' = [mem EXCEPT !.log = Append(@, Log(Last(mem.history).env))]
    /\ todo' = Tail(todo)
    /\ UNCHANGED <<up, disk, writing, changes, faults, world, notes>>

\* The user is told: "Sent to ...".
report_sent ==
    /\ Saving("sent")
    /\ todo' = Tail(todo)
    /\ done' = done \cup {Last(mem.history).env}
    /\ UNCHANGED <<up, mem, disk, writing, changes, faults, world, failed, lost,
                   astray>>

\* Logged outgoing entries, by position.
Outgoing(log) == {i \in DOMAIN log : log[i].env # 0}

\* Variant with a fault, for checking the properties: the search for the
\* entry starts at the beginning.
MarkEdited_first(log) ==
    IF Outgoing(log) = {} THEN log
    ELSE [log EXCEPT ![Min(Outgoing(log))].edited = TRUE]

\* The log after an edit: its newest outgoing entry is marked, whichever
\* message was edited.
MarkEdited(log) ==
    IF Outgoing(log) = {} THEN log
    ELSE [log EXCEPT ![Max(Outgoing(log))].edited = TRUE]

\* /edit: the new text goes out like a message, where there is a session, but
\* is not tracked as one.
edit_message(i) ==
    /\ AtPrompt /\ i \in DOMAIN mem.history
    /\ \/ UNCHANGED mail
       \/ /\ Len(mail) < MaxPosts
          /\ \E p \in Peers : mem.history[i].to \in {p, RoomName} /\ Post(p, FALSE)
    /\ mem' = [mem EXCEPT !.history[i].edited = TRUE, !.log = MarkEdited(@)]
    /\ todo' = <<"history", "log">>
    /\ astray' = (astray \/ LET out == Outgoing(mem.log)
                            IN \/ out = {}
                               \/ mem.log[Max(out)].env # mem.history[i].env)
    /\ changes < MaxChanges /\ changes' = changes + 1
    /\ UNCHANGED <<up, disk, writing, clock, inbox, received, faults, failed,
                   lost, done>>

\* A message is received: it is logged.
receive_message ==
    /\ AtPrompt /\ received < MaxIncoming /\ received' = received + 1
    /\ mem' = [mem EXCEPT !.log = Append(@, Log(0))]
    /\ todo' = <<"log">>
    /\ UNCHANGED <<up, disk, writing, clock, mail, inbox, changes, faults, notes>>

\* Variant with a fault, for checking the properties: the time is not looked at.
Matches_any(r) == {i \in DOMAIN mem.history : mem.history[i].to = r.from}

\* The tracked messages a receipt is about, by its sender and millisecond.
Matches(r) == {i \in DOMAIN mem.history :
                  mem.history[i].to = r.from /\ mem.history[i].ts = r.ts}

\* Variant with a fault, for checking the properties: the change is not saved.
receive_receipt_unsaved ==
    /\ AtPrompt /\ inbox # <<>>
    /\ inbox' = Tail(inbox)
    /\ LET r == Head(inbox)
       IN IF Matches(r) = {} THEN UNCHANGED mem
          ELSE mem' = [mem EXCEPT !.history[Min(Matches(r))].status = r.level]
    /\ UNCHANGED <<up, disk, todo, writing, clock, mail, received, changes,
                   faults, notes>>

\* A receipt is received: the first match takes its level, whatever it had.
receive_receipt ==
    /\ AtPrompt /\ inbox # <<>>
    /\ inbox' = Tail(inbox)
    /\ LET r == Head(inbox)
       IN IF Matches(r) = {} THEN UNCHANGED <<mem, todo>>
          ELSE /\ mem' = [mem EXCEPT !.history[Min(Matches(r))].status = r.level]
               /\ todo' = <<"history">>
    /\ UNCHANGED <<up, disk, writing, clock, mail, received, changes, faults,
                   notes>>

-----------------------------------------------------------------------------
(***************************************************************************)
(* The world: time, and the peers (see Relay and Messaging).               *)
(***************************************************************************)
tick ==
    /\ clock < MaxTime /\ clock' = clock + 1
    /\ UNCHANGED <<up, mem, disk, todo, writing, mail, inbox, received, changes,
                   faults, notes>>

Receipt(n, level) ==
    [from |-> mail[n].to, ts |-> mail[n].ts, level |-> Levels[level]]

\* The k-th of a set of numbers, the smallest first.
Nth(S, k) == CHOOSE n \in S : Cardinality({m \in S : m =< n}) = k

\* Peer p fetches its queue: the server answers a Delivery receipt for each.
peer_fetches(p) ==
    LET batch == {n \in DOMAIN mail : mail[n].to = p /\ mail[n].stage = 1}
    IN /\ batch # {}
       /\ mail' = [n \in DOMAIN mail |->
                     IF n \in batch THEN [mail[n] EXCEPT !.stage = 2] ELSE mail[n]]
       /\ inbox' = inbox \o [k \in 1..Cardinality(batch) |->
                               Receipt(Nth(batch, k), 2)]
       /\ UNCHANGED <<up, mem, disk, todo, writing, clock, received, changes,
                      faults, notes>>

\* A peer has decrypted an envelope and answers a Read receipt.
peer_reads(n) ==
    /\ n \in DOMAIN mail /\ mail[n].stage = 2
    /\ mail' = [mail EXCEPT ![n].stage = 3]
    /\ inbox' = Append(inbox, Receipt(n, 3))
    /\ UNCHANGED <<up, mem, disk, todo, writing, clock, received, changes, faults,
                   notes>>

Process ==
    \/ start \/ crash \/ exit
    \/ \E quit \in BOOLEAN : save_all(quit)
    \/ \E f \in Files : truncate(f) \/ fill(f) \/ write_fails(f)
    \/ \E r \in Rooms : change_rooms(r)

Messages ==
    \/ \E p \in Peers :
        \/ send_message(p)
        \/ \E later \in clock..MaxTime :
            send_group_message(p, later) \/ send_file(p, later)
    \/ record_sent \/ report_sent
    \/ \E i \in DOMAIN mem.history : edit_message(i)
    \/ receive_message \/ receive_receipt

\* The world moves between commands: the writes read nothing of it, so that
\* a step of it within a command could as well come before or after.
World ==
    /\ todo = <<>>
    /\ \/ tick
       \/ \E p \in Peers : peer_fetches(p)
       \/ \E n \in DOMAIN mail : peer_reads(n)

Next == Process \/ Messages \/ World

Spec == Init /\ [][Next]_vars
-----------------------------------------------------------------------------
Tracked == [env : 1..MaxPosts, to : Peers \cup {RoomName}, ts : 0..MaxTime,
            status : Range(Levels), edited : BOOLEAN]
Logged == [env : 0..MaxPosts, edited : BOOLEAN]

IsContent(f, v) ==
    CASE f = "history" -> v \in Seq(Tracked)
      [] f = "log"     -> v \in Seq(Logged)
      [] OTHER         -> v \subseteq Rooms

TypeOK ==
    /\ up \in BOOLEAN /\ writing \in BOOLEAN /\ astray \in BOOLEAN
    /\ \A f \in Files :
        /\ IsContent(f, mem[f])
        /\ disk[f] # <<>> => Len(disk[f]) = 1 /\ IsContent(f, disk[f][1])
    /\ todo \in Seq(Files \cup {"record", "sent", "exit"})
    /\ clock \in 0..MaxTime /\ received \in 0..MaxIncoming
    /\ changes \in 0..MaxChanges /\ faults \in 0..MaxFaults
    /\ mail \in Seq([to : Peers, ts : 0..MaxTime, stage : 1..3, text : BOOLEAN])
    /\ Len(mail) =< MaxPosts
    /\ inbox \in Seq([from : Peers, ts : 0..MaxTime, level : Range(Levels)])
    /\ failed \subseteq Files /\ lost \subseteq Files /\ done \subseteq 1..MaxPosts

(***************************************************************************)
(* RestartChangesNothing: whenever the prompt is shown, a process that is  *)
(* killed and started again remembers exactly what this one does, except   *)
(* for files whose last write failed: every command saves all it changed.  *)
(***************************************************************************)
RestartChangesNothing ==
    AtPrompt => \A f \in Files \ failed : Load(f) = mem[f]

(***************************************************************************)
(* SentIsRemembered: a message reported to the user as sent is known to      *)
(* every later process, tracked and (if it is a text) in the log that      *)
(* /search reads, once, unless a crash within a write or a failed write    *)
(* cost the file.                                                          *)
(***************************************************************************)
SentIsRemembered ==
    up /\ "history" \notin lost =>
        \A n \in done :
            /\ \E i \in DOMAIN mem.history : mem.history[i].env = n
            /\ mail[n].text /\ "log" \notin lost =>
                   \E i \in DOMAIN mem.log :
                       /\ mem.log[i].env = n
                       /\ \A j \in DOMAIN mem.log : mem.log[j].env = n => j = i

\* Another envelope to the same peer bears the millisecond of entry m.
Shared(m) == \E n \in DOMAIN mail :
                 n # m.env /\ mail[n].to = m.to /\ mail[n].ts = m.ts

(***************************************************************************)
(* TicksAreOwn: a tracked message that shows as Delivered or Read has been *)
(* fetched or read by its recipient itself, provided no other envelope to  *)
(* the recipient (a message, a chunk of a file, an edit, a copy for a      *)
(* group) bears the same millisecond.                                      *)
(***************************************************************************)
TicksAreOwn ==
    \A i \in DOMAIN mem.history :
        LET m == mem.history[i]
        IN ~Shared(m) => Rank(m.status) =< mail[m.env].stage

(***************************************************************************)
(* EditMarksAgree: as long as only the newest logged message is edited,    *)
(* and no crash comes within a command, the log and the tracked messages   *)
(* agree at the prompt on which messages were edited, restarts included.   *)
(***************************************************************************)
EditMarksAgree ==
    AtPrompt /\ ~astray /\ lost \cup failed = {} =>
        \A i \in DOMAIN mem.history, j \in DOMAIN mem.log :
            mem.history[i].env = mem.log[j].env =>
                mem.history[i].edited = mem.log[j].edited
=============================================================================
