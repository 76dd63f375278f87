------------------------------- MODULE Groups -------------------------------
(***************************************************************************)
(* Groups and channels: the tables of store.rs, the server's handlers, the *)
(* client's cached lists and the fan-out of a group or channel message.    *)
(*                                                                         *)
(* A room is a group or a channel; both have the same tables, commands and *)
(* send loop.  A command is one round trip and ends in one of the outcomes *)
(*   "ok"       done, and the client reads the answer;                     *)
(*   "refused"  the server answers an error and has done nothing;          *)
(*   "lost"     done, but the answer does not reach the client.            *)
(* A client runs one command at a time; `task' holds one that takes more   *)
(* than one round trip.                                                    *)
(***************************************************************************)
EXTENDS Integers, FiniteSets

CONSTANTS Users,
          MaxRooms,    \* bound: rooms created
          MaxSends,    \* bound: messages sent to rooms
          MaxFaults    \* bound: outcomes other than "ok"

ASSUME GroupsAssumption == {MaxRooms, MaxSends, MaxFaults} \subseteq Nat

VARIABLES rooms,     \* tables groups and channels: [id, kind]
          members,   \* tables group_members, channel_subscribers: <<room, user>>
          local,     \* [Users -> ids in the client's groups and channels]
          task,      \* [Users -> {} or {the command under way}]
          sends, faults,
          \* history, read by no action of the program:
          stale,     \* <<u, kind>>: u's client missed a change of its own
          reach      \* [Users -> the send under way: who was a member all the
                     \* time (stayed), who was sent a copy, who was refused]

vars == <<rooms, members, local, task, sends, faults, stale, reach>>

Kinds == {"group", "channel"}
Outcomes == {"ok", "refused", "lost"}

NotSending == [stayed |-> {}, copies |-> {}, refused |-> {}]

RoomsOf(u) == {m[1] : m \in {x \in members : x[2] = u}}
list_group_members(g) == {m[2] : m \in {x \in members : x[1] = g}}
list_channel_subscribers(c) == {m[2] : m \in {x \in members : x[1] = c}}
OfKind(kind) == {r.id : r \in {x \in rooms : x.kind = kind}}

Init ==
    /\ rooms = {} /\ members = {}
    /\ local = [u \in Users |-> {}]
    /\ task = [u \in Users |-> {}]
    /\ sends = 0 /\ faults = 0
    /\ stale = {} /\ reach = [u \in Users |-> NotSending]

\* Faults are counted.
Fault(yes) ==
    /\ ~yes \/ faults < MaxFaults
    /\ faults' = IF yes THEN faults + 1 ELSE faults

\* A user's prompt is free, and the command ends in outcome out.
Command(u, out) == task[u] = {} /\ Fault(out # "ok")

\* A client that does not read the answer misses the change.
Missed(u, kind, out) ==
    stale' = IF out = "lost" THEN stale \cup {<<u, kind>>} ELSE stale
-----------------------------------------------------------------------------
(***************************************************************************)
(* The directory.                                                          *)
(***************************************************************************)
\* store.rs makes ids out of the time or lets SQLite count: they are new.
NewRoom(kind) == [id |-> Cardinality(rooms) + 1, kind |-> kind]

\* store.rs: INSERT OR IGNORE into, and DELETE from, the two membership tables.
add_group_member(g, u) == members \cup {<<g, u>>}
remove_group_member(g, u) == members \ {<<g, u>>}
subscribe_channel(c, u) == members \cup {<<c, u>>}
unsubscribe_channel(c, u) == members \ {<<c, u>>}

\* The server's part of a command.  A group or channel that does not exist is
\* refused (join, subscribe) or makes no difference (leave, unsubscribe).
handle_join_group(u, g, out) ==
    members' = IF out = "refused" THEN members ELSE add_group_member(g.id, u)

handle_leave_group(u, g, out) ==
    members' = IF out = "refused" THEN members ELSE remove_group_member(g.id, u)

handle_subscribe_channel(u, c, out) ==
    members' = IF out = "refused" THEN members ELSE subscribe_channel(c.id, u)

handle_unsubscribe_channel(u, c, out) ==
    members' = IF out = "refused" THEN members ELSE unsubscribe_channel(c.id, u)

\* The group and its admin, two statements under one lock.  A failure between
\* them ("partial") answers an error and leaves a group without members.
handle_create_group(u, g, out) ==
    /\ rooms' = IF out = "refused" THEN rooms ELSE rooms \cup {g}
    /\ members' = IF out \in {"ok", "lost"} THEN add_group_member(g.id, u)
                  ELSE members

\* The client caches a room, or forgets it, when it has the answer.
Cache(u, r, out) ==
    local' = IF out = "ok" THEN [local EXCEPT ![u] = @ \cup {r.id}] ELSE local
Uncache(u, r, out) ==
    local' = IF out = "ok" THEN [local EXCEPT ![u] = @ \ {r.id}] ELSE local

\* /group create
create_group(u, out) ==
    /\ Cardinality(rooms) < MaxRooms
    /\ Command(u, out)
    /\ LET g == NewRoom("group")
       IN handle_create_group(u, g, out) /\ Cache(u, g, out)
    /\ Missed(u, "group", out)
    /\ UNCHANGED <<task, sends, reach>>

\* /channel create, 1: the channel; then the lock is released.
create_channel(u) ==
    /\ task[u] = {} /\ Cardinality(rooms) < MaxRooms
    /\ LET c == NewRoom("channel")
       IN /\ rooms' = rooms \cup {c}
          /\ task' = [task EXCEPT ![u] = {[do |-> "subscribe", room |-> c]}]
    /\ UNCHANGED <<members, local, sends, faults, stale, reach>>

\* /channel create, 2: the owner is subscribed; a failure is ignored and the
\* client told "ok" all the same.
subscribe_owner(u, out) ==
    \E t \in task[u] :
        /\ t.do = "subscribe"
        /\ Fault(out # "ok")
        /\ handle_subscribe_channel(u, t.room, out)
        /\ Cache(u, t.room, IF out = "refused" THEN "ok" ELSE out)
        /\ stale' = IF out = "ok" THEN stale
                    ELSE stale \cup {<<u, "channel">>}
        /\ task' = [task EXCEPT ![u] = {}]
        /\ UNCHANGED <<rooms, sends, reach>>

\* /group join; with the answer the client goes on to my_groups.
join_group(u, g, out) ==
    /\ g \in rooms /\ g.kind = "group" /\ Command(u, out)
    /\ handle_join_group(u, g, out)
    /\ task' = IF out = "ok" THEN [task EXCEPT ![u] = {[do |-> "sync"]}] ELSE task
    /\ Missed(u, "group", out)
    /\ UNCHANGED <<rooms, local, sends, reach>>

\* /channel sub
channel_sub(u, c, out) ==
    /\ c \in rooms /\ c.kind = "channel" /\ Command(u, out)
    /\ handle_subscribe_channel(u, c, out) /\ Cache(u, c, out)
    /\ Missed(u, "channel", out)
    /\ UNCHANGED <<rooms, task, sends, reach>>

\* User u is no longer in room r all the time a message to it is being sent.
Left(r, u, out) ==
    reach' = [v \in Users |->
        IF out # "refused" /\ \E t \in task[v] : t.do = "send" /\ t.room = r
        THEN [reach[v] EXCEPT !.stayed = @ \ {u}] ELSE reach[v]]

\* Variant with a fault, for checking the properties: the client forgets the
\* group before it has the answer.
leave_group_early(u, g, out) ==
    /\ g \in rooms /\ g.kind = "group" /\ Command(u, out)
    /\ handle_leave_group(u, g, out) /\ Uncache(u, g, "ok")
    /\ Left(g.id, u, out) /\ Missed(u, "group", out)
    /\ UNCHANGED <<rooms, task, sends>>

\* /group leave
leave_group(u, g, out) ==
    /\ g \in rooms /\ g.kind = "group" /\ Command(u, out)
    /\ handle_leave_group(u, g, out) /\ Uncache(u, g, out)
    /\ Left(g.id, u, out) /\ Missed(u, "group", out)
    /\ UNCHANGED <<rooms, task, sends>>

\* /channel unsub
channel_unsub(u, c, out) ==
    /\ c \in rooms /\ c.kind = "channel" /\ Command(u, out)
    /\ handle_unsubscribe_channel(u, c, out) /\ Uncache(u, c, out)
    /\ Left(c.id, u, out) /\ Missed(u, "channel", out)
    /\ UNCHANGED <<rooms, task, sends>>

\* sync_groups, as the end of a join or by /mygroups: the cached groups are
\* replaced.  (my_channels has no such effect: its handler asks for a
\* channel_id that the client does not send, and answers an error.)
sync_groups(u, out) ==
    /\ task[u] \subseteq {[do |-> "sync"]}
    /\ Fault(out # "ok")
    /\ local' = IF out = "ok"
                THEN [local EXCEPT ![u] = (@ \ OfKind("group"))
                                    \cup (RoomsOf(u) \cap OfKind("group"))]
                ELSE local
    /\ stale' = IF out = "ok" THEN stale \ {<<u, "group">>}
                ELSE IF task[u] # {} THEN stale \cup {<<u, "group">>} ELSE stale
    /\ task' = [task EXCEPT ![u] = {}]
    /\ UNCHANGED <<rooms, members, sends, reach>>
-----------------------------------------------------------------------------
(***************************************************************************)
(* The fan-out: send_group_message, send_channel_message.                  *)
(***************************************************************************)
group_members(g) == list_group_members(g.id)
channel_members(c) == list_channel_subscribers(c.id)

\* The list is read once, whether or not u is on it.  With nobody else on it
\* the message is only saved or printed.
send_begin(u, r) ==
    LET others == (IF r.kind = "group" THEN group_members(r)
                   ELSE channel_members(r)) \ {u}
    IN /\ task[u] = {} /\ r \in rooms /\ sends < MaxSends
       /\ others # {}
       /\ sends' = sends + 1
       /\ task' = [task EXCEPT ![u] = {[do |-> "send", room |-> r.id,
                                        left |-> others]}]
       /\ reach' = [reach EXCEPT ![u].stayed = others]
       /\ UNCHANGED <<rooms, members, local, faults, stale>>

\* Variant with a fault, for checking the properties: a refused copy ends the
\* loop.
send_copy_break(u, v, ok) ==
    \E t \in task[u] :
        /\ t.do = "send" /\ v \in t.left
        /\ Fault(~ok)
        /\ task' = [task EXCEPT ![u] =
                      {[t EXCEPT !.left = IF ok THEN @ \ {v} ELSE {}]}]
        /\ reach' = IF ok THEN [reach EXCEPT ![u].copies = @ \cup {v}]
                    ELSE [reach EXCEPT ![u].refused = @ \cup {v}]
        /\ UNCHANGED <<rooms, members, local, sends, stale>>

\* One copy; a refused one is reported and the loop goes on.
send_copy(u, v, ok) ==
    \E t \in task[u] :
        /\ t.do = "send" /\ v \in t.left
        /\ Fault(~ok)
        /\ task' = [task EXCEPT ![u] = {[t EXCEPT !.left = @ \ {v}]}]
        /\ reach' = IF ok THEN [reach EXCEPT ![u].copies = @ \cup {v}]
                    ELSE [reach EXCEPT ![u].refused = @ \cup {v}]
        /\ UNCHANGED <<rooms, members, local, sends, stale>>

\* A member without a session whose bundle cannot be had, or a connection
\* that breaks: `?' leaves the loop and nothing is tracked.
send_abort(u) ==
    \E t \in task[u] :
        /\ t.do = "send" /\ t.left # {}
        /\ Fault(TRUE)
        /\ task' = [task EXCEPT ![u] = {}]
        /\ reach' = [reach EXCEPT ![u] = NotSending]
        /\ UNCHANGED <<rooms, members, local, sends, stale>>

\* The message is tracked as Sent.
send_done(u) ==
    \E t \in task[u] :
        /\ t.do = "send" /\ t.left = {}
        /\ task' = [task EXCEPT ![u] = {}]
        /\ reach' = [reach EXCEPT ![u] = NotSending]
        /\ UNCHANGED <<rooms, members, local, sends, faults, stale>>

\* The handlers of the directory, with the client's part of each command.
Directory(u) ==
    \/ \E out \in Outcomes \cup {"partial"} : create_group(u, out)
    \/ create_channel(u)
    \/ \E out \in Outcomes :
        \/ subscribe_owner(u, out)
        \/ \E r \in rooms : \/ join_group(u, r, out) \/ leave_group(u, r, out)
                           \/ channel_sub(u, r, out) \/ channel_unsub(u, r, out)
    \/ \E out \in {"ok", "refused"} : sync_groups(u, out)

\* /group send and /channel send.
Send(u) ==
    \/ \E r \in rooms : send_begin(u, r)
    \/ \E v \in Users, ok \in BOOLEAN : send_copy(u, v, ok)
    \/ send_abort(u) \/ send_done(u)

Next == \E u \in Users : Directory(u) \/ Send(u)

Spec == Init /\ [][Next]_vars
-----------------------------------------------------------------------------
Ids == 1..MaxRooms
Tasks == [do : {"subscribe"}, room : [id : Ids, kind : Kinds]] \cup [do : {"sync"}]
            \cup [do : {"send"}, room : Ids, left : SUBSET Users]

TypeOK ==
    /\ rooms \subseteq [id : Ids, kind : Kinds]
    /\ members \subseteq Ids \X Users
    /\ local \in [Users -> SUBSET Ids]
    /\ \A u \in Users : task[u] \subseteq Tasks /\ Cardinality(task[u]) =< 1
    /\ sends \in 0..MaxSends /\ faults \in 0..MaxFaults
    /\ stale \subseteq Users \X Kinds
    /\ reach \in [Users -> [stayed : SUBSET Users, copies : SUBSET Users,
                            refused : SUBSET Users]]

(***************************************************************************)
(* CacheMatches: between commands, the groups and channels a client has    *)
(* cached are those the server counts the user in, unless an answer was    *)
(* lost or an auto-subscription failed since; for groups the next          *)
(* sync_groups repairs even that.                                          *)
(***************************************************************************)
CacheMatches ==
    \A u \in Users, kind \in Kinds :
        task[u] = {} /\ <<u, kind>> \notin stale =>
            local[u] \cap OfKind(kind) = RoomsOf(u) \cap OfKind(kind)

(***************************************************************************)
(* FanoutReaches: when the send loop is over and the message about to be   *)
(* tracked as Sent, everybody else who was a member all the time has been  *)
(* sent a copy, except those whose own copy the server refused: a refusal  *)
(* costs nobody else the message, although the member list was read before *)
(* the first copy and users join and leave meanwhile.                      *)
(***************************************************************************)
FanoutReaches ==
    \A u \in Users : \A t \in task[u] : t.do = "send" /\ t.left = {} =>
        reach[u].stayed \subseteq reach[u].copies \cup reach[u].refused
=============================================================================
