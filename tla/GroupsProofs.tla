---------------------------- MODULE GroupsProofs ----------------------------
(***************************************************************************)
(* Theorems about Groups, for any users, rooms, messages and faults.       *)
(***************************************************************************)
EXTENDS Groups, FiniteSetTheorems, TLAPS

RoomRows == [id : Ids, kind : Kinds]
Reach == [stayed : SUBSET Users, copies : SUBSET Users, refused : SUBSET Users]
Sync == [do |-> "sync"]

\* A client has at most one command under way.
TaskOne == task \in [Users -> {{}} \cup {{t} : t \in Tasks}]

\* Room ids count the rooms made, so that every room has its own.
RoomKeys ==
    /\ IsFiniteSet(rooms)
    /\ \A r \in rooms : r.id =< Cardinality(rooms)
    /\ \A q, r \in rooms : q.id = r.id => q = r

\* Memberships, caches and the subscription under way are of rooms that exist.
KnownIds ==
    /\ \A m \in members : \E r \in rooms : r.id = m[1]
    /\ \A u \in Users : \A i \in local[u] : \E r \in rooms : r.id = i
    /\ \A u \in Users : \A t \in task[u] : t.do = "subscribe" =>
        t.room \in rooms /\ t.room.kind = "channel"

\* A client that missed nothing agrees with the server about every room; only
\* between a join and the sync that follows may its groups lag.
Cached ==
    \A u \in Users : \A r \in rooms :
        <<u, r.kind>> \notin stale /\ (r.kind = "group" => Sync \notin task[u]) =>
            (r.id \in local[u] <=> <<r.id, u>> \in members)

\* In the send loop, who was a member all the time has a copy, was refused
\* one, or is still to come.
LoopCovers ==
    \A u \in Users : \A t \in task[u] : t.do = "send" =>
        reach[u].stayed \subseteq reach[u].copies \cup reach[u].refused \cup t.left

GroupsInv == /\ TypeOK /\ TaskOne /\ RoomKeys /\ KnownIds
             /\ Cached /\ LoopCovers
-----------------------------------------------------------------------------
\* TaskKinds: what a command under way carries.
LEMMA TaskKinds ==
    /\ Sync \in Tasks /\ Sync.do = "sync"
    /\ \A r \in RoomRows : [do |-> "subscribe", room |-> r] \in Tasks
    /\ \A i \in Ids, s \in SUBSET Users :
         [do |-> "send", room |-> i, left |-> s] \in Tasks
    /\ \A t \in Tasks :
        /\ t.do = "subscribe" => t.room \in RoomRows
        /\ t.do = "send" => /\ t.room \in Ids /\ t.left \in SUBSET Users
                            /\ \A s \in SUBSET Users :
                                /\ [t EXCEPT !.left = s] \in Tasks
                                /\ [t EXCEPT !.left = s].do = "send"
                                /\ [t EXCEPT !.left = s].left = s
<1>1. ASSUME NEW t \in Tasks
      PROVE  \/ t \in [do : {"subscribe"}, room : RoomRows]
             \/ t \in [do : {"sync"}]
             \/ t \in [do : {"send"}, room : Ids, left : SUBSET Users]
    BY DEF Tasks, RoomRows
<1>2. ASSUME NEW t \in [do : {"send"}, room : Ids, left : SUBSET Users],
             NEW s \in SUBSET Users
      PROVE  /\ [t EXCEPT !.left = s]
                  \in [do : {"send"}, room : Ids, left : SUBSET Users]
             /\ [t EXCEPT !.left = s].do = "send"
             /\ [t EXCEPT !.left = s].left = s
    OBVIOUS
<1>3. Sync \in Tasks /\ Sync.do = "sync"
    BY DEF Sync, Tasks
<1>4. \A r \in RoomRows : [do |-> "subscribe", room |-> r] \in Tasks
    BY DEF Tasks, RoomRows
<1>5. \A i \in Ids, s \in SUBSET Users :
         [do |-> "send", room |-> i, left |-> s] \in Tasks
    BY DEF Tasks
<1>6. ASSUME NEW t \in Tasks
      PROVE  /\ t.do = "subscribe" => t.room \in RoomRows
             /\ t.do = "send" =>
                  t \in [do : {"send"}, room : Ids, left : SUBSET Users]
    BY <1>1
<1>7. ASSUME NEW t \in Tasks, t.do = "send"
      PROVE  /\ t.room \in Ids /\ t.left \in SUBSET Users
             /\ \A s \in SUBSET Users :
                    /\ [t EXCEPT !.left = s] \in Tasks
                    /\ [t EXCEPT !.left = s].do = "send"
                    /\ [t EXCEPT !.left = s].left = s
  <2>1. t \in [do : {"send"}, room : Ids, left : SUBSET Users]
      BY <1>6, <1>7
  <2>2. \A s \in SUBSET Users : [t EXCEPT !.left = s] \in Tasks
      BY <1>2, <2>1 DEF Tasks
  <2> QED
      BY <1>2, <2>1, <2>2
<1> QED
    BY <1>3, <1>4, <1>5, <1>6, <1>7

\* NewRoomFresh: the room that create makes has an id nobody has used.
LEMMA NewRoomFresh ==
    ASSUME TypeOK, RoomKeys, Cardinality(rooms) < MaxRooms, NEW kind \in Kinds
    PROVE  /\ NewRoom(kind) \in RoomRows /\ NewRoom(kind).kind = kind
           /\ \A r \in rooms : r.id # NewRoom(kind).id
           /\ IsFiniteSet(rooms \cup {NewRoom(kind)})
           /\ \A r \in rooms \cup {NewRoom(kind)} :
                r.id =< Cardinality(rooms \cup {NewRoom(kind)})
<1> DEFINE n == Cardinality(rooms)
           g == NewRoom(kind)
<1>1. n \in Nat
    BY FS_CardinalityType DEF RoomKeys
<1>2. g.id = n + 1 /\ g.kind = kind /\ n + 1 \in Ids
    BY <1>1, GroupsAssumption DEF NewRoom, Ids
<1>3. g \in RoomRows
    BY <1>2 DEF NewRoom, RoomRows
<1>4. \A r \in rooms : r.id \in Nat /\ r.id =< n
    BY DEF TypeOK, RoomKeys, Ids
<1>5. \A r \in rooms : r.id # g.id
    BY <1>1, <1>2, <1>4
<1>6. g \notin rooms
    BY <1>5
<1>7. IsFiniteSet(rooms \cup {g}) /\ Cardinality(rooms \cup {g}) = n + 1
    BY <1>6, FS_AddElement DEF RoomKeys
<1> HIDE DEF n, g
<1>8. \A r \in rooms \cup {g} : r.id =< n + 1
    BY <1>1, <1>2, <1>4
<1> QED
    BY <1>2, <1>3, <1>5, <1>7, <1>8 DEF g

\* FaultType: the count of faults stays in its bound.
LEMMA FaultType ==
    ASSUME TypeOK, NEW yes, Fault(yes) PROVE faults' \in 0..MaxFaults
  BY GroupsAssumption DEF Fault, TypeOK

\* TaskOneType: at most one command, as TypeOK says it.
LEMMA TaskOneType ==
    TaskOne => \A u \in Users : task[u] \subseteq Tasks /\ Cardinality(task[u]) =< 1
<1> SUFFICES ASSUME TaskOne, NEW u \in Users
             PROVE  task[u] \subseteq Tasks /\ Cardinality(task[u]) =< 1
    OBVIOUS
<1>1. CASE task[u] = {}
    BY <1>1, FS_EmptySet
<1>2. ASSUME NEW t \in Tasks, task[u] = {t}
      PROVE  task[u] \subseteq Tasks /\ Cardinality(task[u]) =< 1
    BY <1>2, FS_Singleton
<1> QED
    BY <1>1, <1>2 DEF TaskOne

\* What TypeOK says of everything but the commands under way.
TablesOK ==
    /\ rooms \subseteq RoomRows
    /\ members \subseteq Ids \X Users
    /\ local \in [Users -> SUBSET Ids]
    /\ sends \in 0..MaxSends /\ faults \in 0..MaxFaults
    /\ stale \subseteq Users \X Kinds
    /\ reach \in [Users -> Reach]

\* TypeParts: the type invariant in the form the proofs use.
LEMMA TypeParts == TaskOne => (TypeOK <=> TablesOK)
  BY TaskOneType DEF TypeOK, TablesOK, RoomRows, Reach

\* JoinType: the caller's row and cache entry for a room are well formed.
LEMMA JoinType ==
    ASSUME TablesOK, NEW u \in Users, NEW r \in RoomRows, NEW out
    PROVE  /\ members \cup {<<r.id, u>>} \subseteq Ids \X Users
           /\ members \ {<<r.id, u>>} \subseteq Ids \X Users
           /\ Cache(u, r, out) => local' \in [Users -> SUBSET Ids]
           /\ Uncache(u, r, out) => local' \in [Users -> SUBSET Ids]
           /\ \A kind \in Kinds : Missed(u, kind, out) =>
                stale' \subseteq Users \X Kinds
<1>1. r.id \in Ids
    BY DEF RoomRows
<1>2. <<r.id, u>> \in Ids \X Users
    BY <1>1
<1> QED
    BY <1>1, <1>2 DEF TablesOK, Cache, Uncache, Missed

\* LeftType: leaving keeps the history of the sends well formed.
LEMMA LeftType ==
    ASSUME TablesOK, NEW r, NEW u, NEW out, Left(r, u, out)
    PROVE  /\ reach' \in [Users -> Reach]
           /\ \A v \in Users : /\ reach'[v].stayed \subseteq reach[v].stayed
                                /\ reach'[v].copies = reach[v].copies
                                /\ reach'[v].refused = reach[v].refused
<1>1. ASSUME NEW v \in Users
      PROVE  /\ [reach[v] EXCEPT !.stayed = @ \ {u}] \in Reach
             /\ [reach[v] EXCEPT !.stayed = @ \ {u}].stayed \subseteq reach[v].stayed
             /\ [reach[v] EXCEPT !.stayed = @ \ {u}].copies = reach[v].copies
             /\ [reach[v] EXCEPT !.stayed = @ \ {u}].refused = reach[v].refused
             /\ reach[v] \in Reach
    BY DEF TablesOK, Reach
<1>2. /\ reach' = [v \in Users |-> reach'[v]]
      /\ \A v \in Users : \/ reach'[v] = [reach[v] EXCEPT !.stayed = @ \ {u}]
                           \/ reach'[v] = reach[v]
    BY DEF Left
<1> QED
    BY <1>1, <1>2

\* TypeStep: every command and every answer keeps the tables well formed.
LEMMA TypeStep ==
    TypeOK /\ TaskOne /\ RoomKeys /\ KnownIds /\ [Next]_vars => TypeOK' /\ TaskOne'
<1> SUFFICES ASSUME TypeOK, TaskOne, RoomKeys, KnownIds, [Next]_vars
             PROVE  TablesOK' /\ TaskOne'
    BY TypeParts, PTL
<1> USE GroupsAssumption
<1>0. TablesOK
    BY TypeParts
<1>k. "group" \in Kinds /\ "channel" \in Kinds
    BY DEF Kinds
<1> DEFINE Goal == TablesOK' /\ TaskOne'
<1>1. ASSUME NEW u \in Users, NEW out, create_group(u, out) PROVE Goal
  <2> DEFINE g == NewRoom("group")
  <2>1. g \in RoomRows
      BY <1>1, <1>k, NewRoomFresh DEF create_group
  <2>2. /\ handle_create_group(u, g, out) /\ Cache(u, g, out)
        /\ Missed(u, "group", out) /\ Fault(out # "ok")
        /\ UNCHANGED <<task, sends, reach>>
      BY <1>1 DEF create_group, Command
  <2> HIDE DEF g
  <2>3. faults' \in 0..MaxFaults
      BY <2>2, FaultType
  <2>4. rooms' \subseteq RoomRows /\ members' \subseteq Ids \X Users
      BY <1>0, <2>1, <2>2, JoinType
      DEF handle_create_group, add_group_member, TablesOK
  <2>5. local' \in [Users -> SUBSET Ids] /\ stale' \subseteq Users \X Kinds
      BY <1>0, <1>k, <2>1, <2>2, JoinType
  <2> QED
      BY <1>0, <2>2, <2>3, <2>4, <2>5 DEF TablesOK, TaskOne
<1>2. ASSUME NEW u \in Users, create_channel(u) PROVE Goal
  <2> DEFINE c == NewRoom("channel")
             t == [do |-> "subscribe", room |-> c]
  <2>1. c \in RoomRows
      BY <1>2, <1>k, NewRoomFresh DEF create_channel
  <2>2. t \in Tasks
      BY <2>1, TaskKinds
  <2>3. /\ rooms' = rooms \cup {c} /\ task' = [task EXCEPT ![u] = {t}]
        /\ UNCHANGED <<members, local, sends, faults, stale, reach>>
      BY <1>2 DEF create_channel
  <2> HIDE DEF c, t
  <2> QED
      BY <1>0, <2>1, <2>2, <2>3 DEF TablesOK, TaskOne
<1>3. ASSUME NEW u \in Users, NEW out \in Outcomes, subscribe_owner(u, out)
      PROVE  Goal
  <2>1. PICK t \in task[u] :
          /\ t.do = "subscribe" /\ Fault(out # "ok")
          /\ handle_subscribe_channel(u, t.room, out)
          /\ Cache(u, t.room, IF out = "refused" THEN "ok" ELSE out)
          /\ stale' = IF out = "ok" THEN stale ELSE stale \cup {<<u, "channel">>}
          /\ task' = [task EXCEPT ![u] = {}]
          /\ UNCHANGED <<rooms, sends, reach>>
      BY <1>3 DEF subscribe_owner
  <2>2. t.room \in RoomRows
      BY <2>1, TaskKinds, TaskOneType
  <2>3. faults' \in 0..MaxFaults
      BY <2>1, FaultType
  <2>4. members' \subseteq Ids \X Users /\ local' \in [Users -> SUBSET Ids]
      BY <1>0, <2>1, <2>2, JoinType
      DEF handle_subscribe_channel, subscribe_channel, TablesOK
  <2>5. stale' \subseteq Users \X Kinds
      BY <1>0, <1>k, <2>1 DEF TablesOK
  <2> QED
      BY <1>0, <2>1, <2>3, <2>4, <2>5 DEF TablesOK, TaskOne
<1>4. ASSUME NEW u \in Users, NEW g \in rooms, NEW out \in Outcomes,
             join_group(u, g, out)
      PROVE  Goal
  <2>1. g \in RoomRows /\ faults' \in 0..MaxFaults
      BY <1>0, <1>4, FaultType DEF join_group, Command, TablesOK
  <2>2. members' \subseteq Ids \X Users /\ stale' \subseteq Users \X Kinds
      BY <1>0, <1>4, <1>k, <2>1, JoinType
      DEF join_group, handle_join_group, add_group_member, TablesOK
  <2>3. TaskOne'
      BY <1>4, TaskKinds DEF join_group, TaskOne, Sync
  <2> QED
      BY <1>0, <1>4, <2>1, <2>2, <2>3 DEF join_group, TablesOK
<1>5. ASSUME NEW u \in Users, NEW c \in rooms, NEW out \in Outcomes,
             channel_sub(u, c, out)
      PROVE  Goal
  <2>1. c \in RoomRows /\ faults' \in 0..MaxFaults
      BY <1>0, <1>5, FaultType DEF channel_sub, Command, TablesOK
  <2>2. /\ members' \subseteq Ids \X Users /\ stale' \subseteq Users \X Kinds
        /\ local' \in [Users -> SUBSET Ids]
      BY <1>0, <1>5, <1>k, <2>1, JoinType
      DEF channel_sub, handle_subscribe_channel, subscribe_channel, TablesOK
  <2> QED
      BY <1>0, <1>5, <2>1, <2>2 DEF channel_sub, TablesOK, TaskOne
<1>6. ASSUME NEW u \in Users, NEW r \in rooms, NEW out \in Outcomes,
             leave_group(u, r, out) \/ channel_unsub(u, r, out)
      PROVE  Goal
  <2>1. r \in RoomRows /\ faults' \in 0..MaxFaults
      BY <1>0, <1>6, FaultType DEF leave_group, channel_unsub, Command, TablesOK
  <2>2. /\ members' \subseteq Ids \X Users
        /\ Uncache(u, r, out) /\ Left(r.id, u, out)
        /\ Missed(u, "group", out) \/ Missed(u, "channel", out)
        /\ UNCHANGED <<rooms, task, sends>>
      BY <1>0, <1>6, <2>1, JoinType
      DEF leave_group, channel_unsub, handle_leave_group, remove_group_member,
          handle_unsubscribe_channel, unsubscribe_channel, TablesOK
  <2>3. stale' \subseteq Users \X Kinds /\ local' \in [Users -> SUBSET Ids]
      BY <1>0, <1>k, <2>1, <2>2, JoinType
  <2>4. reach' \in [Users -> Reach]
      BY <1>0, <2>2, LeftType
  <2> QED
      BY <1>0, <2>1, <2>2, <2>3, <2>4 DEF TablesOK, TaskOne
<1>7. ASSUME NEW u \in Users, NEW out, sync_groups(u, out) PROVE Goal
  <2>1. RoomsOf(u) \subseteq Ids
      BY <1>0 DEF RoomsOf, TablesOK
  <2>2. local' \in [Users -> SUBSET Ids]
      BY <1>0, <1>7, <2>1 DEF sync_groups, TablesOK
  <2>3. faults' \in 0..MaxFaults
      BY <1>7, FaultType DEF sync_groups
  <2>4. stale' \subseteq Users \X Kinds
      BY <1>0, <1>7, <1>k DEF sync_groups, TablesOK
  <2> QED
      BY <1>0, <1>7, <2>2, <2>3, <2>4 DEF sync_groups, TablesOK, TaskOne
<1>8. ASSUME NEW u \in Users, NEW r \in rooms, send_begin(u, r) PROVE Goal
  <2> DEFINE others == (IF r.kind = "group" THEN group_members(r)
                        ELSE channel_members(r)) \ {u}
             t == [do |-> "send", room |-> r.id, left |-> others]
  <2>1. others \subseteq Users
      BY <1>0 DEF group_members, channel_members, list_group_members,
                  list_channel_subscribers, TablesOK
  <2>2. r.id \in Ids
      BY <1>0 DEF TablesOK, RoomRows
  <2>3. t \in Tasks
      BY <2>1, <2>2, TaskKinds
  <2>4. /\ sends < MaxSends /\ sends' = sends + 1
        /\ task' = [task EXCEPT ![u] = {t}]
        /\ reach' = [reach EXCEPT ![u].stayed = others]
        /\ UNCHANGED <<rooms, members, local, faults, stale>>
      BY <1>8 DEF send_begin
  <2> HIDE DEF others, t
  <2>5. reach' \in [Users -> Reach]
      BY <1>0, <2>1, <2>4 DEF TablesOK, Reach
  <2> QED
      BY <1>0, <2>3, <2>4, <2>5 DEF TablesOK, TaskOne
<1>9. ASSUME NEW u \in Users, NEW v \in Users, NEW ok \in BOOLEAN,
             send_copy(u, v, ok)
      PROVE  Goal
  <2>1. PICK t \in task[u] :
          /\ t.do = "send" /\ Fault(~ok)
          /\ task' = [task EXCEPT ![u] = {[t EXCEPT !.left = t.left \ {v}]}]
          /\ reach' = IF ok THEN [reach EXCEPT ![u].copies = @ \cup {v}]
                      ELSE [reach EXCEPT ![u].refused = @ \cup {v}]
          /\ UNCHANGED <<rooms, members, local, sends, stale>>
      BY <1>9 DEF send_copy
  <2>2. t \in Tasks
      BY TaskOneType
  <2>3. t.left \ {v} \in SUBSET Users
      BY <2>1, <2>2, TaskKinds
  <2>4. [t EXCEPT !.left = t.left \ {v}] \in Tasks
      BY <2>1, <2>2, <2>3, TaskKinds
  <2>5. TaskOne'
      BY <2>1, <2>4 DEF TaskOne
  <2>6. faults' \in 0..MaxFaults
      BY <2>1, FaultType
  <2>7. reach' \in [Users -> Reach]
      BY <1>0, <2>1 DEF TablesOK, Reach
  <2> QED
      BY <1>0, <2>1, <2>5, <2>6, <2>7 DEF TablesOK
<1>10. ASSUME NEW u \in Users, send_abort(u) \/ send_done(u) PROVE Goal
  <2>1. NotSending \in Reach
      BY DEF NotSending, Reach
  <2>2. faults' \in 0..MaxFaults
      BY <1>0, <1>10, FaultType DEF send_abort, send_done, TablesOK
  <2>3. /\ task' = [task EXCEPT ![u] = {}]
        /\ reach' = [reach EXCEPT ![u] = NotSending]
        /\ UNCHANGED <<rooms, members, local, sends, stale>>
      BY <1>10 DEF send_abort, send_done
  <2> QED
      BY <1>0, <2>1, <2>2, <2>3 DEF TablesOK, TaskOne
<1>11. ASSUME UNCHANGED vars PROVE Goal
    BY <1>0, <1>11 DEF vars, TablesOK, TaskOne
<1> QED
    BY <1>1, <1>2, <1>3, <1>4, <1>5, <1>6, <1>7, <1>8, <1>9, <1>10, <1>11
    DEF Next, Directory, Send

\* KeysStep: rooms keep ids of their own, and nothing refers to a room that
\* does not exist.
LEMMA KeysStep ==
    TypeOK /\ TaskOne /\ RoomKeys /\ KnownIds /\ [Next]_vars
        => RoomKeys' /\ KnownIds'
<1> SUFFICES ASSUME TypeOK, TaskOne, RoomKeys, KnownIds, [Next]_vars
             PROVE  RoomKeys' /\ KnownIds'
    OBVIOUS
<1>0. TablesOK /\ TablesOK' /\ TaskOne'
    BY TypeStep, TypeParts, PTL
<1> DEFINE Goal == RoomKeys' /\ KnownIds'
\* A command about a room that exists, or none, leaves no dangling id.
<1>a. ASSUME rooms' = rooms,
             \A m \in members' : m \in members \/ \E r \in rooms : m[1] = r.id,
             \A v \in Users : \A i \in local'[v] :
                i \in local[v] \/ \E r \in rooms : i = r.id,
             \A v \in Users : \A t \in task'[v] :
                t \in task[v] \/ t.do # "subscribe"
      PROVE  Goal
    BY <1>a DEF RoomKeys, KnownIds
<1>1. ASSUME NEW u \in Users, NEW out, create_group(u, out) PROVE Goal
  <2> DEFINE g == NewRoom("group")
  <2>1. /\ \A r \in rooms : r.id # g.id
        /\ IsFiniteSet(rooms \cup {g})
        /\ \A r \in rooms \cup {g} : r.id =< Cardinality(rooms \cup {g})
      BY <1>1, NewRoomFresh DEF create_group, Kinds
  <2>2. /\ handle_create_group(u, g, out) /\ Cache(u, g, out)
        /\ task' = task
      BY <1>1 DEF create_group
  <2> HIDE DEF g
  <2>3. rooms' = rooms \/ rooms' = rooms \cup {g}
      BY <2>2 DEF handle_create_group
  <2>4. out \in {"ok", "lost"} => rooms' = rooms \cup {g}
      BY <2>2 DEF handle_create_group
  <2>5. RoomKeys'
      BY <2>1, <2>3 DEF RoomKeys
  <2>6. \A m \in members' : \E r \in rooms' : r.id = m[1]
      BY <2>2, <2>3, <2>4 DEF KnownIds, handle_create_group, add_group_member
  <2>7. \A v \in Users : \A i \in local'[v] : \E r \in rooms' : r.id = i
      BY <1>0, <2>2, <2>3, <2>4 DEF KnownIds, Cache, TablesOK
  <2> QED
      BY <2>2, <2>3, <2>5, <2>6, <2>7 DEF KnownIds
<1>2. ASSUME NEW u \in Users, create_channel(u) PROVE Goal
  <2> DEFINE c == NewRoom("channel")
             t == [do |-> "subscribe", room |-> c]
  <2>1. /\ c.kind = "channel" /\ \A r \in rooms : r.id # c.id
        /\ IsFiniteSet(rooms \cup {c})
        /\ \A r \in rooms \cup {c} : r.id =< Cardinality(rooms \cup {c})
      BY <1>2, NewRoomFresh DEF create_channel, Kinds
  <2>2. t.room = c
      OBVIOUS
  <2>3. /\ rooms' = rooms \cup {c} /\ task' = [task EXCEPT ![u] = {t}]
        /\ UNCHANGED <<members, local>>
      BY <1>2 DEF create_channel
  <2> HIDE DEF c, t
  <2> QED
      BY <2>1, <2>2, <2>3 DEF RoomKeys, KnownIds, TaskOne
<1>3. ASSUME NEW u \in Users, NEW out \in Outcomes, subscribe_owner(u, out)
      PROVE  Goal
  <2>1. PICK t \in task[u] :
          /\ t.do = "subscribe"
          /\ handle_subscribe_channel(u, t.room, out)
          /\ Cache(u, t.room, IF out = "refused" THEN "ok" ELSE out)
          /\ task' = [task EXCEPT ![u] = {}]
          /\ UNCHANGED rooms
      BY <1>3 DEF subscribe_owner
  <2>2. t.room \in rooms
      BY <2>1 DEF KnownIds
  <2>3. \A m \in members' : m \in members \/ \E r \in rooms : m[1] = r.id
      BY <2>1, <2>2 DEF handle_subscribe_channel, subscribe_channel
  <2>4. \A v \in Users : \A i \in local'[v] :
          i \in local[v] \/ \E r \in rooms : i = r.id
      BY <1>0, <2>1, <2>2 DEF Cache, TablesOK
  <2>5. \A v \in Users : task'[v] \subseteq task[v]
      BY <2>1 DEF TaskOne
  <2> QED
      BY <1>a, <2>1, <2>3, <2>4, <2>5
<1>4. ASSUME NEW u \in Users, NEW g \in rooms, NEW out \in Outcomes,
             join_group(u, g, out)
      PROVE  Goal
  <2>1. \A m \in members' : m \in members \/ \E r \in rooms : m[1] = r.id
      BY <1>4 DEF join_group, handle_join_group, add_group_member
  <2>2. \A v \in Users : \A t \in task'[v] : t \in task[v] \/ t = Sync
      BY <1>4 DEF join_group, TaskOne, Sync
  <2>3. \A v \in Users : \A t \in task'[v] :
            t \in task[v] \/ t.do # "subscribe"
      BY <2>2, TaskKinds
  <2> QED
      BY <1>4, <1>a, <2>1, <2>3 DEF join_group
<1>5. ASSUME NEW u \in Users, NEW c \in rooms, NEW out \in Outcomes,
             channel_sub(u, c, out)
      PROVE  Goal
  <2>1. \A m \in members' : m \in members \/ \E r \in rooms : m[1] = r.id
      BY <1>5 DEF channel_sub, handle_subscribe_channel, subscribe_channel
  <2>2. \A v \in Users : \A i \in local'[v] :
          i \in local[v] \/ \E r \in rooms : i = r.id
      BY <1>0, <1>5 DEF channel_sub, Cache, TablesOK
  <2> QED
      BY <1>5, <1>a, <2>1, <2>2 DEF channel_sub
<1>6. ASSUME NEW u \in Users, NEW r \in rooms, NEW out \in Outcomes,
             leave_group(u, r, out) \/ channel_unsub(u, r, out)
      PROVE  Goal
  <2>1. members' \subseteq members
      BY <1>6 DEF leave_group, channel_unsub, handle_leave_group,
          handle_unsubscribe_channel, remove_group_member, unsubscribe_channel
  <2>2. \A v \in Users : local'[v] \subseteq local[v]
      BY <1>0, <1>6 DEF leave_group, channel_unsub, Uncache, TablesOK
  <2>3. rooms' = rooms /\ task' = task
      BY <1>6 DEF leave_group, channel_unsub
  <2> QED
      BY <1>a, <2>1, <2>2, <2>3
<1>7. ASSUME NEW u \in Users, NEW out, sync_groups(u, out) PROVE Goal
  <2>1. \A v \in Users : \A i \in local'[v] :
          i \in local[v] \/ \E r \in rooms : i = r.id
      BY <1>0, <1>7 DEF sync_groups, OfKind, TablesOK
  <2>2. \A v \in Users : task'[v] \subseteq task[v]
      BY <1>7 DEF sync_groups, TaskOne
  <2> QED
      BY <1>7, <1>a, <2>1, <2>2 DEF sync_groups
<1>8. ASSUME NEW u \in Users, NEW r \in rooms, send_begin(u, r) PROVE Goal
  <2>1. \A v \in Users : \A t \in task'[v] :
          t \in task[v] \/ t.do # "subscribe"
      BY <1>8 DEF send_begin, TaskOne
  <2> QED
      BY <1>8, <1>a, <2>1 DEF send_begin
<1>9. ASSUME NEW u \in Users, NEW v \in Users, NEW ok \in BOOLEAN,
             send_copy(u, v, ok)
      PROVE  Goal
  <2>1. PICK t \in task[u] :
          /\ t.do = "send"
          /\ task' = [task EXCEPT ![u] = {[t EXCEPT !.left = t.left \ {v}]}]
          /\ UNCHANGED <<rooms, members, local>>
      BY <1>9 DEF send_copy
  <2>2. t \in Tasks
      BY TaskOneType
  <2>3. t.left \ {v} \in SUBSET Users
      BY <2>1, <2>2, TaskKinds
  <2>4. [t EXCEPT !.left = t.left \ {v}].do = "send"
      BY <2>1, <2>2, <2>3, TaskKinds
  <2>5. \A w \in Users : \A x \in task'[w] :
          x \in task[w] \/ x.do # "subscribe"
      BY <2>1, <2>4 DEF TaskOne
  <2> QED
      BY <1>a, <2>1, <2>5
<1>10. ASSUME NEW u \in Users, send_abort(u) \/ send_done(u) PROVE Goal
  <2>1. \A v \in Users : task'[v] \subseteq task[v]
      BY <1>10 DEF send_abort, send_done, TaskOne
  <2> QED
      BY <1>10, <1>a, <2>1 DEF send_abort, send_done
<1>11. ASSUME UNCHANGED vars PROVE Goal
    BY <1>11 DEF vars, RoomKeys, KnownIds
<1> QED
    BY <1>1, <1>2, <1>3, <1>4, <1>5, <1>6, <1>7, <1>8, <1>9, <1>10, <1>11
    DEF Next, Directory, Send

\* CachedStep: a command changes the cache of its own client only, and either
\* changes it as it changes the tables, or leaves a sync or a stale mark.
LEMMA CachedStep ==
    TypeOK /\ TaskOne /\ RoomKeys /\ KnownIds /\ Cached /\ [Next]_vars => Cached'
<1> SUFFICES ASSUME TypeOK, TaskOne, RoomKeys, KnownIds, Cached, [Next]_vars
             PROVE  Cached'
    OBVIOUS
<1>0. TablesOK /\ TablesOK' /\ TaskOne'
    BY TypeStep, TypeParts, PTL
<1>t. \A t \in Tasks : t = Sync => t.do = "sync"
    BY TaskKinds
<1> DEFINE Ours(u, r) ==
        <<u, r.kind>> \notin stale' /\ (r.kind = "group" => Sync \notin task'[u])
            => (r.id \in local'[u] <=> <<r.id, u>> \in members')
           Frame(u) ==
        \A v \in Users \ {u} :
            /\ local'[v] = local[v] /\ task'[v] = task[v]
            /\ \A i : <<i, v>> \in members' <=> <<i, v>> \in members
            /\ \A k : <<v, k>> \in stale' <=> <<v, k>> \in stale
\* It is enough to look at the client whose command it is.
<1>a. ASSUME rooms' = rooms, NEW u \in Users, Frame(u),
             \A r \in rooms : Ours(u, r)
      PROVE  Cached'
    BY <1>a DEF Cached
\* ... and, where a room is made, at the new one.
<1>b. ASSUME NEW u \in Users, NEW g, rooms' \subseteq rooms \cup {g}, Frame(u),
             \A r \in rooms : r.id # g.id,
             \A r \in rooms' : Ours(u, r)
      PROVE  Cached'
  <2>1. \A v \in Users : g.id \notin local[v] /\ <<g.id, v>> \notin members
    <3>1. \A v \in Users : <<g.id, v>>[1] = g.id
        OBVIOUS
    <3> QED
        BY <1>b, <3>1 DEF KnownIds
  <2> QED
      BY <1>b, <2>1 DEF Cached
\* A step that leaves tables and caches alone and adds no sync.
<1>c. ASSUME UNCHANGED <<rooms, members, local, stale>>,
             \A v \in Users : Sync \in task[v] => Sync \in task'[v]
      PROVE  Cached'
    BY <1>c DEF Cached
<1>1. ASSUME NEW u \in Users, NEW out, create_group(u, out) PROVE Cached'
  <2> DEFINE g == NewRoom("group")
  <2>1. g.kind = "group" /\ \A r \in rooms : r.id # g.id
      BY <1>1, NewRoomFresh DEF create_group, Kinds
  <2>2. /\ handle_create_group(u, g, out) /\ Cache(u, g, out)
        /\ Missed(u, "group", out) /\ task' = task
      BY <1>1 DEF create_group
  <2> HIDE DEF g
  <2>3. Frame(u)
      BY <1>0, <2>2
      DEF handle_create_group, add_group_member, Cache, Missed, TablesOK
  <2>4. rooms' \subseteq rooms \cup {g}
      BY <2>2 DEF handle_create_group
  <2>5. g.id \notin local[u] /\ <<g.id, u>> \notin members
    <3>1. <<g.id, u>>[1] = g.id
        OBVIOUS
    <3> QED
        BY <2>1, <3>1 DEF KnownIds
  <2>6. ASSUME NEW r \in rooms' PROVE Ours(u, r)
    <3>1. CASE r \in rooms
        BY <1>0, <2>1, <2>2, <3>1
        DEF Cached, handle_create_group, add_group_member, Cache, Missed, TablesOK
    <3>2. CASE r = g
        BY <1>0, <2>1, <2>2, <2>5, <3>2
        DEF handle_create_group, add_group_member, Cache, Missed, TablesOK
    <3> QED BY <2>4, <3>1, <3>2
  <2> QED
      BY <1>b, <2>1, <2>3, <2>4, <2>6
<1>2. ASSUME NEW u \in Users, create_channel(u) PROVE Cached'
  <2> DEFINE c == NewRoom("channel")
             t == [do |-> "subscribe", room |-> c]
  <2>1. c.kind = "channel" /\ \A r \in rooms : r.id # c.id
      BY <1>2, NewRoomFresh DEF create_channel, Kinds
  <2>2. /\ rooms' = rooms \cup {c} /\ task[u] = {}
        /\ task' = [task EXCEPT ![u] = {t}]
        /\ UNCHANGED <<members, local, stale>>
      BY <1>2 DEF create_channel
  <2> HIDE DEF c, t
  <2>3. Frame(u)
      BY <2>2 DEF TaskOne
  <2>4. c.id \notin local[u] /\ <<c.id, u>> \notin members
    <3>1. <<c.id, u>>[1] = c.id
        OBVIOUS
    <3> QED
        BY <2>1, <3>1 DEF KnownIds
  <2>5. \A r \in rooms' : Ours(u, r)
      BY <2>2, <2>4 DEF Cached
  <2> QED
      BY <1>b, <2>1, <2>2, <2>3, <2>5
<1>3. ASSUME NEW u \in Users, NEW out \in Outcomes, subscribe_owner(u, out)
      PROVE  Cached'
  <2>1. PICK t \in task[u] :
          /\ t.do = "subscribe"
          /\ handle_subscribe_channel(u, t.room, out)
          /\ Cache(u, t.room, IF out = "refused" THEN "ok" ELSE out)
          /\ stale' = IF out = "ok" THEN stale ELSE stale \cup {<<u, "channel">>}
          /\ task' = [task EXCEPT ![u] = {}]
          /\ UNCHANGED rooms
      BY <1>3 DEF subscribe_owner
  <2>2. t.room \in rooms /\ t.room.kind = "channel" /\ task[u] = {t}
        /\ t # Sync
      BY <2>1, <1>t, TaskOneType DEF KnownIds, TaskOne
  <2>3. Frame(u)
      BY <1>0, <2>1 DEF handle_subscribe_channel, subscribe_channel, Cache,
                        TablesOK, TaskOne
  <2>4. \A r \in rooms : r = t.room \/ r.id # t.room.id
      BY <2>2 DEF RoomKeys
  <2>5. ASSUME NEW r \in rooms PROVE Ours(u, r)
    <3>1. CASE r = t.room
        BY <1>0, <2>1, <2>2, <3>1
        DEF handle_subscribe_channel, subscribe_channel, Cache, TablesOK
    <3>2. CASE r.id # t.room.id
        BY <1>0, <2>1, <2>2, <3>2
        DEF handle_subscribe_channel, subscribe_channel, Cache, TablesOK, Cached
    <3> QED BY <2>4, <3>1, <3>2
  <2> QED
      BY <1>a, <2>1, <2>3, <2>5
<1>4. ASSUME NEW u \in Users, NEW g \in rooms, NEW out \in Outcomes,
             join_group(u, g, out)
      PROVE  Cached'
  <2>1. Frame(u)
      BY <1>0, <1>4 DEF join_group, handle_join_group, add_group_member, Missed,
                        TablesOK, TaskOne
  <2>2. ASSUME NEW r \in rooms PROVE Ours(u, r)
    <3>1. CASE out = "ok"
      <4>1. Sync \in task'[u]
          BY <1>4, <3>1 DEF join_group, TaskOne, Sync
      <4>2. CASE r.kind = "group"
          BY <4>1, <4>2
      <4>3. CASE r.kind # "group"
        <5>1. r.id # g.id
            BY <1>4, <4>3 DEF join_group, RoomKeys
        <5> QED
            BY <1>4, <4>3, <5>1
            DEF join_group, handle_join_group, add_group_member, Missed, Cached
      <4> QED BY <4>2, <4>3
    <3>2. CASE out = "lost"
      <4>1. r.id # g.id \/ r = g
          BY DEF RoomKeys
      <4>2. CASE r.id # g.id
          BY <1>4, <3>2, <4>2
          DEF join_group, handle_join_group, add_group_member, Missed, Cached
      <4>3. CASE r = g
          BY <1>4, <3>2, <4>3 DEF join_group, Missed
      <4> QED BY <4>1, <4>2, <4>3
    <3>3. CASE out = "refused"
        BY <1>4, <3>3 DEF join_group, handle_join_group, Missed, Cached
    <3> QED BY <3>1, <3>2, <3>3 DEF Outcomes
  <2> QED
      BY <1>a, <1>4, <2>1, <2>2 DEF join_group
\* A command that adds or removes one row, and the cache with it.
<1>d. ASSUME NEW u \in Users, NEW g \in rooms, NEW out \in Outcomes,
             Missed(u, g.kind, out), UNCHANGED <<rooms, task>>,
             \/ /\ Cache(u, g, out)
                /\ members' = IF out = "refused" THEN members
                              ELSE members \cup {<<g.id, u>>}
             \/ /\ Uncache(u, g, out)
                /\ members' = IF out = "refused" THEN members
                              ELSE members \ {<<g.id, u>>}
      PROVE  Cached'
  <2>1. Frame(u)
      BY <1>0, <1>d DEF Cache, Uncache, Missed, TablesOK
  <2>2. ASSUME NEW r \in rooms PROVE Ours(u, r)
    <3>1. r = g \/ r.id # g.id
        BY DEF RoomKeys
    <3>2. CASE r = g
        BY <1>0, <1>d, <3>2
        DEF Cache, Uncache, Missed, TablesOK, Cached, Outcomes
    <3>3. CASE r.id # g.id
        BY <1>0, <1>d, <3>3 DEF Cache, Uncache, Missed, TablesOK, Cached
    <3> QED BY <3>1, <3>2, <3>3
  <2> QED
      BY <1>a, <1>d, <2>1, <2>2
<1>5. ASSUME NEW u \in Users, NEW c \in rooms, NEW out \in Outcomes,
             channel_sub(u, c, out)
      PROVE  Cached'
    BY <1>5, <1>d DEF channel_sub, handle_subscribe_channel, subscribe_channel
<1>6. ASSUME NEW u \in Users, NEW r \in rooms, NEW out \in Outcomes,
             leave_group(u, r, out) \/ channel_unsub(u, r, out)
      PROVE  Cached'
    BY <1>6, <1>d DEF leave_group, handle_leave_group, remove_group_member,
        channel_unsub, handle_unsubscribe_channel, unsubscribe_channel
<1>7. ASSUME NEW u \in Users, NEW out \in {"ok", "refused"}, sync_groups(u, out)
      PROVE  Cached'
  <2>1. Frame(u)
      BY <1>0, <1>7 DEF sync_groups, TablesOK, TaskOne
  <2>2. task[u] = {} \/ task[u] = {Sync}
      BY <1>7 DEF sync_groups, Sync
  <2>3. \A i : i \in RoomsOf(u) <=> <<i, u>> \in members
      BY <1>0 DEF RoomsOf, TablesOK
  <2>4. \A r \in rooms : r.id \in OfKind("group") <=> r.kind = "group"
      BY DEF OfKind, RoomKeys
  <2>5. ASSUME NEW r \in rooms PROVE Ours(u, r)
    <3>1. CASE out = "ok"
      <4>1. r.id \in local'[u] <=> IF r.kind = "group" THEN r.id \in RoomsOf(u)
                                   ELSE r.id \in local[u]
          BY <1>0, <1>7, <2>4, <3>1 DEF sync_groups, TablesOK
      <4>2. members' = members /\ \A k : k # "group" =>
              (<<u, k>> \in stale' <=> <<u, k>> \in stale)
          BY <1>7, <3>1 DEF sync_groups
      <4> QED
          BY <2>3, <4>1, <4>2 DEF Cached
    <3>2. CASE out # "ok"
      <4>1. /\ members' = members /\ local' = local
            /\ task[u] # {} => <<u, "group">> \in stale'
            /\ \A k : <<u, k>> \in stale => <<u, k>> \in stale'
          BY <1>7, <3>2 DEF sync_groups
      <4> QED
          BY <2>2, <4>1 DEF Cached
    <3> QED BY <3>1, <3>2
  <2> QED
      BY <1>a, <1>7, <2>1, <2>5 DEF sync_groups
<1>8. ASSUME NEW u \in Users, NEW r \in rooms, send_begin(u, r) PROVE Cached'
  <2>1. \A v \in Users : Sync \in task[v] => Sync \in task'[v]
      BY <1>8 DEF send_begin, TaskOne
  <2> QED
      BY <1>8, <1>c, <2>1 DEF send_begin
<1>9. ASSUME NEW u \in Users,
             \/ \E v \in Users, ok \in BOOLEAN : send_copy(u, v, ok)
             \/ send_abort(u) \/ send_done(u)
      PROVE  Cached'
  <2>1. /\ UNCHANGED <<rooms, members, local, stale>>
        /\ \E t \in task[u] : t.do = "send"
        /\ \A v \in Users : v # u => task'[v] = task[v]
      BY <1>9 DEF send_copy, send_abort, send_done, TaskOne
  <2>2. Sync \notin task[u]
      BY <2>1, TaskKinds DEF TaskOne
  <2> QED
      BY <1>c, <2>1, <2>2
<1>10. ASSUME UNCHANGED vars PROVE Cached'
    BY <1>10 DEF vars, Cached
<1> QED
    BY <1>1, <1>2, <1>3, <1>4, <1>5, <1>6, <1>7, <1>8, <1>9, <1>10
    DEF Next, Directory, Send

\* LoopStep: the copies made, refused and still to make cover those who stay.
LEMMA LoopStep ==
    TypeOK /\ TaskOne /\ RoomKeys /\ KnownIds /\ LoopCovers /\ [Next]_vars
        => LoopCovers'
<1> SUFFICES ASSUME TypeOK, TaskOne, RoomKeys, KnownIds, LoopCovers, [Next]_vars
             PROVE  LoopCovers'
    OBVIOUS
<1>0. TablesOK /\ TablesOK' /\ TaskOne'
    BY TypeStep, TypeParts, PTL
\* A step that begins no send and takes nobody out of a history.
<1>a. ASSUME \A v \in Users : \A t \in task'[v] : t \in task[v] \/ t.do # "send",
             \A v \in Users : /\ reach'[v].stayed \subseteq reach[v].stayed
                              /\ reach'[v].copies = reach[v].copies
                              /\ reach'[v].refused = reach[v].refused
      PROVE  LoopCovers'
    BY <1>a DEF LoopCovers
<1>1. ASSUME NEW u \in Users, NEW out, create_group(u, out) PROVE LoopCovers'
    BY <1>1, <1>a DEF create_group
<1>2. ASSUME NEW u \in Users, create_channel(u) PROVE LoopCovers'
  <2>1. \A v \in Users : \A t \in task'[v] : t \in task[v] \/ t.do # "send"
      BY <1>2 DEF create_channel, TaskOne
  <2> QED
      BY <1>2, <1>a, <2>1 DEF create_channel
<1>3. ASSUME NEW u \in Users, NEW out \in Outcomes, subscribe_owner(u, out)
      PROVE  LoopCovers'
    BY <1>3, <1>a DEF subscribe_owner, TaskOne
<1>4. ASSUME NEW u \in Users, NEW g \in rooms, NEW out \in Outcomes,
             join_group(u, g, out)
      PROVE  LoopCovers'
  <2>1. \A v \in Users : \A t \in task'[v] : t \in task[v] \/ t = Sync
      BY <1>4 DEF join_group, TaskOne, Sync
  <2>2. \A v \in Users : \A t \in task'[v] : t \in task[v] \/ t.do # "send"
      BY <2>1, TaskKinds
  <2> QED
      BY <1>4, <1>a, <2>2 DEF join_group
<1>5. ASSUME NEW u \in Users, NEW c \in rooms, NEW out \in Outcomes,
             channel_sub(u, c, out)
      PROVE  LoopCovers'
    BY <1>5, <1>a DEF channel_sub
<1>6. ASSUME NEW u \in Users, NEW r \in rooms, NEW out \in Outcomes,
             leave_group(u, r, out) \/ channel_unsub(u, r, out)
      PROVE  LoopCovers'
  <2>1. Left(r.id, u, out) /\ task' = task
      BY <1>6 DEF leave_group, channel_unsub
  <2> QED
      BY <1>0, <1>a, <2>1, LeftType
<1>7. ASSUME NEW u \in Users, NEW out, sync_groups(u, out) PROVE LoopCovers'
    BY <1>7, <1>a DEF sync_groups, TaskOne
<1>8. ASSUME NEW u \in Users, NEW r \in rooms, send_begin(u, r) PROVE LoopCovers'
  <2> DEFINE others == (IF r.kind = "group" THEN group_members(r)
                        ELSE channel_members(r)) \ {u}
             t == [do |-> "send", room |-> r.id, left |-> others]
  <2>1. t.left = others
      OBVIOUS
  <2>2. /\ task' = [task EXCEPT ![u] = {t}]
        /\ reach' = [reach EXCEPT ![u].stayed = others]
      BY <1>8 DEF send_begin
  <2> HIDE DEF others, t
  <2>3. reach'[u].stayed = others
      BY <1>0, <2>2 DEF TablesOK, Reach
  <2> QED
      BY <1>0, <2>1, <2>2, <2>3 DEF LoopCovers, TaskOne, TablesOK
<1>9. ASSUME NEW u \in Users, NEW v \in Users, NEW ok \in BOOLEAN,
             send_copy(u, v, ok)
      PROVE  LoopCovers'
  <2>1. PICK t \in task[u] :
          /\ t.do = "send"
          /\ task' = [task EXCEPT ![u] = {[t EXCEPT !.left = t.left \ {v}]}]
          /\ reach' = IF ok THEN [reach EXCEPT ![u].copies = @ \cup {v}]
                      ELSE [reach EXCEPT ![u].refused = @ \cup {v}]
      BY <1>9 DEF send_copy
  <2>2. t \in Tasks
      BY TaskOneType
  <2>3. t.left \ {v} \in SUBSET Users
      BY <2>1, <2>2, TaskKinds
  <2> DEFINE next == [t EXCEPT !.left = t.left \ {v}]
  <2>4. next.left = t.left \ {v} /\ task' = [task EXCEPT ![u] = {next}]
      BY <2>1, <2>2, <2>3, TaskKinds
  <2> HIDE DEF next
  <2>5. /\ reach'[u].stayed = reach[u].stayed
        /\ reach'[u].copies \cup reach'[u].refused
              = reach[u].copies \cup reach[u].refused \cup {v}
        /\ \A w \in Users : w # u => reach'[w] = reach[w]
      BY <1>0, <2>1 DEF TablesOK, Reach
  <2> QED
      BY <2>1, <2>4, <2>5 DEF LoopCovers, TaskOne
<1>10. ASSUME NEW u \in Users, send_abort(u) \/ send_done(u) PROVE LoopCovers'
    BY <1>0, <1>10 DEF send_abort, send_done, LoopCovers, TaskOne, TablesOK
<1>11. ASSUME UNCHANGED vars PROVE LoopCovers'
    BY <1>11 DEF vars, LoopCovers
<1> QED
    BY <1>1, <1>2, <1>3, <1>4, <1>5, <1>6, <1>7, <1>8, <1>9, <1>10, <1>11
    DEF Next, Directory, Send

\* Inductive: the inductive invariant holds in every state of the system.
LEMMA Inductive == Spec => []GroupsInv
<1>1. Init => GroupsInv
  <2> SUFFICES ASSUME Init PROVE GroupsInv
      OBVIOUS
  <2> USE GroupsAssumption DEF Init
  <2>1. TaskOne
      BY DEF TaskOne
  <2>2. TablesOK
    <3>1. NotSending \in Reach
        BY DEF NotSending, Reach
    <3> QED
        BY <3>1 DEF TablesOK
  <2>3. RoomKeys
      BY FS_EmptySet DEF RoomKeys
  <2>4. KnownIds /\ Cached /\ LoopCovers
      BY DEF KnownIds, Cached, LoopCovers
  <2> QED
      BY <2>1, <2>2, <2>3, <2>4, TypeParts DEF GroupsInv
<1>2. GroupsInv /\ [Next]_vars => GroupsInv'
    BY TypeStep, KeysStep, CachedStep, LoopStep DEF GroupsInv
<1> QED
    BY <1>1, <1>2, PTL DEF Spec
-----------------------------------------------------------------------------
(***************************************************************************)
(* CacheFollowsServer: for any number of users, rooms and faults, between  *)
(* commands a client's cached groups and channels are those the server has *)
(* its user in, unless it was marked as having missed a change.            *)
(***************************************************************************)
THEOREM CacheFollowsServer == Spec => []CacheMatches
<1>1. GroupsInv => CacheMatches
  <2> SUFFICES ASSUME GroupsInv, NEW u \in Users, NEW kind \in Kinds,
                      task[u] = {}, <<u, kind>> \notin stale
               PROVE  local[u] \cap OfKind(kind) = RoomsOf(u) \cap OfKind(kind)
      BY DEF CacheMatches
  <2>1. \A i : i \in RoomsOf(u) <=> <<i, u>> \in members
      BY DEF GroupsInv, TypeOK, RoomsOf
  <2>2. \A r \in rooms : r.kind = kind =>
            (r.id \in local[u] <=> <<r.id, u>> \in members)
      BY DEF GroupsInv, Cached
  <2> QED
      BY <2>1, <2>2 DEF OfKind
<1> QED
    BY <1>1, Inductive, PTL

(***************************************************************************)
(* FanoutComplete: for any number of members, when a send loop is over,    *)
(* everybody who was a member all the time has been sent a copy or had it  *)
(* refused, whoever joined and left meanwhile.                             *)
(***************************************************************************)
THEOREM FanoutComplete == Spec => []FanoutReaches
<1>1. GroupsInv => FanoutReaches
    BY DEF GroupsInv, LoopCovers, FanoutReaches
<1> QED
    BY <1>1, Inductive, PTL
=============================================================================
