------------------------------ MODULE Timeline ------------------------------
(***************************************************************************)
(* The timeline: tables timeline_posts and timeline_comments of store.rs,  *)
(* and the query of get_timeline, which derives a user's contacts from the *)
(* group_members and messages tables.                                      *)
(*                                                                         *)
(* delete_post is two statements, each committed by itself; `deleting'     *)
(* holds the call between them, and with it the store's mutex.  The        *)
(* bundled SQLite enforces the foreign key of timeline_comments: it        *)
(* refuses a comment on a post that is not there, and the DELETE of a post *)
(* that has comments.  One group stands for all groups.  A row of the      *)
(* messages table is reduced to its two ends and to whether it is a        *)
(* message or a receipt; equal rows are one, which changes neither a       *)
(* fetch, which deletes all of them, nor the query.                        *)
(***************************************************************************)
EXTENDS Store, Integers

CONSTANTS MaxPosts,      \* bound: posts created
          MaxComments,   \* bound: comments added
          MaxMessages    \* bound: messages sent

ASSUME TimelineAssumption ==
    {MaxPosts, MaxComments, MaxMessages, MaxFaults} \subseteq Nat

VARIABLES posts,      \* table: [id, author, wall], wall = {} or {target_user_id}
          comments,   \* table: [id, post, author]
          members,    \* users in the group
          rows,       \* the messages table: [from, to, message]
          next_post, next_comment, sends,
          deleting,   \* {} or {[post, by]}: delete_post between its statements
          talked,     \* history: {u, v} have exchanged a message
          erased      \* history: [by, author]: whose post lost comments to whom

timelineVars ==
    <<posts, comments, members, rows, next_post, next_comment, sends, deleting,
      faults, talked, erased>>

msgVars == <<members, rows, sends, talked>>

Unlocked == deleting = {}

TimelineInit ==
    /\ posts = {} /\ comments = {} /\ members = {} /\ rows = {}
    /\ next_post = 1 /\ next_comment = 1 /\ sends = 0
    /\ deleting = {} /\ faults = 0
    /\ talked = {} /\ erased = {}

\* create_post, on the own timeline or on another user's wall.
create_post(u, wall) ==
    /\ Unlocked /\ next_post =< MaxPosts
    /\ posts' = posts \cup {[id |-> next_post, author |-> u, wall |-> wall]}
    /\ next_post' = next_post + 1
    /\ UNCHANGED <<comments, next_comment, deleting, faults, erased, msgVars>>

\* Variant with a fault, for checking the properties: the store without its
\* mutex.
add_comment_unlocked(p, u) ==
    /\ next_comment =< MaxComments
    /\ \E q \in posts : q.id = p
    /\ comments' = comments \cup
                     {[id |-> next_comment, post |-> p, author |-> u]}
    /\ next_comment' = next_comment + 1
    /\ UNCHANGED <<posts, next_post, deleting, faults, erased, msgVars>>

\* add_comment: the foreign key refuses a comment on a post that is not there.
add_comment(p, u) ==
    /\ Unlocked /\ next_comment =< MaxComments
    /\ \E q \in posts : q.id = p
    /\ comments' = comments \cup
                     {[id |-> next_comment, post |-> p, author |-> u]}
    /\ next_comment' = next_comment + 1
    /\ UNCHANGED <<posts, next_post, deleting, faults, erased, msgVars>>

\* delete_post, 1: the comments go, whoever asks.
delete_comments(p, u) ==
    /\ Unlocked
    /\ comments' = {c \in comments : c.post # p}
    /\ deleting' = {[post |-> p, by |-> u]}
    /\ erased' = erased \cup
                   {[by |-> u, author |-> q.author] :
                       q \in {x \in posts : x.id = p
                                /\ \E c \in comments : c.post = p}}
    /\ UNCHANGED <<posts, next_post, next_comment, faults, msgVars>>

\* The post that a call is to delete, if it is the caller's.
Own(w) == {q \in posts : q.id = w.post /\ q.author = w.by}

\* delete_post, 2: the post goes if it is the caller's, unless the foreign key
\* refuses that, which the call answers as an error; the lock is released.
delete_own_post ==
    \E w \in deleting :
        /\ posts' = IF \E c \in comments : c.post = w.post THEN posts
                    ELSE posts \ Own(w)
        /\ deleting' = {}
        /\ UNCHANGED <<comments, next_post, next_comment, faults, erased,
                       msgVars>>

\* The process dies between the two statements, or the second fails.
abandon_delete ==
    /\ deleting # {} /\ faults < MaxFaults
    /\ deleting' = {}
    /\ faults' = faults + 1
    /\ UNCHANGED <<posts, comments, next_post, next_comment, erased, msgVars>>

\* join_group and leave_group, for the one group.
join_group(u) ==
    /\ Unlocked /\ u \notin members
    /\ members' = members \cup {u}
    /\ UNCHANGED <<posts, comments, next_post, next_comment, deleting, faults,
                   erased, rows, sends, talked>>

leave_group(u) ==
    /\ Unlocked /\ u \in members
    /\ members' = members \ {u}
    /\ UNCHANGED <<posts, comments, next_post, next_comment, deleting, faults,
                   erased, rows, sends, talked>>

\* A message is sent.
send(u, v) ==
    /\ Unlocked /\ sends < MaxMessages
    /\ rows' = rows \cup {[from |-> u, to |-> v, message |-> TRUE]}
    /\ sends' = sends + 1
    /\ talked' = talked \cup {{u, v}}
    /\ UNCHANGED <<posts, comments, next_post, next_comment, deleting, faults,
                   erased, members>>

\* The receipt row for row r.
receipt_row(r) == [from |-> r.to, to |-> r.from, message |-> FALSE]

\* Messages are fetched: deleted, and delivery receipts queued.
fetch(u) ==
    /\ Unlocked /\ \E r \in rows : r.to = u
    /\ rows' = {r \in rows : r.to # u}
                 \cup {receipt_row(r) : r \in {x \in rows : x.to = u /\ x.message}}
    /\ UNCHANGED <<posts, comments, next_post, next_comment, deleting, faults,
                   erased, members, sends, talked>>

\* Variant with a fault, for checking the properties: the members of groups
\* the user is not in.
contacts_of_all_groups(u) ==
    members
    \cup {r.from : r \in {x \in rows : x.to = u}}
    \cup {r.to : r \in {x \in rows : x.from = u}}

\* The users whose posts get_timeline(u) selects.
contacts(u) ==
    (IF u \in members THEN members ELSE {})
    \cup {r.from : r \in {x \in rows : x.to = u}}
    \cup {r.to : r \in {x \in rows : x.from = u}}

\* get_timeline: own posts, posts of contacts, posts on the own wall.
get_timeline(u) ==
    {p \in posts : p.author = u \/ p.author \in contacts(u) \/ u \in p.wall}

PostIds == 1..MaxPosts

TimelineNext ==
    \/ \E u \in Users :
        \/ create_post(u, {}) \/ \E v \in Users : create_post(u, {v})
        \/ \E p \in PostIds : add_comment(p, u) \/ delete_comments(p, u)
        \/ join_group(u) \/ leave_group(u) \/ fetch(u)
        \/ \E v \in Users : send(u, v)
    \/ delete_own_post \/ abandon_delete

TimelineSpec == TimelineInit /\ [][TimelineNext]_timelineVars
-----------------------------------------------------------------------------
TimelineTypeOK ==
    /\ posts \subseteq [id : PostIds, author : Users, wall : SUBSET Users]
    /\ comments \subseteq [id : 1..MaxComments, post : PostIds, author : Users]
    /\ members \subseteq Users
    /\ next_post \in 1..(MaxPosts + 1) /\ next_comment \in 1..(MaxComments + 1)
    /\ rows \subseteq [from : Users, to : Users, message : BOOLEAN]
    /\ sends \in 0..MaxMessages /\ faults \in 0..MaxFaults
    /\ deleting \subseteq [post : PostIds, by : Users]
    /\ talked \subseteq SUBSET Users
    /\ erased \subseteq [by : Users, author : Users]

(***************************************************************************)
(* DeletedWhole: a post is removed by a call of its author only, and such  *)
(* a call, unless a fault cuts it off, does remove it: no comment comes in *)
(* between its two statements, for which the foreign key would refuse the  *)
(* second and leave the post with that comment and without the others.     *)
(***************************************************************************)
DeleteStep ==
    /\ \A q \in posts \ posts' : \E w \in deleting : q \in Own(w)
    /\ \A w \in deleting \ deleting' :
         faults' = faults => posts' \cap Own(w) = {}

DeletedWhole == [][DeleteStep]_timelineVars

(***************************************************************************)
(* StrangersUnseen: a user's timeline shows a post only to its author, to  *)
(* the owner of the wall it is on, to users who are in a group with the    *)
(* author, and to users who have exchanged a message with the author: the  *)
(* receipt rows that fetching creates make no contacts of their own.       *)
(***************************************************************************)
StrangersUnseen ==
    \A u \in Users : \A p \in get_timeline(u) :
        \/ p.author = u \/ u \in p.wall
        \/ {u, p.author} \subseteq members
        \/ {u, p.author} \in talked

(***************************************************************************)
(* CommentsDeletedByAuthor: "Delete a post (owner only)" (delete_post):    *)
(* nobody but the author of a post can remove what hangs on it.            *)
(***************************************************************************)
CommentsDeletedByAuthor == \A e \in erased : e.by = e.author
=============================================================================
