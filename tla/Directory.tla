----------------------------- MODULE Directory -----------------------------
(***************************************************************************)
(* The relay's directory of users: key bundles, presence and stories, with *)
(* the client processes that register, ask and leave.                      *)
(*                                                                         *)
(* A user may run several processes, each over its own connection.  Every  *)
(* process has keys of its own, made when it starts.  A command is one     *)
(* round trip; the handlers that read the clock do so before they take the *)
(* store's lock, which makes them two steps.  Leaving, by /quit or by a    *)
(* crash, tells the relay nothing.                                         *)
(***************************************************************************)
EXTENDS Store, Integers, FiniteSets

CONSTANTS Procs,
          Owner,      \* [Procs -> Users]
          Day,        \* the life of a story, in ticks (86400 s in store.rs)
          MaxTime,    \* bound: the last tick
          MaxStarts,  \* bound: processes started
          MaxStories  \* bound: stories posted

ASSUME DirectoryAssumption ==
    /\ Owner \in [Procs -> Users]
    /\ Day \in Nat \ {0}
    /\ {MaxTime, MaxStarts, MaxStories, MaxFaults} \subseteq Nat

VARIABLES users,     \* table users: [user, keys, presence]
          statuses,  \* table statuses: [user, story, at]
          phase,     \* [Procs -> {"down", "starting", "prompt", "busy"}]
          keys,      \* [Procs -> the identity and pre-key of the process]
          job,       \* [Procs -> the handler under way: its clock reading]
          clock, starts, stories,
          \* history, read by no action of the program:
          alone,     \* processes that are their user's only one since they started
          asked,     \* processes whose last presence command was /online
          answer     \* the answer to /stories given in the last step, the rows
                     \* that were read for it, and the time before and after

directoryVars ==
    <<users, statuses, phase, keys, job, clock, starts, stories, faults, alone,
      asked, answer>>

NoKeys == 0
Outcomes == {"ok", "refused", "lost"}
Idle == [do |-> "none"]
NoAnswer == [shown |-> {}, rows |-> {}, from |-> 0, to |-> 0]

DirectoryInit ==
    /\ users = {} /\ statuses = {}
    /\ phase = [c \in Procs |-> "down"]
    /\ keys = [c \in Procs |-> NoKeys]
    /\ job = [c \in Procs |-> Idle]
    /\ clock = 0 /\ starts = 0 /\ stories = 0 /\ faults = 0
    /\ alone = {} /\ asked = {}
    /\ answer = NoAnswer

Fault(out) ==
    /\ out = "ok" \/ faults < MaxFaults
    /\ faults' = IF out = "ok" THEN faults ELSE faults + 1

tables == <<users, statuses>>
-----------------------------------------------------------------------------
(***************************************************************************)
(* Starting and leaving.                                                   *)
(***************************************************************************)
\* The other processes of the same user.
Others(c) == {d \in Procs \ {c} : Owner[d] = Owner[c]}

\* TinTinClient::new: fresh keys.
start(c) ==
    /\ phase[c] = "down" /\ job[c] = Idle /\ starts < MaxStarts
    /\ starts' = starts + 1
    /\ phase' = [phase EXCEPT ![c] = "starting"]
    /\ keys' = [keys EXCEPT ![c] = starts + 1]
    /\ alone' = (alone \ Others(c))
                    \cup (IF \A d \in Others(c) : phase[d] = "down"
                          THEN {c} ELSE {})
    /\ UNCHANGED <<tables, job, clock, stories, faults, asked>>

\* Variant with a fault, for checking the properties: a user who comes back
\* keeps the presence.
register_user_upsert(u, k) ==
    {r \in users : r.user # u}
        \cup {[user |-> u, keys |-> k,
               presence |-> IF \E r \in users : r.user = u /\ r.presence = "online"
                            THEN "online" ELSE "offline"]}

\* INSERT OR REPLACE: the row is a new one, its presence the default.
register_user(u, k) ==
    {r \in users : r.user # u}
        \cup {[user |-> u, keys |-> k, presence |-> "offline"]}

handle_register(c, out) ==
    users' = IF out = "refused" THEN users ELSE register_user(Owner[c], keys[c])

\* Variant with a fault, for checking the properties: the client goes on
\* whatever the answer.
register_unchecked(c, out) ==
    /\ phase[c] = "starting" /\ Fault(out)
    /\ handle_register(c, out)
    /\ phase' = [phase EXCEPT ![c] = "prompt"]
    /\ UNCHANGED <<statuses, keys, job, clock, starts, stories, alone, asked>>

\* connect and register: without the server's "ok" the program ends.
register(c, out) ==
    /\ phase[c] = "starting" /\ Fault(out)
    /\ handle_register(c, out)
    /\ phase' = [phase EXCEPT ![c] = IF out = "ok" THEN "prompt" ELSE "down"]
    /\ keys' = [keys EXCEPT ![c] = IF out = "ok" THEN @ ELSE NoKeys]
    /\ alone' = IF out = "ok" THEN alone ELSE alone \ {c}
    /\ UNCHANGED <<statuses, job, clock, starts, stories, asked>>

\* /quit, or a crash: the process and its keys are gone, and the relay is told
\* nothing.  A handler under way goes on without its client.
leave(c) ==
    /\ phase[c] # "down"
    /\ phase' = [phase EXCEPT ![c] = "down"]
    /\ keys' = [keys EXCEPT ![c] = NoKeys]
    /\ alone' = alone \ {c} /\ asked' = asked \ {c}
    /\ UNCHANGED <<tables, job, clock, starts, stories, faults>>
-----------------------------------------------------------------------------
(***************************************************************************)
(* Presence.                                                               *)
(***************************************************************************)
\* UPDATE users SET presence: a user without a row stays without.
set_presence(u, p) ==
    {IF r.user = u THEN [r EXCEPT !.presence = p] ELSE r : r \in users}

handle_set_presence(c, p, out) ==
    users' = IF out = "refused" THEN users ELSE set_presence(Owner[c], p)

\* /online, /offline and /away.
set_my_presence(c, p, out) ==
    /\ phase[c] = "prompt" /\ Fault(out)
    /\ handle_set_presence(c, p, out)
    /\ asked' = IF out = "refused" THEN asked
                ELSE IF p = "online" THEN asked \cup {c} ELSE asked \ {c}
    /\ UNCHANGED <<statuses, phase, keys, job, clock, starts, stories, alone>>
-----------------------------------------------------------------------------
(***************************************************************************)
(* Stories.                                                                *)
(***************************************************************************)
\* A handler takes the time and then waits for the lock.
ReadClock(c, j) ==
    /\ phase[c] = "prompt"
    /\ phase' = [phase EXCEPT ![c] = "busy"]
    /\ job' = [job EXCEPT ![c] = j]

\* /story, 1.
set_status(c) ==
    /\ stories < MaxStories /\ stories' = stories + 1
    /\ ReadClock(c, [do |-> "set", story |-> stories + 1, at |-> clock])
    /\ UNCHANGED <<tables, keys, clock, starts, faults, alone, asked>>

\* The handler is over and its client at the prompt again, or gone.
Answered(c) ==
    /\ job' = [job EXCEPT ![c] = Idle]
    /\ phase' = [phase EXCEPT ![c] = IF @ = "busy" THEN "prompt" ELSE @]

\* INSERT OR REPLACE: one story per user.
StatusRows(u, story, at) ==
    {s \in statuses : s.user # u}
        \cup {[user |-> u, story |-> story, at |-> at]}

\* /story, 2: the row, or a failing statement.
insert_status(c, ok) ==
    /\ job[c].do = "set"
    /\ Fault(IF ok THEN "ok" ELSE "refused")
    /\ statuses' = IF ~ok THEN statuses
                   ELSE StatusRows(Owner[c], job[c].story, job[c].at)
    /\ Answered(c)
    /\ UNCHANGED <<users, keys, clock, starts, stories, alone, asked>>

\* DELETE FROM statuses.
clear_status(u) == {s \in statuses : s.user # u}

handle_clear_status(c, out) ==
    statuses' = IF out = "refused" THEN statuses ELSE clear_status(Owner[c])

\* /clearstory.
clear_story(c, out) ==
    /\ phase[c] = "prompt" /\ Fault(out)
    /\ handle_clear_status(c, out)
    /\ UNCHANGED <<users, phase, keys, job, clock, starts, stories, alone, asked>>

\* /stories, 1: the cutoff.
get_stories(c) ==
    /\ ReadClock(c, [do |-> "get", cutoff |-> clock - Day, asked |-> clock])
    /\ UNCHANGED <<tables, keys, clock, starts, stories, faults, alone, asked>>

\* Variant with a fault, for checking the properties: the boundary is kept.
Active_inclusive(cutoff) == {s \in statuses : s.at >= cutoff}

\* get_active_statuses: WHERE created_at > cutoff.
Active(cutoff) == {s \in statuses : s.at > cutoff}

\* /stories, 2: the rows, of every user, whoever asks.  One that cannot be
\* read is passed over (`filter_map(|r| r.ok())').
select_statuses(c, unread) ==
    /\ job[c].do = "get"
    /\ Fault(IF unread = {} THEN "ok" ELSE "refused")
    /\ answer' = [shown |-> Active(job[c].cutoff) \ unread,
                  rows |-> statuses \ unread,
                  from |-> job[c].asked, to |-> clock]
    /\ Answered(c)
    /\ UNCHANGED <<tables, keys, clock, starts, stories, alone, asked>>

tick ==
    /\ clock < MaxTime /\ clock' = clock + 1
    /\ UNCHANGED <<tables, phase, keys, job, starts, stories, faults, alone,
                   asked>>

Step ==
    \/ tick
    \/ \E c \in Procs :
        \/ start(c) \/ leave(c)
        \/ set_status(c) \/ get_stories(c)
        \/ \E ok \in BOOLEAN : insert_status(c, ok)
        \/ \E out \in Outcomes :
            \/ register(c, out) \/ clear_story(c, out)
            \/ \E p \in {"online", "offline"} : set_my_presence(c, p, out)

DirectoryNext ==
    \/ Step /\ answer' = NoAnswer
    \/ \E c \in Procs, unread \in SUBSET statuses : select_statuses(c, unread)

DirectorySpec == DirectoryInit /\ [][DirectoryNext]_directoryVars
-----------------------------------------------------------------------------
\* What the relay answers to fetch_keys and list_users.
get_key_bundle(u) == {r.keys : r \in {x \in users : x.user = u}}
list_users == {<<r.user, r.presence>> : r \in users}

AtPrompt(c) == phase[c] \in {"prompt", "busy"}

Story == [user : Users, story : 1..MaxStories, at : 0..MaxTime]

DirectoryTypeOK ==
    /\ users \subseteq [user : Users, keys : 1..MaxStarts,
                        presence : {"online", "offline"}]
    /\ \A q, r \in users : q.user = r.user => q = r
    /\ statuses \subseteq Story
    /\ \A q, r \in statuses : q.user = r.user => q = r
    /\ phase \in [Procs -> {"down", "starting", "prompt", "busy"}]
    /\ keys \in [Procs -> 0..MaxStarts]
    /\ \A c \in Procs :
        /\ job[c].do \in {"none", "set", "get"}
        /\ phase[c] = "busy" => job[c] # Idle
    /\ clock \in 0..MaxTime /\ starts \in 0..MaxStarts
    /\ stories \in 0..MaxStories /\ faults \in 0..MaxFaults
    /\ alone \subseteq Procs /\ asked \subseteq Procs

(***************************************************************************)
(* ServedKeysAreOwn: a process that got to the prompt and has been its     *)
(* user's only one is the one whose keys the relay hands out, although     *)
(* every process makes new keys and earlier ones left theirs behind.       *)
(***************************************************************************)
ServedKeysAreOwn ==
    \A c \in alone : AtPrompt(c) => get_key_bundle(Owner[c]) = {keys[c]}

(***************************************************************************)
(* PresenceIsOwn: such a process's user is listed as online exactly if     *)
(* that process said so: leaving tells the relay nothing, so what an       *)
(* earlier process said must be undone by the registration of the next.    *)
(***************************************************************************)
PresenceIsOwn ==
    \A c \in alone : AtPrompt(c) =>
        (<<Owner[c], "online">> \in list_users <=> c \in asked)

(***************************************************************************)
(* StoriesExact: of the rows of the table that can be read, an answer to   *)
(* /stories has every story that was less than a day old all the time, and *)
(* none that was a day old already when the question came, although the    *)
(* clock is read before the table is locked, both for posting and for      *)
(* asking.  It makes no difference whose stories they are: nothing in the  *)
(* code narrows them to the contacts of the user who asks.                 *)
(***************************************************************************)
StoriesExact ==
    /\ {s \in answer.rows : s.at + Day > answer.to} \subseteq answer.shown
    /\ \A s \in answer.shown : s.at + Day > answer.from
=============================================================================
