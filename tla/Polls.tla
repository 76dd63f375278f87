------------------------------- MODULE Polls --------------------------------
(***************************************************************************)
(* Polls: the tables polls, poll_options and poll_votes of store.rs, the   *)
(* server's handlers and the client's /poll commands.                      *)
(*                                                                         *)
(* Tables are sets of rows.  create_poll is one INSERT for the poll and    *)
(* one per option, each committed by itself under the store's mutex:       *)
(* `creating' holds the poll being inserted and the options still due.     *)
(* The process can die, or a statement fail, between two of them.  The     *)
(* other operations write at most one row, after reads under the same      *)
(* lock, and are one step each.                                            *)
(***************************************************************************)
EXTENDS Store, Integers, FiniteSets, FiniteSetsExt

CONSTANTS MaxPolls,     \* bound: polls created
          MaxOptions    \* bound: options of one poll

ASSUME PollsAssumption == {MaxPolls, MaxOptions, MaxFaults} \subseteq Nat

VARIABLES polls,      \* table: [id, creator, active]
          options,    \* table: [id, poll, number], number: position in the poll
          votes,      \* table: [poll, user, option], key (poll, user)
          next_poll, next_option,   \* AUTOINCREMENT counters
          creating,   \* {} or {[poll, done, count]}: create_poll under way
          meant       \* history: [poll, user, number] the voter last asked for

pollsVars ==
    <<polls, options, votes, next_poll, next_option, creating, faults, meant>>

Poll(p) == {q \in polls : q.id = p}
OptionsOf(p) == {o \in options : o.poll = p}
MutexFree == creating = {}

PollsInit ==
    /\ polls = {} /\ options = {} /\ votes = {}
    /\ next_poll = 1 /\ next_option = 1
    /\ creating = {} /\ faults = 0 /\ meant = {}

\* Variant with a fault, for checking the properties: a second create_poll may
\* run beside the first.
create_poll_unlocked(u, count) ==
    /\ next_poll =< MaxPolls
    /\ count >= 2
    /\ polls' = polls \cup {[id |-> next_poll, creator |-> u, active |-> TRUE]}
    /\ next_poll' = next_poll + 1
    /\ creating' = {[poll |-> next_poll, done |-> 0, count |-> count]} \cup creating
    /\ UNCHANGED <<options, votes, next_option, faults, meant>>

\* create_poll, the poll row; handle_create_poll refuses fewer than 2 options.
create_poll(u, count) ==
    /\ MutexFree /\ next_poll =< MaxPolls
    /\ count >= 2
    /\ polls' = polls \cup {[id |-> next_poll, creator |-> u, active |-> TRUE]}
    /\ next_poll' = next_poll + 1
    /\ creating' = {[poll |-> next_poll, done |-> 0, count |-> count]}
    /\ UNCHANGED <<options, votes, next_option, faults, meant>>

\* Variant with a fault, for checking the properties: the lock is released
\* after each row.
insert_option_unlocked ==
    \E w \in creating :
        /\ options' = options \cup
                        {[id |-> next_option, poll |-> w.poll,
                          number |-> w.done + 1]}
        /\ next_option' = next_option + 1
        /\ creating' = {}
        /\ UNCHANGED <<polls, votes, next_poll, faults, meant>>

\* create_poll, one option row; after the last the lock is released.
insert_option ==
    \E w \in creating :
        /\ options' = options \cup
                        {[id |-> next_option, poll |-> w.poll,
                          number |-> w.done + 1]}
        /\ next_option' = next_option + 1
        /\ creating' = (creating \ {w}) \cup
                         (IF w.done + 1 = w.count THEN {}
                          ELSE {[w EXCEPT !.done = @ + 1]})
        /\ UNCHANGED <<polls, votes, next_poll, faults, meant>>

\* The process dies between two statements, or an INSERT fails and `?' returns.
abandon_create ==
    /\ creating # {} /\ faults < MaxFaults
    /\ creating' = {}
    /\ faults' = faults + 1
    /\ UNCHANGED <<polls, options, votes, next_poll, next_option, meant>>

\* Variant with a fault, for checking the properties: options of any poll.
may_vote_any_option(p, o) ==
    /\ \E q \in Poll(p) : q.active
    /\ \E x \in options : x.id = o

\* Variant with a fault, for checking the properties: closed polls too.
may_vote_when_closed(p, o) ==
    \E x \in options : x.id = o /\ x.poll = p

\* What vote_poll checks before it writes.
may_vote(p, o) ==
    /\ \E q \in Poll(p) : q.active
    /\ \E x \in options : x.id = o /\ x.poll = p

\* Variant with a fault, for checking the properties: the key is (poll, user,
\* option).
insert_vote(p, u, o) == votes \cup {[poll |-> p, user |-> u, option |-> o]}

\* INSERT OR REPLACE: the key (poll, user) admits one vote.
upsert_vote(p, u, o) ==
    {v \in votes : ~(v.poll = p /\ v.user = u)}
        \cup {[poll |-> p, user |-> u, option |-> o]}

(***************************************************************************)
(* /poll vote <id> <number>: the client sends the number as option_id.     *)
(* `meant' records the option that stands at that number in the poll as it *)
(* was displayed ("Vote with: /poll vote {} <number>").                    *)
(***************************************************************************)
vote_poll(p, u, number) ==
    /\ MutexFree /\ may_vote(p, number)
    /\ votes' = upsert_vote(p, u, number)
    /\ meant' = {m \in meant : ~(m.poll = p /\ m.user = u)}
                    \cup {[poll |-> p, user |-> u, number |-> number]}
    /\ UNCHANGED <<polls, options, next_poll, next_option, creating, faults>>

\* close_poll: only the creator's request changes the row.
close_poll(p, u) ==
    /\ MutexFree
    /\ \E q \in Poll(p) :
         /\ q.creator = u
         /\ polls' = (polls \ {q}) \cup {[q EXCEPT !.active = FALSE]}
    /\ UNCHANGED <<options, votes, next_poll, next_option, creating, faults,
                   meant>>

\* The counts of poll_results: votes are joined on option_id alone.
poll_results(p) ==
    [o \in OptionsOf(p) |-> Cardinality({v \in votes : v.option = o.id})]

\* list_active_polls.
list_active_polls == {p.id : p \in {q \in polls : q.active}}

PollIds == 1..MaxPolls
OptionIds == 1..(MaxPolls * MaxOptions)

PollsNext ==
    \/ \E u \in Users, count \in 0..MaxOptions : create_poll(u, count)
    \/ insert_option \/ abandon_create
    \/ \E p \in PollIds, u \in Users, n \in OptionIds : vote_poll(p, u, n)
    \/ \E p \in PollIds, u \in Users : close_poll(p, u)

PollsSpec == PollsInit /\ [][PollsNext]_pollsVars
-----------------------------------------------------------------------------
PollsTypeOK ==
    /\ polls \subseteq [id : Nat, creator : Users, active : BOOLEAN]
    /\ options \subseteq [id : Nat, poll : Nat, number : Nat]
    /\ votes \subseteq [poll : Nat, user : Users, option : Nat]
    /\ next_poll \in Nat \ {0} /\ next_option \in Nat \ {0}
    /\ creating \subseteq [poll : Nat, done : Nat, count : Nat]
    /\ faults \in Nat
    /\ meant \subseteq [poll : Nat, user : Users, number : Nat]

(***************************************************************************)
(* VoteCounted: every vote is for an option of its own poll, a user has at *)
(* most one vote in a poll, and the rows the join of poll_results counts   *)
(* for an option are votes of that option's poll, although the join does   *)
(* not compare poll ids.                                                   *)
(***************************************************************************)
VoteCounted ==
    /\ \A v \in votes : \E o \in OptionsOf(v.poll) : o.id = v.option
    /\ \A v, w \in votes : v.poll = w.poll /\ v.user = w.user => v = w
    /\ \A o \in options, v \in votes : v.option = o.id => v.poll = o.poll

(***************************************************************************)
(* ResultsSound: the counts poll_results reports for a poll add up to the  *)
(* number of users who voted in it.                                        *)
(***************************************************************************)
ResultsSound ==
    \A p \in PollIds :
        MapThenSumSet(LAMBDA o : poll_results(p)[o], OptionsOf(p))
            = Cardinality({v.user : v \in {w \in votes : w.poll = p}})

(***************************************************************************)
(* ClosedFrozen: from the moment a poll is closed its votes and options    *)
(* never change and it is never opened again ("vote on closed poll" must   *)
(* fail, server tests).                                                    *)
(***************************************************************************)
ClosedFrozen ==
    [][\A q \in polls : ~q.active =>
        /\ \A r \in polls' : r.id = q.id => ~r.active
        /\ {v \in votes' : v.poll = q.id} = {v \in votes : v.poll = q.id}
        /\ {o \in options' : o.poll = q.id} = OptionsOf(q.id)]_pollsVars

(***************************************************************************)
(* ListedComplete: "Poll must have at least 2 options"                     *)
(* (handle_create_poll): a poll the server lists has them, because the     *)
(* store's mutex hides the INSERTs of create_poll from every other         *)
(* handler.  Only a fault between two of them leaves less: the INSERTs are *)
(* not in one transaction.                                                 *)
(***************************************************************************)
ListedComplete ==
    MutexFree =>
        Cardinality({p \in list_active_polls : Cardinality(OptionsOf(p)) < 2})
            =< faults

(***************************************************************************)
(* VoteOffset: "Vote with: /poll vote {} <number>" (display_decrypted),    *)
(* but vote_poll sends the number as a row id of poll_options.  The vote   *)
(* lands on the option displayed that many places before as the options of *)
(* older polls are many: on the right one in the first poll, on another or *)
(* on none (may_vote refuses it) in the later ones, never on the option of *)
(* some other poll, also when crashes left older polls incomplete.         *)
(***************************************************************************)
VoteOffset ==
    \A v \in votes, m \in meant : v.poll = m.poll /\ v.user = m.user =>
        LET older == Cardinality({o \in options : o.poll < v.poll})
        IN \E o \in OptionsOf(v.poll) :
              o.id = v.option /\ o.number = m.number - older
=============================================================================
