---------------------------- MODULE StoreProofs -----------------------------
(***************************************************************************)
(* Theorems about the tables of store.rs: Polls, Timeline and Directory,   *)
(* for any users, rows, clocks and faults.  The three specifications share *)
(* the users and nothing else; each part of this module is about one.      *)
(***************************************************************************)
EXTENDS Polls, Timeline, Directory, FiniteSetTheorems, WellFoundedInduction, TLAPS

(***************************************************************************)
(*                                 Polls                                   *)
(***************************************************************************)

(***************************************************************************)
(* The keys of the tables: AUTOINCREMENT gives every poll and every option *)
(* an id of its own.                                                       *)
(***************************************************************************)
PollKeys ==
    /\ \A q \in polls : q.id < next_poll
    /\ \A q, r \in polls : q.id = r.id => q = r
OptionKeys ==
    /\ \A o \in options : o.id < next_option
    /\ \A o, x \in options : o.id = x.id => o = x

\* The poll that create_poll is filling is open, and there is only one.
CreatingOpen ==
    /\ \A w, x \in creating : w = x
    /\ \A w \in creating : \E q \in polls : q.id = w.poll /\ q.active

PollsInv == PollsTypeOK /\ PollKeys /\ OptionKeys /\ CreatingOpen /\ VoteCounted
-----------------------------------------------------------------------------
\* PollsTypeStep: every statement keeps the tables well formed.
LEMMA PollsTypeStep == PollsTypeOK /\ [PollsNext]_pollsVars => PollsTypeOK'
<1> SUFFICES ASSUME PollsTypeOK, [PollsNext]_pollsVars PROVE PollsTypeOK'
    OBVIOUS
<1> USE PollsAssumption
<1>1. ASSUME NEW u \in Users, NEW n \in 0..MaxOptions, create_poll(u, n)
      PROVE  PollsTypeOK'
  <2>1. [id |-> next_poll, creator |-> u, active |-> TRUE]
          \in [id : Nat, creator : Users, active : BOOLEAN]
      BY DEF PollsTypeOK
  <2>2. [poll |-> next_poll, done |-> 0, count |-> n]
          \in [poll : Nat, done : Nat, count : Nat]
      BY DEF PollsTypeOK
  <2>3. polls' \subseteq [id : Nat, creator : Users, active : BOOLEAN]
      BY <1>1, <2>1, Zenon DEF create_poll, PollsTypeOK
  <2>4. creating' \subseteq [poll : Nat, done : Nat, count : Nat]
      BY <1>1, <2>2, Zenon DEF create_poll
  <2> QED
      BY <1>1, <2>3, <2>4 DEF create_poll, PollsTypeOK
<1>2. ASSUME insert_option PROVE PollsTypeOK'
    BY <1>2 DEF insert_option, PollsTypeOK
<1>3. ASSUME abandon_create PROVE PollsTypeOK'
    BY <1>3 DEF abandon_create, PollsTypeOK
<1>4. ASSUME NEW p \in PollIds, NEW u \in Users, NEW n \in OptionIds,
             vote_poll(p, u, n)
      PROVE  PollsTypeOK'
  <2>1. p \in Nat /\ n \in Nat
      BY DEF PollIds, OptionIds
  <2> QED
      BY <1>4, <2>1 DEF vote_poll, upsert_vote, PollsTypeOK
<1>5. ASSUME NEW p \in PollIds, NEW u \in Users, close_poll(p, u)
      PROVE  PollsTypeOK'
    BY <1>5 DEF close_poll, Poll, PollsTypeOK
<1>6. CASE UNCHANGED pollsVars
    BY <1>6 DEF pollsVars, PollsTypeOK
<1> QED
    BY <1>1, <1>2, <1>3, <1>4, <1>5, <1>6 DEF PollsNext

\* PollsInvStep: every statement keeps the keys unique and the votes in their poll.
LEMMA PollsInvStep == PollsInv /\ [PollsNext]_pollsVars => PollsInv'
<1> SUFFICES ASSUME PollsInv, [PollsNext]_pollsVars PROVE PollsInv'
    OBVIOUS
<1> USE PollsAssumption
<1>0. PollsTypeOK /\ PollKeys /\ OptionKeys /\ CreatingOpen /\ VoteCounted /\ PollsTypeOK'
    BY PollsTypeStep DEF PollsInv
<1> DEFINE Goal == PollKeys' /\ OptionKeys' /\ CreatingOpen' /\ VoteCounted'
<1>1. ASSUME NEW u \in Users, NEW n \in 0..MaxOptions, create_poll(u, n)
      PROVE  Goal
  <2>1. PollKeys'
      BY <1>0, <1>1 DEF create_poll, PollKeys, PollsTypeOK
  <2>2. CreatingOpen'
    <3> DEFINE q == [id |-> next_poll, creator |-> u, active |-> TRUE]
               w == [poll |-> next_poll, done |-> 0, count |-> n]
    <3>1. q \in polls' /\ q.id = w.poll /\ q.active /\ creating' = {w}
        BY <1>1 DEF create_poll
    <3> QED
        BY <3>1, Zenon DEF CreatingOpen
  <2>3. OptionKeys' /\ VoteCounted'
      BY <1>0, <1>1 DEF create_poll, OptionKeys, VoteCounted, OptionsOf
  <2> QED
      BY <2>1, <2>2, <2>3
<1>2. ASSUME insert_option PROVE Goal
  <2>1. PICK w \in creating :
          /\ options' = options \cup {[id |-> next_option, poll |-> w.poll,
                                       number |-> w.done + 1]}
          /\ next_option' = next_option + 1
          /\ creating' = (creating \ {w}) \cup
                           (IF w.done + 1 = w.count THEN {}
                            ELSE {[w EXCEPT !.done = @ + 1]})
          /\ UNCHANGED <<polls, votes, next_poll, faults, meant>>
      BY <1>2 DEF insert_option
  <2> DEFINE o == [id |-> next_option, poll |-> w.poll, number |-> w.done + 1]
  <2>2. o.id = next_option /\ o.poll = w.poll /\ options' = options \cup {o}
      BY <2>1
  <2> HIDE DEF o
  <2>3. OptionKeys'
      BY <1>0, <2>1, <2>2 DEF OptionKeys, PollsTypeOK
  <2>4. CreatingOpen'
      BY <1>0, <2>1 DEF CreatingOpen, PollsTypeOK
  <2>5. PollKeys'
      BY <1>0, <2>1 DEF PollKeys
  <2>6. \A v \in votes : v.option # o.id
      BY <1>0, <2>2 DEF VoteCounted, OptionsOf, OptionKeys, PollsTypeOK
  <2>7. VoteCounted'
      BY <1>0, <2>1, <2>2, <2>6 DEF VoteCounted, OptionsOf
  <2> QED
      BY <2>3, <2>4, <2>5, <2>7
<1>3. ASSUME abandon_create PROVE Goal
    BY <1>0, <1>3 DEF abandon_create, PollKeys, OptionKeys, CreatingOpen,
                      VoteCounted, OptionsOf
<1>4. ASSUME NEW p \in PollIds, NEW u \in Users, NEW n \in OptionIds,
             vote_poll(p, u, n)
      PROVE  Goal
  <2>1. PollKeys' /\ OptionKeys' /\ CreatingOpen'
      BY <1>0, <1>4 DEF vote_poll, PollKeys, OptionKeys, CreatingOpen
  <2>2. PICK x \in options : x.id = n /\ x.poll = p
      BY <1>4 DEF vote_poll, may_vote
  <2> DEFINE v == [poll |-> p, user |-> u, option |-> n]
  <2>3. v.poll = p /\ v.user = u /\ v.option = n
      OBVIOUS
  <2>4. votes' = {w \in votes : ~(w.poll = p /\ w.user = u)} \cup {v}
      BY <1>4 DEF vote_poll, upsert_vote
  <2> HIDE DEF v
  <2>5. options' = options
      BY <1>4 DEF vote_poll
  <2>6. \A o \in options : o.id = n => o.poll = p
      BY <1>0, <2>2 DEF OptionKeys
  <2>7. VoteCounted'
      BY <1>0, <2>2, <2>3, <2>4, <2>5, <2>6 DEF VoteCounted, OptionsOf
  <2> QED
      BY <2>1, <2>7
<1>5. ASSUME NEW p \in PollIds, NEW u \in Users, close_poll(p, u)
      PROVE  Goal
  <2>1. PICK q \in Poll(p) :
          polls' = (polls \ {q}) \cup {[q EXCEPT !.active = FALSE]}
      BY <1>5 DEF close_poll
  <2> DEFINE z == [q EXCEPT !.active = FALSE]
  <2>2. q \in polls /\ z.id = q.id
      BY <1>0, <2>1 DEF Poll, PollsTypeOK
  <2>3. PollKeys'
      BY <1>0, <1>5, <2>1, <2>2 DEF close_poll, PollKeys
  <2>4. creating = {} /\ creating' = {}
      BY <1>5 DEF close_poll, MutexFree
  <2>5. OptionKeys' /\ VoteCounted' /\ CreatingOpen'
      BY <1>0, <1>5, <2>4 DEF close_poll, OptionKeys, VoteCounted, OptionsOf,
                              CreatingOpen
  <2> QED
      BY <2>3, <2>5
<1>6. ASSUME UNCHANGED pollsVars PROVE Goal
    BY <1>0, <1>6 DEF pollsVars, PollKeys, OptionKeys, CreatingOpen, VoteCounted,
                      OptionsOf
<1>7. Goal
    BY <1>1, <1>2, <1>3, <1>4, <1>5, <1>6 DEF PollsNext
<1> QED
    BY <1>0, <1>7 DEF PollsInv

\* The inductive invariant holds in every reachable state.
LEMMA PollsInductive == PollsSpec => []PollsInv
<1>1. PollsInit => PollsInv
    BY DEF PollsInit, PollsInv, PollsTypeOK, PollKeys, OptionKeys, CreatingOpen,
           VoteCounted, OptionsOf
<1> QED
    BY <1>1, PollsInvStep, PTL DEF PollsSpec

(***************************************************************************)
(* VotesStay: votes are for options of their own poll, one per user, and   *)
(* the join of poll_results counts no vote of another poll.                *)
(***************************************************************************)
THEOREM VotesStay == PollsSpec => []VoteCounted
<1>1. PollsInv => VoteCounted
    BY DEF PollsInv
<1> QED
    BY <1>1, PollsInductive, PTL

\* What may not happen to a closed poll in one step.
FrozenStep ==
    \A q \in polls : ~q.active =>
        /\ \A r \in polls' : r.id = q.id => ~r.active
        /\ {v \in votes' : v.poll = q.id} = {v \in votes : v.poll = q.id}
        /\ {o \in options' : o.poll = q.id} = OptionsOf(q.id)

(***************************************************************************)
(* ClosedForGood: a closed poll stays closed, with its votes and options.  *)
(***************************************************************************)
THEOREM ClosedForGood == PollsSpec => ClosedFrozen
<1>1. PollsInv /\ [PollsNext]_pollsVars => [FrozenStep]_pollsVars
  <2> SUFFICES ASSUME PollsInv, PollsNext,
                      NEW q \in polls, ~q.active
               PROVE  /\ \A r \in polls' : r.id = q.id => ~r.active
                      /\ {v \in votes' : v.poll = q.id}
                            = {v \in votes : v.poll = q.id}
                      /\ {o \in options' : o.poll = q.id} = OptionsOf(q.id)
      BY DEF FrozenStep
  <2> DEFINE Goal == /\ \A r \in polls' : r.id = q.id => ~r.active
                     /\ {v \in votes' : v.poll = q.id}
                           = {v \in votes : v.poll = q.id}
                     /\ {o \in options' : o.poll = q.id} = OptionsOf(q.id)
  <2> USE PollsAssumption
  <2>0. PollsTypeOK /\ PollKeys /\ CreatingOpen
      BY DEF PollsInv
  <2>1. ASSUME NEW u \in Users, NEW n \in 0..MaxOptions, create_poll(u, n)
        PROVE  Goal
      BY <2>0, <2>1 DEF create_poll, PollKeys, PollsTypeOK, OptionsOf
  <2>2. ASSUME insert_option PROVE Goal
    <3>1. PICK w \in creating :
            /\ options' = options \cup {[id |-> next_option, poll |-> w.poll,
                                         number |-> w.done + 1]}
            /\ UNCHANGED <<polls, votes>>
        BY <2>2 DEF insert_option
    <3>2. w.poll # q.id
        BY <2>0, <3>1 DEF CreatingOpen, PollKeys
    <3> QED
        BY <2>0, <3>1, <3>2 DEF PollKeys, OptionsOf
  <2>3. ASSUME abandon_create PROVE Goal
      BY <2>0, <2>3 DEF abandon_create, PollKeys, OptionsOf
  <2>4. ASSUME NEW p \in PollIds, NEW u \in Users, NEW n \in OptionIds,
               vote_poll(p, u, n)
        PROVE  Goal
    <3>1. p # q.id
        BY <2>0, <2>4 DEF vote_poll, may_vote, Poll, PollKeys
    <3>2. {v \in votes' : v.poll = q.id} = {v \in votes : v.poll = q.id}
        BY <2>4, <3>1 DEF vote_poll, upsert_vote
    <3> QED
        BY <2>0, <2>4, <3>2 DEF vote_poll, PollKeys, OptionsOf
  <2>5. ASSUME NEW p \in PollIds, NEW u \in Users, close_poll(p, u)
        PROVE  Goal
    <3>1. PICK z \in Poll(p) :
            polls' = (polls \ {z}) \cup {[z EXCEPT !.active = FALSE]}
        BY <2>5 DEF close_poll
    <3>2. ~[z EXCEPT !.active = FALSE].active
        BY <2>0, <3>1 DEF Poll, PollsTypeOK
    <3>3. \A r \in polls' : r.id = q.id => ~r.active
        BY <2>0, <3>1, <3>2 DEF PollKeys
    <3> QED
        BY <2>5, <3>3 DEF close_poll, OptionsOf
  <2> QED
      BY <2>1, <2>2, <2>3, <2>4, <2>5 DEF PollsNext
<1> QED
    BY <1>1, PollsInductive, PTL DEF PollsSpec, ClosedFrozen, FrozenStep
-----------------------------------------------------------------------------
(***************************************************************************)
(* Counting options.  create_poll inserts the options of a poll one after  *)
(* the other and of one poll at a time, so an option's row id is its place *)
(* in its poll plus the options of all older polls.                        *)
(***************************************************************************)
OlderOptions(p) == {o \in options : o.poll < p}

OptionsCounted ==
    IsFiniteSet(options) /\ Cardinality(options) = next_option - 1
Numbered ==
    \A o \in options : /\ o.poll < next_poll
                       /\ o.number = o.id - Cardinality(OlderOptions(o.poll))

\* create_poll fills the newest poll and knows how far it is.
CreatingLast ==
    \A w \in creating :
        /\ w.poll = next_poll - 1 /\ w.done < w.count /\ w.count >= 2
        /\ w.done = next_option - 1 - Cardinality(OlderOptions(w.poll))
        /\ w.done = Cardinality(OptionsOf(w.poll))

\* The option a vote names is the number the voter asked for.
MeantIsSent ==
    \A v \in votes, m \in meant :
        v.poll = m.poll /\ v.user = m.user => v.option = m.number

\* Open polls that are short of options and not being filled: each was left
\* behind by a fault of its own.
Abandoned ==
    {p \in list_active_polls : /\ Cardinality(OptionsOf(p)) < 2
                               /\ \A w \in creating : w.poll # p}
AbandonedByFaults ==
    IsFiniteSet(Abandoned) /\ Cardinality(Abandoned) =< faults

CountInv ==
    OptionsCounted /\ Numbered /\ CreatingLast /\ MeantIsSent /\ AbandonedByFaults

\* A part of a finite set is finite and not larger.
LEMMA PartCount ==
    ASSUME NEW S, NEW T, IsFiniteSet(T), S \subseteq T
    PROVE  /\ IsFiniteSet(S) /\ Cardinality(S) \in Nat
           /\ Cardinality(T) \in Nat /\ Cardinality(S) =< Cardinality(T)
BY FS_Subset, FS_CardinalityType

\* One element more or less makes a difference of one.
LEMMA AddCount ==
    ASSUME NEW S, NEW x, IsFiniteSet(S), x \notin S
    PROVE  /\ IsFiniteSet(S \cup {x}) /\ Cardinality(S) \in Nat
           /\ Cardinality(S \cup {x}) = Cardinality(S) + 1
BY FS_AddElement, FS_CardinalityType

(***************************************************************************)
(* CountInsert: the row that is inserted is the next of the newest poll,   *)
(* which shifts no older one; the last one completes the poll.             *)
(***************************************************************************)
LEMMA CountInsert ==
    ASSUME PollsInv, CountInv, insert_option
    PROVE  CountInv'
<1> USE PollsAssumption
<1>0. PollsTypeOK /\ OptionKeys /\ CreatingOpen
    BY DEF PollsInv
<1>1. OptionsCounted /\ Numbered /\ CreatingLast /\ MeantIsSent /\ AbandonedByFaults
    BY DEF CountInv
<1>2. PICK w \in creating :
        /\ options' = options \cup {[id |-> next_option, poll |-> w.poll,
                                     number |-> w.done + 1]}
        /\ next_option' = next_option + 1
        /\ creating' = (creating \ {w}) \cup
                         (IF w.done + 1 = w.count THEN {}
                          ELSE {[w EXCEPT !.done = @ + 1]})
        /\ UNCHANGED <<polls, votes, next_poll, faults, meant>>
    BY DEF insert_option
<1> DEFINE o == [id |-> next_option, poll |-> w.poll, number |-> w.done + 1]
<1>3. /\ o.id = next_option /\ o.poll = w.poll /\ o.number = w.done + 1
      /\ options' = options \cup {o}
    BY <1>2
<1> HIDE DEF o
<1>4. /\ next_option \in Nat /\ next_poll \in Nat
      /\ w.poll \in Nat /\ w.done \in Nat /\ w.count \in Nat
      /\ \A x \in options : x.id \in Nat /\ x.poll \in Nat /\ x.number \in Nat
    BY <1>0 DEF PollsTypeOK
<1>5. o \notin options
    BY <1>0, <1>3, <1>4 DEF OptionKeys
<1>6. OptionsCounted'
    BY <1>1, <1>2, <1>3, <1>4, <1>5, AddCount DEF OptionsCounted
<1>7. \A q \in Nat : q =< w.poll => OlderOptions(q)' = OlderOptions(q)
    BY <1>3, <1>4 DEF OlderOptions
<1>8. Numbered'
  <2> SUFFICES ASSUME NEW x \in options'
               PROVE  /\ x.poll < next_poll'
                      /\ x.number = x.id - Cardinality(OlderOptions(x.poll)')
      BY DEF Numbered
  <2>1. w.poll = next_poll - 1
      BY <1>1 DEF CreatingLast
  <2>2. CASE x \in options
    <3>1. x.poll < next_poll /\ x.number = x.id - Cardinality(OlderOptions(x.poll))
        BY <1>1, <2>2 DEF Numbered
    <3>2. OlderOptions(x.poll)' = OlderOptions(x.poll)
        BY <1>4, <1>7, <2>1, <2>2, <3>1
    <3> QED
        BY <1>2, <3>1, <3>2
  <2>3. CASE x = o
    <3>1. OlderOptions(w.poll)' = OlderOptions(w.poll)
        BY <1>4, <1>7
    <3>2. w.done = next_option - 1 - Cardinality(OlderOptions(w.poll))
        BY <1>1 DEF CreatingLast
    <3>3. Cardinality(OlderOptions(w.poll)) \in Nat
        BY <1>1, PartCount DEF OptionsCounted, OlderOptions
    <3>4. x.number = x.id - Cardinality(OlderOptions(x.poll)')
        BY <1>3, <1>4, <2>3, <3>1, <3>2, <3>3
    <3> QED
        BY <1>2, <1>3, <1>4, <2>1, <2>3, <3>4
  <2> QED
      BY <1>3, <2>2, <2>3
<1>9. /\ OptionsOf(w.poll)' = OptionsOf(w.poll) \cup {o}
      /\ \A q : q # w.poll => OptionsOf(q)' = OptionsOf(q)
    BY <1>3 DEF OptionsOf
<1>10. Cardinality(OptionsOf(w.poll)') = w.done + 1
  <2>1. IsFiniteSet(OptionsOf(w.poll)) /\ o \notin OptionsOf(w.poll)
      BY <1>1, <1>5, PartCount DEF OptionsCounted, OptionsOf
  <2> QED
      BY <1>1, <1>9, <2>1, AddCount DEF CreatingLast
<1>11. \A x \in creating' : /\ x.poll = w.poll /\ x.count = w.count
                            /\ x.done = w.done + 1 /\ x.done # x.count
  <2>1. creating \ {w} = {}
      BY <1>0 DEF CreatingOpen
  <2>2. w \in [poll : Nat, done : Nat, count : Nat]
      BY <1>0 DEF PollsTypeOK
  <2> QED
      BY <1>2, <2>1, <2>2
<1>12. CreatingLast'
  <2>1. OlderOptions(w.poll)' = OlderOptions(w.poll)
      BY <1>4, <1>7
  <2>2. Cardinality(OlderOptions(w.poll)) \in Nat
      BY <1>1, PartCount DEF OptionsCounted, OlderOptions
  <2>3. /\ w.poll = next_poll - 1 /\ w.done < w.count /\ w.count >= 2
        /\ w.done = next_option - 1 - Cardinality(OlderOptions(w.poll))
      BY <1>1 DEF CreatingLast
  <2> SUFFICES ASSUME NEW x \in creating'
               PROVE  /\ x.poll = next_poll' - 1 /\ x.done < x.count
                      /\ x.count >= 2
                      /\ x.done = next_option' - 1
                                    - Cardinality(OlderOptions(x.poll)')
                      /\ x.done = Cardinality(OptionsOf(x.poll)')
      BY DEF CreatingLast
  <2>4. x.poll = w.poll /\ x.count = w.count /\ x.done = w.done + 1
        /\ x.done # x.count
      BY <1>11
  <2> QED
      BY <1>2, <1>4, <1>10, <2>1, <2>2, <2>3, <2>4
<1>13. MeantIsSent'
    BY <1>1, <1>2 DEF MeantIsSent
<1>14. AbandonedByFaults'
  <2>1. ASSUME NEW p \in Abandoned' PROVE p \in Abandoned
    <3>1. p \in list_active_polls /\ Cardinality(OptionsOf(p)') < 2
        BY <1>2 DEF Abandoned, list_active_polls
    <3>2. CASE p = w.poll
      <4>1. creating' = {}
        <5>1. \A x \in creating' : x.poll = p
            BY <1>11, <3>2
        <5>2. \A x \in creating' : x.poll # p
            BY DEF Abandoned
        <5> QED
            BY <5>1, <5>2
      <4>2. w.done + 1 = w.count
          BY <1>2, <4>1
      <4> QED
          BY <1>1, <1>4, <1>10, <3>1, <3>2, <4>2 DEF CreatingLast
    <3>3. CASE p # w.poll
      <4>1. \A x \in creating : x = w
          BY <1>0 DEF CreatingOpen
      <4> QED
          BY <1>9, <3>1, <3>3, <4>1 DEF Abandoned
    <3> QED
        BY <3>2, <3>3
  <2>2. faults' = faults /\ faults \in Nat
      BY <1>0, <1>2 DEF PollsTypeOK
  <2> QED
      BY <1>1, <2>1, <2>2, PartCount DEF AbandonedByFaults
<1> QED
    BY <1>6, <1>8, <1>12, <1>13, <1>14 DEF CountInv

(***************************************************************************)
(* CountStep: a new poll starts with all options there are older than its  *)
(* own; a fault leaves at most one poll short.                             *)
(***************************************************************************)
LEMMA CountStep == PollsInv /\ CountInv /\ [PollsNext]_pollsVars => CountInv'
<1> SUFFICES ASSUME PollsInv, CountInv, [PollsNext]_pollsVars PROVE CountInv'
    OBVIOUS
<1> USE PollsAssumption
<1>0. PollsTypeOK /\ PollKeys /\ OptionKeys /\ CreatingOpen /\ VoteCounted
    BY DEF PollsInv
<1>i. OptionsCounted /\ Numbered /\ CreatingLast /\ MeantIsSent /\ AbandonedByFaults
    BY DEF CountInv
<1>a. ASSUME options' = options, next_option' = next_option,
             next_poll' = next_poll
      PROVE  OptionsCounted' /\ Numbered'
    BY <1>i, <1>a DEF OptionsCounted, Numbered, OlderOptions
<1>1. ASSUME NEW u \in Users, NEW n \in 0..MaxOptions, create_poll(u, n)
      PROVE  CountInv'
  <2>w. PICK w : w = [poll |-> next_poll, done |-> 0, count |-> n]
      OBVIOUS
  <2> DEFINE q == [id |-> next_poll, creator |-> u, active |-> TRUE]
  <2>1. /\ w.poll = next_poll /\ w.done = 0 /\ w.count = n
        /\ creating' = {w} /\ creating = {} /\ n >= 2 /\ q.id = next_poll
        /\ polls' = polls \cup {q} /\ next_poll' = next_poll + 1
        /\ options' = options /\ next_option' = next_option
        /\ votes' = votes /\ meant' = meant /\ faults' = faults
      BY <1>1, <2>w DEF create_poll, MutexFree
  <2> HIDE DEF q
  <2>2. next_poll \in Nat /\ n \in Nat /\ \A o \in options : o.poll \in Nat
      BY <1>0 DEF PollsTypeOK
  <2>3. OptionsCounted' /\ MeantIsSent'
      BY <1>i, <2>1 DEF OptionsCounted, MeantIsSent
  <2>4. Numbered'
      BY <1>i, <2>1, <2>2 DEF Numbered, OlderOptions
  <2>5. OlderOptions(w.poll)' = options /\ OptionsOf(w.poll)' = {}
    <3>1. \A o \in options : o.poll < w.poll /\ o.poll # w.poll
        BY <1>i, <2>1, <2>2 DEF Numbered
    <3> QED
        BY <2>1, <3>1 DEF OlderOptions, OptionsOf
  <2>6. CreatingLast'
    <3>1. Cardinality(options) = next_option - 1 /\ next_option \in Nat
        BY <1>0, <1>i DEF OptionsCounted, PollsTypeOK
    <3>2. Cardinality({}) = 0
        BY FS_EmptySet
    <3>3. 0 = next_option' - 1 - Cardinality(OlderOptions(w.poll)')
        BY <2>1, <2>5, <3>1
    <3>4. w.done = Cardinality(OptionsOf(w.poll)')
        BY <2>1, <2>5, <3>2
    <3> QED
        BY <2>1, <2>2, <3>3, <3>4 DEF CreatingLast
  <2>7. Abandoned' \subseteq Abandoned
    <3> SUFFICES ASSUME NEW p \in Abandoned' PROVE p \in Abandoned
        OBVIOUS
    <3>1. p \in list_active_polls' /\ Cardinality(OptionsOf(p)) < 2 /\ p # next_poll
        BY <2>1 DEF Abandoned, OptionsOf
    <3>2. p \in list_active_polls
        BY <2>1, <3>1 DEF list_active_polls
    <3> QED
        BY <2>1, <3>1, <3>2 DEF Abandoned
  <2>8. AbandonedByFaults'
      BY <1>0, <1>i, <2>1, <2>7, PartCount DEF AbandonedByFaults, PollsTypeOK
  <2> QED
      BY <2>3, <2>4, <2>6, <2>8 DEF CountInv
<1>2. ASSUME insert_option PROVE CountInv'
    BY <1>2, CountInsert
<1>3. ASSUME abandon_create PROVE CountInv'
  <2>1. /\ creating # {} /\ creating' = {} /\ faults' = faults + 1
        /\ polls' = polls /\ options' = options /\ next_option' = next_option
        /\ next_poll' = next_poll /\ votes' = votes /\ meant' = meant
      BY <1>3 DEF abandon_create
  <2>2. OptionsCounted' /\ Numbered'
      BY <1>a, <2>1
  <2>3. CreatingLast' /\ MeantIsSent'
      BY <1>i, <2>1 DEF CreatingLast, MeantIsSent
  <2>4. PICK w \in creating : TRUE
      BY <2>1
  <2>5. Abandoned' \subseteq Abandoned \cup {w.poll}
    <3> SUFFICES ASSUME NEW p \in Abandoned', p # w.poll PROVE p \in Abandoned
        OBVIOUS
    <3>1. p \in list_active_polls /\ Cardinality(OptionsOf(p)) < 2
        BY <2>1 DEF Abandoned, OptionsOf, list_active_polls
    <3>2. \A x \in creating : x = w
        BY <1>0, <2>4 DEF CreatingOpen
    <3> QED
        BY <3>1, <3>2 DEF Abandoned
  <2>6. w.poll \notin Abandoned
      BY <2>4 DEF Abandoned
  <2>7. /\ IsFiniteSet(Abandoned \cup {w.poll}) /\ Cardinality(Abandoned) \in Nat
        /\ Cardinality(Abandoned \cup {w.poll}) = Cardinality(Abandoned) + 1
      BY <1>i, <2>6, AddCount DEF AbandonedByFaults
  <2>8. /\ IsFiniteSet(Abandoned') /\ Cardinality(Abandoned') \in Nat
        /\ Cardinality(Abandoned') =< Cardinality(Abandoned) + 1
      BY <2>5, <2>7, PartCount
  <2>9. AbandonedByFaults'
      BY <1>0, <1>i, <2>1, <2>7, <2>8 DEF AbandonedByFaults, PollsTypeOK
  <2> QED
      BY <2>2, <2>3, <2>9 DEF CountInv
<1>4. ASSUME NEW p \in PollIds, NEW u \in Users, NEW n \in OptionIds,
             vote_poll(p, u, n)
      PROVE  CountInv'
  <2> DEFINE v == [poll |-> p, user |-> u, option |-> n]
             m == [poll |-> p, user |-> u, number |-> n]
  <2>1. /\ v.poll = p /\ v.user = u /\ v.option = n
        /\ m.poll = p /\ m.user = u /\ m.number = n
        /\ votes' = {x \in votes : ~(x.poll = p /\ x.user = u)} \cup {v}
        /\ meant' = {x \in meant : ~(x.poll = p /\ x.user = u)} \cup {m}
      BY <1>4 DEF vote_poll, upsert_vote
  <2> HIDE DEF v, m
  <2>2. /\ UNCHANGED <<polls, options, next_poll, next_option, creating, faults>>
      BY <1>4 DEF vote_poll
  <2>3. MeantIsSent'
      BY <1>i, <2>1 DEF MeantIsSent
  <2>4. OptionsCounted' /\ Numbered'
      BY <1>a, <2>2
  <2>5. CreatingLast' /\ AbandonedByFaults'
      BY <1>i, <2>2 DEF CreatingLast, AbandonedByFaults, Abandoned, OptionsOf,
                        OlderOptions, list_active_polls
  <2> QED
      BY <2>3, <2>4, <2>5 DEF CountInv
<1>5. ASSUME NEW p \in PollIds, NEW u \in Users, close_poll(p, u)
      PROVE  CountInv'
  <2>1. PICK q \in Poll(p) :
          polls' = (polls \ {q}) \cup {[q EXCEPT !.active = FALSE]}
      BY <1>5 DEF close_poll
  <2>2. ~[q EXCEPT !.active = FALSE].active
      BY <1>0, <2>1 DEF Poll, PollsTypeOK
  <2>3. UNCHANGED <<options, votes, next_poll, next_option, creating, faults,
                    meant>>
      BY <1>5 DEF close_poll
  <2>4. list_active_polls' \subseteq list_active_polls
      BY <2>1, <2>2 DEF list_active_polls
  <2>5. Abandoned' \subseteq Abandoned
      BY <2>3, <2>4 DEF Abandoned, OptionsOf
  <2>6. AbandonedByFaults'
      BY <1>0, <1>i, <2>3, <2>5, PartCount DEF AbandonedByFaults, PollsTypeOK
  <2>7. OptionsCounted' /\ Numbered'
      BY <1>a, <2>3
  <2>8. CreatingLast' /\ MeantIsSent'
      BY <1>i, <2>3 DEF CreatingLast, MeantIsSent, OptionsOf, OlderOptions
  <2> QED
      BY <2>6, <2>7, <2>8 DEF CountInv
<1>6. ASSUME UNCHANGED pollsVars PROVE CountInv'
    BY <1>i, <1>6 DEF pollsVars, CountInv, OptionsCounted, Numbered, OlderOptions,
                      CreatingLast, MeantIsSent, AbandonedByFaults, Abandoned,
                      OptionsOf, list_active_polls
<1> QED
    BY <1>1, <1>2, <1>3, <1>4, <1>5, <1>6 DEF PollsNext

\* The counting invariant holds in every reachable state.
LEMMA CountInductive == PollsSpec => []CountInv
<1>1. PollsInit => CountInv
  <2> SUFFICES ASSUME PollsInit PROVE CountInv
      OBVIOUS
  <2>1. /\ options = {} /\ polls = {} /\ creating = {} /\ votes = {}
        /\ next_option = 1 /\ faults = 0
      BY DEF PollsInit
  <2>2. Abandoned = {}
      BY <2>1 DEF Abandoned, list_active_polls
  <2>3. IsFiniteSet({}) /\ Cardinality({}) = 0
      BY FS_EmptySet
  <2>4. OptionsCounted /\ AbandonedByFaults
      BY <2>1, <2>2, <2>3 DEF OptionsCounted, AbandonedByFaults
  <2>5. Numbered /\ CreatingLast /\ MeantIsSent
      BY <2>1 DEF Numbered, CreatingLast, MeantIsSent
  <2> QED
      BY <2>4, <2>5 DEF CountInv
<1> QED
    BY <1>1, CountStep, PollsInductive, PTL DEF PollsSpec

(***************************************************************************)
(* VotesShift: for any number of polls, options and faults, a vote lands   *)
(* on the option displayed as many places before the one asked for as      *)
(* there are options of older polls.                                       *)
(***************************************************************************)
THEOREM VotesShift == PollsSpec => []VoteOffset
<1>1. PollsInv /\ CountInv => VoteOffset
  <2> SUFFICES ASSUME PollsInv, CountInv, NEW v \in votes, NEW m \in meant,
                      v.poll = m.poll, v.user = m.user
               PROVE  \E o \in OptionsOf(v.poll) :
                        /\ o.id = v.option
                        /\ o.number = m.number
                             - Cardinality({x \in options : x.poll < v.poll})
      BY DEF VoteOffset
  <2>1. PICK o \in OptionsOf(v.poll) : o.id = v.option
      BY DEF PollsInv, VoteCounted
  <2>2. v.option = m.number
      BY DEF CountInv, MeantIsSent
  <2>3. o \in options /\ o.poll = v.poll
      BY <2>1 DEF OptionsOf
  <2>4. o.number = o.id - Cardinality({x \in options : x.poll < v.poll})
      BY <2>3 DEF CountInv, Numbered, OlderOptions
  <2> QED
      BY <2>1, <2>2, <2>4
<1> QED
    BY <1>1, PollsInductive, CountInductive, PTL

(***************************************************************************)
(* PollsAreComplete: when no create_poll is under way, at most one listed  *)
(* poll per fault has fewer than two options.                              *)
(***************************************************************************)
THEOREM PollsAreComplete == PollsSpec => []ListedComplete
<1>1. CountInv => ListedComplete
  <2> SUFFICES ASSUME CountInv, creating = {}
               PROVE  Cardinality({p \in list_active_polls :
                                     Cardinality(OptionsOf(p)) < 2}) =< faults
      BY DEF ListedComplete, MutexFree
  <2>1. {p \in list_active_polls : Cardinality(OptionsOf(p)) < 2} = Abandoned
      BY DEF Abandoned
  <2> QED
      BY <2>1 DEF CountInv, AbandonedByFaults
<1> QED
    BY <1>1, CountInductive, PTL

\* The table of votes is finite, so that its rows can be counted.
VotesFinite == IsFiniteSet(votes)

\* VotesFiniteStep: vote_poll writes one row, the other handlers none.
LEMMA VotesFiniteStep == VotesFinite /\ [PollsNext]_pollsVars => VotesFinite'
<1> SUFFICES ASSUME VotesFinite, [PollsNext]_pollsVars PROVE VotesFinite'
    OBVIOUS
<1>1. CASE votes' = votes
    BY <1>1 DEF VotesFinite
<1>2. ASSUME NEW p, NEW u, NEW n, vote_poll(p, u, n) PROVE VotesFinite'
  <2>1. PICK V, x : /\ V = {v \in votes : ~(v.poll = p /\ v.user = u)}
                    /\ x = [poll |-> p, user |-> u, option |-> n]
      OBVIOUS
  <2>2. V \subseteq votes /\ votes' = V \cup {x}
      BY <1>2, <2>1 DEF vote_poll, upsert_vote
  <2>3. IsFiniteSet(V)
      BY <2>2, FS_Subset DEF VotesFinite
  <2> QED
      BY <2>2, <2>3, FS_AddElement DEF VotesFinite
<1> QED
    BY <1>1, <1>2 DEF PollsNext, pollsVars, create_poll, insert_option, abandon_create, close_poll

\* f is a sum of h over the parts of S, taking elements in some order, or in any.
SumInSomeOrder(f, S, h) ==
    /\ f[{}] = 0
    /\ \A s \in SUBSET S : s # {} => \E x \in s : f[s] = h[x] + f[s \ {x}]
SumInAnyOrder(f, S, h) ==
    /\ f[{}] = 0
    /\ \A s \in SUBSET S : \A x \in s : f[s] = h[x] + f[s \ {x}]

\* SumUnique: what a sum over the parts of a finite set comes to does not depend on
\* the order in which elements are taken.
LEMMA SumUnique ==
    ASSUME NEW S, IsFiniteSet(S), NEW it, NEW g, NEW h,
           SumInSomeOrder(it, S, h), SumInAnyOrder(g, S, h)
    PROVE  it[S] = g[S]
<1> SUFFICES ASSUME it[S] # g[S] PROVE FALSE
    OBVIOUS
<1>1. \A s \in SUBSET S : IsFiniteSet(s) /\ Cardinality(s) \in Nat
    BY FS_Subset, FS_CardinalityType
<1>2. PICK N : N = {n \in Nat : \E s \in SUBSET S : it[s] # g[s] /\ Cardinality(s) = n}
    OBVIOUS
<1>3. N \subseteq Nat /\ Cardinality(S) \in N
    BY <1>1, <1>2
<1>4. PICK n \in N : \A k \in N : ~(<<k, n>> \in OpToRel(<, Nat))
    BY <1>3, NatLessThanWellFounded, WFMin
<1>5. \A k \in N : ~(k < n)
  <2> SUFFICES ASSUME NEW k \in N, k < n PROVE FALSE
      OBVIOUS
  <2>1. k \in Nat /\ n \in Nat
      BY <1>3
  <2>2. <<k, n>> \in OpToRel(<, Nat)
      BY <2>1, Zenon DEF OpToRel
  <2> QED
      BY <1>4, <2>2
<1>6. PICK s \in SUBSET S : it[s] # g[s] /\ Cardinality(s) = n
    BY <1>2
<1>7. PICK x \in s : it[s] = h[x] + it[s \ {x}]
    BY <1>6 DEF SumInSomeOrder, SumInAnyOrder
<1>8. g[s] = h[x] + g[s \ {x}]
    BY DEF SumInAnyOrder
<1>9. Cardinality(s \ {x}) < n /\ s \ {x} \in SUBSET S
  <2>1. Cardinality(s \ {x}) = Cardinality(s) - 1
      BY <1>1, FS_RemoveElement
  <2> QED
      BY <1>1, <1>6, <2>1
<1>10. it[s \ {x}] = g[s \ {x}]
    BY <1>1, <1>2, <1>5, <1>9
<1> QED
    BY <1>6, <1>7, <1>8, <1>10, Zenon

\* The votes that poll_results reports for the options of p, added up.
SumOfResults(p) == MapThenSumSet(LAMBDA o : poll_results(p)[o], OptionsOf(p))

\* One turn of the recursion by which the library defines that sum.
OneTurn(p, f) ==
    [s \in SUBSET OptionsOf(p) |->
       IF s = {} THEN 0
       ELSE poll_results(p)[CHOOSE x \in s : TRUE] + f[s \ {CHOOSE x \in s : TRUE}]]

\* SumUnfolds: the sum is a fixed point of that turn, if there is one.
LEMMA SumUnfolds ==
    ASSUME NEW p
    PROVE  \E it : it = (CHOOSE f : f = OneTurn(p, f)) /\ SumOfResults(p) = it[OptionsOf(p)]
BY Zenon DEF SumOfResults, OneTurn, MapThenSumSet, MapThenFoldSet

\* The votes for the options of s.
VotesFor(s) == {v \in votes : \E o \in s : v.option = o.id}

\* ForCounts: an option more adds the votes that poll_results counts for it.
LEMMA ForCounts ==
    ASSUME VotesFinite, OptionKeys, NEW p, NEW s \in SUBSET OptionsOf(p), NEW x \in s
    PROVE  /\ Cardinality(VotesFor(s)) = poll_results(p)[x] + Cardinality(VotesFor(s \ {x}))
           /\ Cardinality(VotesFor(s)) \in Nat
<1>1. PICK A, B, C : A = VotesFor(s) /\ B = VotesFor(s \ {x}) /\ C = {v \in votes : v.option = x.id}
    OBVIOUS
<1>2. poll_results(p)[x] = Cardinality(C)
    BY <1>1 DEF poll_results
<1>3. A = B \cup C
    BY <1>1 DEF VotesFor
<1>4. B \cap C = {}
  <2> SUFFICES ASSUME NEW v \in B, v \in C PROVE FALSE
      OBVIOUS
  <2>1. PICK o \in s \ {x} : v.option = o.id
      BY <1>1 DEF VotesFor
  <2>2. o.id = x.id /\ o \in options /\ x \in options
      BY <1>1, <2>1 DEF OptionsOf
  <2> QED
      BY <2>1, <2>2 DEF OptionKeys
<1>5. IsFiniteSet(B) /\ IsFiniteSet(C)
    BY <1>1, FS_Subset DEF VotesFor, VotesFinite
<1>6. Cardinality(A) = Cardinality(B) + Cardinality(C) - Cardinality(B \cap C)
    BY <1>3, <1>5, FS_Union
<1>7. Cardinality(B \cap C) = 0 /\ Cardinality(B) \in Nat /\ Cardinality(C) \in Nat
    BY <1>4, <1>5, FS_EmptySet, FS_CardinalityType
<1>8. Cardinality(A) = Cardinality(C) + Cardinality(B) /\ Cardinality(A) \in Nat
    BY <1>6, <1>7
<1> QED
    BY <1>1, <1>2, <1>8

\* SumIs: no vote is counted for two options, so the results add up to the votes.
LEMMA SumIs ==
    ASSUME VotesFinite, OptionKeys, NEW p, IsFiniteSet(OptionsOf(p))
    PROVE  SumOfResults(p) = Cardinality(VotesFor(OptionsOf(p)))
<1>1. PICK S, h, g : /\ S = OptionsOf(p) /\ h = poll_results(p)
                     /\ g = [s \in SUBSET S |-> Cardinality(VotesFor(s))]
    OBVIOUS
<1>2. \A s \in SUBSET S : g[s] = Cardinality(VotesFor(s))
    BY <1>1
<1>3. g[{}] = 0
  <2>1. VotesFor({}) = {}
      BY DEF VotesFor
  <2>2. {} \in SUBSET S
      OBVIOUS
  <2> QED
      BY <1>2, <2>1, <2>2, FS_EmptySet
<1>4. \A s \in SUBSET S : \A x \in s : g[s] = h[x] + g[s \ {x}]
  <2> TAKE s \in SUBSET S
  <2> TAKE x \in s
  <2>1. s \ {x} \in SUBSET S
      OBVIOUS
  <2>2. Cardinality(VotesFor(s)) = h[x] + Cardinality(VotesFor(s \ {x}))
      BY <1>1, ForCounts
  <2> QED
      BY <1>2, <2>1, <2>2
<1>5. g = OneTurn(p, g)
  <2>1. \A s \in SUBSET S : s # {} => (CHOOSE x \in s : TRUE) \in s
      OBVIOUS
  <2>2. \A s \in SUBSET S :
          g[s] = IF s = {} THEN 0
                 ELSE h[CHOOSE x \in s : TRUE] + g[s \ {CHOOSE x \in s : TRUE}]
      BY <1>3, <1>4, <2>1, Zenon
  <2>3. g = [s \in SUBSET S |-> g[s]]
      BY <1>1
  <2> QED
      BY <1>1, <2>2, <2>3, Zenon DEF OneTurn
<1>6. PICK it : it = (CHOOSE f : f = OneTurn(p, f)) /\ SumOfResults(p) = it[OptionsOf(p)]
    BY SumUnfolds
<1>7. it = OneTurn(p, it)
    BY <1>5, <1>6, Zenon
<1>8. \A s \in SUBSET S :
        it[s] = IF s = {} THEN 0
                ELSE h[CHOOSE x \in s : TRUE] + it[s \ {CHOOSE x \in s : TRUE}]
  <2>1. PICK t : t = OneTurn(p, it)
      OBVIOUS
  <2>2. \A s \in SUBSET S :
          t[s] = IF s = {} THEN 0
                 ELSE h[CHOOSE x \in s : TRUE] + it[s \ {CHOOSE x \in s : TRUE}]
    <3> TAKE s \in SUBSET S
    <3>1. s \in SUBSET OptionsOf(p)
        BY <1>1
    <3>2. t[s] = IF s = {} THEN 0
                 ELSE poll_results(p)[CHOOSE x \in s : TRUE]
                        + it[s \ {CHOOSE x \in s : TRUE}]
        BY <2>1, <3>1, Zenon DEF OneTurn
    <3> QED
        BY <1>1, <3>2, Zenon
  <2> QED
      BY <1>7, <2>1, <2>2, Zenon
<1>9. \A s \in SUBSET S : s # {} => \E x \in s : it[s] = h[x] + it[s \ {x}]
  <2> SUFFICES ASSUME NEW s \in SUBSET S, s # {}
               PROVE  \E x \in s : it[s] = h[x] + it[s \ {x}]
      OBVIOUS
  <2>1. (CHOOSE x \in s : TRUE) \in s
      OBVIOUS
  <2> QED
      BY <1>8, <2>1, Zenon
<1>10. it[S] = g[S]
  <2>1. IsFiniteSet(S)
      BY <1>1
  <2>2. it[{}] = 0
    <3>1. {} \in SUBSET S
        OBVIOUS
    <3> QED
        BY <1>8, <3>1, Zenon
  <2>3. SumInSomeOrder(it, S, h) /\ SumInAnyOrder(g, S, h)
      BY <1>3, <1>4, <1>9, <2>2, Zenon DEF SumInSomeOrder, SumInAnyOrder
  <2> QED
      BY <2>1, <2>3, SumUnique
<1> QED
    BY <1>1, <1>2, <1>6, <1>10

\* VotersCount: the votes for the options of p are one per user who voted in it.
LEMMA VotersCount ==
    ASSUME VotesFinite, VoteCounted, NEW p
    PROVE  Cardinality(VotesFor(OptionsOf(p)))
             = Cardinality({v.user : v \in {w \in votes : w.poll = p}})
<1>1. PICK V, U : V = {w \in votes : w.poll = p} /\ U = {v.user : v \in V}
    OBVIOUS
<1>2. VotesFor(OptionsOf(p)) = V
    BY <1>1 DEF VotesFor, VoteCounted, OptionsOf
<1>3. IsFiniteSet(V)
    BY <1>1, FS_Subset DEF VotesFinite
<1>4. PICK b : b = [v \in V |-> v.user]
    OBVIOUS
<1>5. b \in Bijection(V, U)
    BY <1>1, <1>4 DEF VoteCounted, Bijection, Injection, Surjection, IsInjective
<1>6. Cardinality(V) = Cardinality(U)
    BY <1>3, <1>5, FS_Bijection DEF ExistsBijection
<1> QED
    BY <1>1, <1>2, <1>6

(***************************************************************************)
(* ResultsAddUp: the counts that poll_results shows for the options of a   *)
(* poll add up to the number of users who voted in it, for any number of   *)
(* options and users, whatever votes were changed and whatever create_poll *)
(* left half done.                                                         *)
(***************************************************************************)
THEOREM ResultsAddUp == PollsSpec => []ResultsSound
<1>1. PollsInit => VotesFinite
    BY FS_EmptySet DEF PollsInit, VotesFinite
<1>2. PollsInv /\ CountInv /\ VotesFinite => ResultsSound
  <2> SUFFICES ASSUME PollsInv, CountInv, VotesFinite, NEW p \in PollIds
               PROVE  SumOfResults(p) = Cardinality({v.user : v \in {w \in votes : w.poll = p}})
      BY DEF ResultsSound, SumOfResults
  <2>1. IsFiniteSet(OptionsOf(p))
      BY FS_Subset DEF CountInv, OptionsCounted, OptionsOf
  <2> QED
      BY <2>1, SumIs, VotersCount DEF PollsInv
<1> QED
    BY <1>1, <1>2, VotesFiniteStep, PollsInductive, CountInductive, PTL DEF PollsSpec

-----------------------------------------------------------------------------
(***************************************************************************)
(*                                 Timeline                                *)
(***************************************************************************)

\* AUTOINCREMENT gives every post an id of its own.
PostKeys ==
    /\ \A p \in posts : p.id < next_post
    /\ \A p, q \in posts : p.id = q.id => p = q

\* Between the statements of delete_post the store is locked by one caller,
\* and the post it is about to delete has no comments.
DeletingBare ==
    /\ \A w, x \in deleting : w = x
    /\ \A w \in deleting : \A c \in comments : c.post # w.post

\* Both ends of a row of the messages table have exchanged a message: a
\* receipt row goes back over the way its message came.
RowsTalked == \A r \in rows : {r.from, r.to} \in talked

TimelineInv ==
    TimelineTypeOK /\ PostKeys /\ DeletingBare /\ RowsTalked
-----------------------------------------------------------------------------
\* TimelineTypeStep: every statement keeps the tables well formed.
LEMMA TimelineTypeStep == TimelineTypeOK /\ [TimelineNext]_timelineVars => TimelineTypeOK'
<1> SUFFICES ASSUME TimelineTypeOK, [TimelineNext]_timelineVars PROVE TimelineTypeOK'
    OBVIOUS
<1> USE TimelineAssumption
<1>1. ASSUME NEW u \in Users, NEW wall \in SUBSET Users, create_post(u, wall)
      PROVE  TimelineTypeOK'
  <2>1. next_post \in PostIds /\ next_post + 1 \in 1..(MaxPosts + 1)
      BY <1>1 DEF create_post, PostIds, TimelineTypeOK
  <2>2. [id |-> next_post, author |-> u, wall |-> wall]
          \in [id : PostIds, author : Users, wall : SUBSET Users]
      BY <2>1
  <2>3. posts' \subseteq [id : PostIds, author : Users, wall : SUBSET Users]
      BY <1>1, <2>2, Zenon DEF create_post, TimelineTypeOK
  <2> QED
      BY <1>1, <2>1, <2>3 DEF create_post, msgVars, TimelineTypeOK
<1>2. ASSUME NEW u \in Users, NEW p \in PostIds, add_comment(p, u)
      PROVE  TimelineTypeOK'
  <2>1. next_comment \in 1..MaxComments
        /\ next_comment + 1 \in 1..(MaxComments + 1)
      BY <1>2 DEF add_comment, TimelineTypeOK
  <2>2. [id |-> next_comment, post |-> p, author |-> u]
          \in [id : 1..MaxComments, post : PostIds, author : Users]
      BY <2>1
  <2>3. comments' \subseteq [id : 1..MaxComments, post : PostIds, author : Users]
      BY <1>2, <2>2, Zenon DEF add_comment, TimelineTypeOK
  <2> QED
      BY <1>2, <2>1, <2>3 DEF add_comment, msgVars, TimelineTypeOK
<1>3. ASSUME NEW u \in Users, NEW p \in PostIds, delete_comments(p, u)
      PROVE  TimelineTypeOK'
  <2>1. [post |-> p, by |-> u] \in [post : PostIds, by : Users]
      OBVIOUS
  <2>2. \A q \in posts : [by |-> u, author |-> q.author]
                           \in [by : Users, author : Users]
      BY DEF TimelineTypeOK
  <2>3. erased' \subseteq [by : Users, author : Users]
      BY <1>3, <2>2 DEF delete_comments, TimelineTypeOK
  <2> QED
      BY <1>3, <2>1, <2>3 DEF delete_comments, msgVars, TimelineTypeOK
<1>4. ASSUME delete_own_post PROVE TimelineTypeOK'
    BY <1>4 DEF delete_own_post, Own, msgVars, TimelineTypeOK
<1>5. ASSUME abandon_delete PROVE TimelineTypeOK'
    BY <1>5 DEF abandon_delete, msgVars, TimelineTypeOK
<1>6. ASSUME NEW u \in Users, join_group(u) \/ leave_group(u) PROVE TimelineTypeOK'
    BY <1>6 DEF join_group, leave_group, TimelineTypeOK
<1>7. ASSUME NEW u \in Users, fetch(u) PROVE TimelineTypeOK'
  <2>1. \A r \in rows : receipt_row(r)
                          \in [from : Users, to : Users, message : BOOLEAN]
      BY DEF TimelineTypeOK, receipt_row
  <2>2. rows' \subseteq [from : Users, to : Users, message : BOOLEAN]
      BY <1>7, <2>1 DEF fetch, TimelineTypeOK
  <2> QED
      BY <1>7, <2>2 DEF fetch, TimelineTypeOK
<1>8. ASSUME NEW u \in Users, NEW v \in Users, send(u, v) PROVE TimelineTypeOK'
  <2>1. [from |-> u, to |-> v, message |-> TRUE]
          \in [from : Users, to : Users, message : BOOLEAN]
      OBVIOUS
  <2>2. {u, v} \in SUBSET Users
      OBVIOUS
  <2>3. /\ rows' \subseteq [from : Users, to : Users, message : BOOLEAN]
        /\ talked' \subseteq SUBSET Users
      BY <1>8, <2>1, <2>2, Zenon DEF send, TimelineTypeOK
  <2> QED
      BY <1>8, <2>3 DEF send, TimelineTypeOK
<1>9. CASE UNCHANGED timelineVars
    BY <1>9 DEF timelineVars, TimelineTypeOK
<1> QED
    BY <1>1, <1>2, <1>3, <1>4, <1>5, <1>6, <1>7, <1>8, <1>9 DEF TimelineNext

\* TimelineInvStep: every statement, and every stop between two, keeps the keys
\* unique, the post being deleted bare and the rows between users who have
\* talked.
LEMMA TimelineInvStep == TimelineInv /\ [TimelineNext]_timelineVars => TimelineInv'
<1> SUFFICES ASSUME TimelineInv, [TimelineNext]_timelineVars PROVE TimelineInv'
    OBVIOUS
<1> USE TimelineAssumption
<1>0. TimelineTypeOK /\ PostKeys /\ DeletingBare /\ RowsTalked
      /\ TimelineTypeOK'
    BY TimelineTypeStep DEF TimelineInv
<1> DEFINE Goal ==
        PostKeys' /\ DeletingBare' /\ RowsTalked'
<1>1. ASSUME NEW u \in Users, NEW wall \in SUBSET Users, create_post(u, wall)
      PROVE  Goal
  <2>1. PostKeys'
      BY <1>0, <1>1 DEF create_post, PostKeys, TimelineTypeOK, PostIds
  <2>2. DeletingBare' /\ RowsTalked'
      BY <1>0, <1>1 DEF create_post, DeletingBare,
                        RowsTalked, msgVars
  <2> QED
      BY <2>1, <2>2
<1>2. ASSUME NEW u \in Users, NEW p \in PostIds, add_comment(p, u)
      PROVE  Goal
    BY <1>0, <1>2 DEF add_comment, PostKeys, DeletingBare, RowsTalked,
                      Unlocked, msgVars
<1>3. ASSUME NEW u \in Users, NEW p \in PostIds, delete_comments(p, u)
      PROVE  Goal
    BY <1>0, <1>3 DEF delete_comments, PostKeys, DeletingBare,
                      RowsTalked, msgVars
<1>4. ASSUME delete_own_post PROVE Goal
    BY <1>0, <1>4 DEF delete_own_post, PostKeys, DeletingBare, RowsTalked,
                      msgVars
<1>5. ASSUME abandon_delete PROVE Goal
    BY <1>0, <1>5 DEF abandon_delete, PostKeys, DeletingBare,
                      RowsTalked, msgVars
<1>6. ASSUME NEW u \in Users, join_group(u) \/ leave_group(u) PROVE Goal
    BY <1>0, <1>6 DEF join_group, leave_group, PostKeys, DeletingBare,
                      RowsTalked
<1>7. ASSUME NEW u \in Users, fetch(u) PROVE Goal
  <2>1. \A r : {receipt_row(r).from, receipt_row(r).to} = {r.from, r.to}
      BY DEF receipt_row
  <2>2. ASSUME NEW r \in rows' PROVE {r.from, r.to} \in talked'
    <3>1. talked' = talked
        BY <1>7 DEF fetch
    <3>2. r \in rows \/ \E x \in rows : r = receipt_row(x)
        BY <1>7 DEF fetch
    <3> QED
        BY <1>0, <2>1, <3>1, <3>2 DEF RowsTalked
  <2>3. PostKeys' /\ DeletingBare'
      BY <1>0, <1>7 DEF fetch, PostKeys, DeletingBare
  <2> QED
      BY <2>2, <2>3 DEF RowsTalked
<1>8. ASSUME NEW u \in Users, NEW v \in Users, send(u, v) PROVE Goal
    BY <1>0, <1>8 DEF send, PostKeys, DeletingBare,
                      RowsTalked
<1>9. ASSUME UNCHANGED timelineVars PROVE Goal
    BY <1>0, <1>9 DEF timelineVars, PostKeys, DeletingBare,
                      RowsTalked
<1>10. Goal
    BY <1>1, <1>2, <1>3, <1>4, <1>5, <1>6, <1>7, <1>8, <1>9 DEF TimelineNext
<1> QED
    BY <1>0, <1>10 DEF TimelineInv

\* TimelineInductive: the inductive invariant holds in every state the store reaches.
LEMMA TimelineInductive == TimelineSpec => []TimelineInv
<1>1. TimelineInit => TimelineInv
    BY TimelineAssumption DEF TimelineInit, TimelineInv, TimelineTypeOK, PostKeys,
       DeletingBare, RowsTalked
<1> QED
    BY <1>1, TimelineInvStep, PTL DEF TimelineSpec
-----------------------------------------------------------------------------
\* TimelineTyped: the timeline's tables keep the shape of their declarations.
THEOREM TimelineTyped == TimelineSpec => []TimelineTypeOK
<1>1. TimelineInv => TimelineTypeOK
    BY DEF TimelineInv
<1> QED
    BY <1>1, TimelineInductive, PTL

(***************************************************************************)
(* DeletesGoThrough: for any number of users, posts, comments and faults,  *)
(* a post goes only by its author's delete_post, and the author's          *)
(* delete_post is refused by the foreign key at no time, although it is    *)
(* two statements that commit by themselves.                               *)
(***************************************************************************)
THEOREM DeletesGoThrough == TimelineSpec => DeletedWhole
<1>1. TimelineInv /\ [TimelineNext]_timelineVars => [DeleteStep]_timelineVars
  <2> SUFFICES ASSUME TimelineInv, TimelineNext PROVE DeleteStep
      BY DEF DeleteStep, timelineVars
  <2>1. CASE delete_own_post
      BY <2>1 DEF delete_own_post, DeleteStep, TimelineInv, DeletingBare, Own
  <2>2. CASE abandon_delete
    <3>1. posts' = posts /\ faults' # faults
        BY <2>2 DEF abandon_delete, TimelineInv, TimelineTypeOK
    <3> QED
        BY <3>1 DEF DeleteStep
  <2>3. ASSUME NEW u \in Users, NEW p \in PostIds, delete_comments(p, u)
        PROVE  DeleteStep
      BY <2>3 DEF delete_comments, Unlocked, DeleteStep
  <2>4. CASE posts \subseteq posts' /\ deleting' = deleting
      BY <2>4 DEF DeleteStep
  <2> QED
      BY <2>1, <2>2, <2>3, <2>4
         DEF TimelineNext, create_post, add_comment, join_group, leave_group,
             fetch, send
<1> QED
    BY <1>1, TimelineInductive, PTL DEF TimelineSpec, DeletedWhole

(***************************************************************************)
(* TimelineIsForContacts: for any number of users, get_timeline shows a    *)
(* post to nobody but its author, the owner of its wall, the members of a  *)
(* group of the author and those who have exchanged a message with the     *)
(* author, whatever rows fetching has deleted and added.                   *)
(***************************************************************************)
THEOREM TimelineIsForContacts == TimelineSpec => []StrangersUnseen
<1>1. TimelineInv => StrangersUnseen
  <2> SUFFICES ASSUME TimelineInv, NEW u \in Users, NEW p \in get_timeline(u)
               PROVE  \/ p.author = u \/ u \in p.wall
                      \/ {u, p.author} \subseteq members
                      \/ {u, p.author} \in talked
      BY DEF StrangersUnseen
  <2>1. p.author = u \/ p.author \in contacts(u) \/ u \in p.wall
      BY DEF get_timeline
  <2>2. CASE u \in members /\ p.author \in members
      BY <2>2
  <2>3. ASSUME NEW r \in rows, r.to = u, p.author = r.from
        PROVE  {u, p.author} \in talked
    <3>1. {u, p.author} = {r.from, r.to}
        BY <2>3
    <3> QED
        BY <3>1 DEF TimelineInv, RowsTalked
  <2>4. ASSUME NEW r \in rows, r.from = u, p.author = r.to
        PROVE  {u, p.author} \in talked
    <3>1. {u, p.author} = {r.from, r.to}
        BY <2>4
    <3> QED
        BY <3>1 DEF TimelineInv, RowsTalked
  <2> QED
      BY <2>1, <2>2, <2>3, <2>4 DEF contacts
<1> QED
    BY <1>1, TimelineInductive, PTL

-----------------------------------------------------------------------------
(***************************************************************************)
(*                                Directory                                *)
(***************************************************************************)

Rows == [user : Users, keys : 1..MaxStarts, presence : {"online", "offline"}]
Phases == {"down", "starting", "prompt", "busy"}
SetJobs == [do : {"set"}, story : 1..MaxStories, at : 0..MaxTime]
GetJobs == [do : {"get"}, cutoff : Int, asked : 0..MaxTime]

\* A handler under way carries the clock reading it began with, and the cutoff
\* of a question is the reading less a day; the clock only went on since.
JobShape ==
    /\ job \in [Procs -> {Idle} \cup SetJobs \cup GetJobs]
    /\ \A c \in Procs : job[c] \in GetJobs =>
        job[c].asked =< clock /\ job[c].cutoff = job[c].asked - Day

\* A running process has keys, and only one at the prompt has asked to be
\* online.
Running ==
    /\ \A c \in Procs : phase[c] # "down" => keys[c] \in 1..MaxStarts
    /\ \A c \in asked : AtPrompt(c)

\* A process that has been its user's only one runs, and no other does.
AloneRuns ==
    \A c \in alone :
        phase[c] # "down" /\ \A d \in Others(c) : phase[d] = "down"

\* At the prompt such a process has a row, with its keys and its presence.
OwnRow ==
    \A c \in alone : AtPrompt(c) =>
        \E r \in users : /\ r.user = Owner[c] /\ r.keys = keys[c]
                         /\ r.presence = "online" <=> c \in asked

DirectoryInv ==
    DirectoryTypeOK /\ JobShape /\ Running /\ AloneRuns /\ OwnRow /\ StoriesExact
-----------------------------------------------------------------------------
\* FaultType: the count of faults stays in its bound.
LEMMA FaultType ==
    ASSUME DirectoryTypeOK, NEW out, Fault(out) PROVE faults' \in 0..MaxFaults
  BY DirectoryAssumption DEF Fault, DirectoryTypeOK

\* RegisterRows: registering leaves every user at most one row, and the caller
\* the new one.
LEMMA RegisterRows ==
    ASSUME DirectoryTypeOK, NEW u \in Users, NEW k \in 1..MaxStarts
    PROVE  /\ register_user(u, k) \subseteq Rows
           /\ \A q, r \in register_user(u, k) : q.user = r.user => q = r
<1> DEFINE new == [user |-> u, keys |-> k, presence |-> "offline"]
<1>1. new \in Rows /\ new.user = u
    BY DEF Rows
<1>2. register_user(u, k) = {r \in users : r.user # u} \cup {new}
    BY DEF register_user
<1>3. users \subseteq Rows /\ \A q, r \in users : q.user = r.user => q = r
    BY DEF DirectoryTypeOK, Rows
<1> HIDE DEF new
<1> QED
    BY <1>1, <1>2, <1>3, Zenon

\* PresenceRows: UPDATE changes the presence of the caller's row only.
LEMMA PresenceRows ==
    ASSUME DirectoryTypeOK, NEW u \in Users, NEW p \in {"online", "offline"}
    PROVE  /\ set_presence(u, p) \subseteq Rows
           /\ \A q, r \in set_presence(u, p) : q.user = r.user => q = r
           /\ \A r \in users : r.user # u => r \in set_presence(u, p)
           /\ \A r \in users : r.user = u =>
                \E q \in set_presence(u, p) :
                    q.user = u /\ q.keys = r.keys /\ q.presence = p
<1> DEFINE f(r) == IF r.user = u THEN [r EXCEPT !.presence = p] ELSE r
<1>1. set_presence(u, p) = {f(r) : r \in users}
    BY DEF set_presence
<1>2. users \subseteq Rows /\ \A q, r \in users : q.user = r.user => q = r
    BY DEF DirectoryTypeOK, Rows
<1>3. ASSUME NEW r \in users
      PROVE  /\ f(r) \in Rows /\ f(r).user = r.user /\ f(r).keys = r.keys
             /\ r.user = u => f(r).presence = p
             /\ r.user # u => f(r) = r
    BY <1>2 DEF Rows
<1> HIDE DEF f
<1> QED
    BY <1>1, <1>2, <1>3

\* DirectoryTypeStep: every step keeps the tables and the processes well formed.
LEMMA DirectoryTypeStep ==
    DirectoryTypeOK /\ JobShape /\ Running /\ [DirectoryNext]_directoryVars => DirectoryTypeOK' /\ JobShape'
<1> SUFFICES ASSUME DirectoryTypeOK, JobShape, Running, [DirectoryNext]_directoryVars
             PROVE  DirectoryTypeOK' /\ JobShape'
    OBVIOUS
<1> USE DirectoryAssumption
<1> DEFINE Goal == DirectoryTypeOK' /\ JobShape'
<1>a. \A j : /\ j \in SetJobs => j.do = "set"
             /\ j \in GetJobs => j.do = "get"
    BY DEF SetJobs, GetJobs
<1>b. Idle.do = "none"
    BY DEF Idle
<1>1. ASSUME NEW c \in Procs, start(c) PROVE Goal
  <2>1. DirectoryTypeOK'
      BY <1>1 DEF start, DirectoryTypeOK, tables, Idle
  <2>2. JobShape'
      BY <1>1 DEF start, JobShape
  <2> QED BY <2>1, <2>2
<1>2. ASSUME NEW c \in Procs, leave(c) PROVE Goal
  <2>1. DirectoryTypeOK'
      BY <1>2 DEF leave, DirectoryTypeOK, tables, NoKeys
  <2>2. JobShape'
      BY <1>2 DEF leave, JobShape
  <2> QED BY <2>1, <2>2
<1>3. ASSUME NEW c \in Procs, NEW out \in Outcomes, register(c, out) PROVE Goal
  <2>1. Owner[c] \in Users /\ keys[c] \in 1..MaxStarts
      BY <1>3 DEF register, Running
  <2>2. /\ users' \subseteq Rows
        /\ \A q, r \in users' : q.user = r.user => q = r
    <3>1. CASE out = "refused"
        BY <1>3, <3>1 DEF register, handle_register, DirectoryTypeOK, Rows
    <3>2. CASE out # "refused"
        BY <1>3, <2>1, <3>2, RegisterRows DEF register, handle_register
    <3> QED BY <3>1, <3>2
  <2>3. faults' \in 0..MaxFaults
      BY <1>3, FaultType DEF register
  <2>4. DirectoryTypeOK'
      BY <1>3, <2>2, <2>3 DEF register, DirectoryTypeOK, Rows, NoKeys
  <2>5. JobShape'
      BY <1>3 DEF register, JobShape
  <2> QED BY <2>4, <2>5
<1>4. ASSUME NEW c \in Procs, NEW p \in {"online", "offline"},
             NEW out \in Outcomes, set_my_presence(c, p, out)
      PROVE  Goal
  <2>1. Owner[c] \in Users
      OBVIOUS
  <2>2. /\ users' \subseteq Rows
        /\ \A q, r \in users' : q.user = r.user => q = r
    <3>1. CASE out = "refused"
        BY <1>4, <3>1 DEF set_my_presence, handle_set_presence, DirectoryTypeOK, Rows
    <3>2. CASE out # "refused"
        BY <1>4, <2>1, <3>2, PresenceRows
        DEF set_my_presence, handle_set_presence
    <3> QED BY <3>1, <3>2
  <2>3. faults' \in 0..MaxFaults
      BY <1>4, FaultType DEF set_my_presence
  <2>4. DirectoryTypeOK'
      BY <1>4, <2>2, <2>3 DEF set_my_presence, DirectoryTypeOK, Rows
  <2>5. JobShape'
      BY <1>4 DEF set_my_presence, JobShape
  <2> QED BY <2>4, <2>5
<1>5. ASSUME NEW c \in Procs, set_status(c) PROVE Goal
  <2> DEFINE j == [do |-> "set", story |-> stories + 1, at |-> clock]
  <2>1. j \in SetJobs /\ j.do = "set" /\ stories + 1 \in 0..MaxStories
      BY <1>5 DEF set_status, SetJobs, DirectoryTypeOK
  <2>2. /\ phase' = [phase EXCEPT ![c] = "busy"]
        /\ job' = [job EXCEPT ![c] = j]
        /\ stories' = stories + 1
        /\ UNCHANGED <<tables, keys, clock, starts, faults, alone, asked>>
      BY <1>5 DEF set_status, ReadClock
  <2>3. j # Idle
      BY <2>1, <1>b
  <2> HIDE DEF j
  <2>4. JobShape'
      BY <2>1, <2>2, <1>a DEF JobShape
  <2>5. DirectoryTypeOK'
      BY <2>1, <2>2, <2>3, <2>4, <1>a, <1>b DEF DirectoryTypeOK, tables, JobShape
  <2> QED BY <2>4, <2>5
<1>6. ASSUME NEW c \in Procs, get_stories(c) PROVE Goal
  <2> DEFINE j == [do |-> "get", cutoff |-> clock - Day, asked |-> clock]
  <2>1. /\ j \in GetJobs /\ j.do = "get"
        /\ j.asked = clock /\ j.cutoff = clock - Day
      BY <1>6 DEF GetJobs, DirectoryTypeOK
  <2>2. /\ phase' = [phase EXCEPT ![c] = "busy"]
        /\ job' = [job EXCEPT ![c] = j]
        /\ UNCHANGED <<tables, keys, clock, starts, stories, faults, alone, asked>>
      BY <1>6 DEF get_stories, ReadClock
  <2>3. j # Idle
      BY <2>1, <1>b
  <2> HIDE DEF j
  <2>4. JobShape'
      BY <2>1, <2>2, <1>a DEF JobShape, DirectoryTypeOK
  <2>5. DirectoryTypeOK'
      BY <2>1, <2>2, <2>3, <2>4, <1>a, <1>b DEF DirectoryTypeOK, tables, JobShape
  <2> QED BY <2>4, <2>5
<1>7. ASSUME NEW c \in Procs, Answered(c),
             clock' = clock
      PROVE  /\ phase' \in [Procs -> Phases]
             /\ \A d \in Procs : /\ job'[d].do \in {"none", "set", "get"}
                                 /\ phase'[d] = "busy" => job'[d] # Idle
             /\ JobShape'
  <2>1. Idle \notin GetJobs
      BY <1>a, <1>b
  <2>2. JobShape'
      BY <1>7, <2>1 DEF Answered, JobShape
  <2>3. \A d \in Procs : job'[d].do \in {"none", "set", "get"}
      BY <2>2, <1>a, <1>b DEF JobShape
  <2> QED
      BY <1>7, <2>2, <2>3 DEF Answered, DirectoryTypeOK, Phases
<1>8. ASSUME NEW c \in Procs, NEW ok \in BOOLEAN, insert_status(c, ok)
      PROVE  Goal
  <2>1. job[c] \in SetJobs
      BY <1>8, <1>a, <1>b DEF insert_status, JobShape
  <2> DEFINE s == [user |-> Owner[c], story |-> job[c].story, at |-> job[c].at]
  <2>2. s \in Story /\ s.user = Owner[c]
      BY <2>1 DEF SetJobs, Story
  <2>3. statuses' = IF ~ok THEN statuses
                    ELSE {x \in statuses : x.user # Owner[c]} \cup {s}
      BY <1>8 DEF insert_status, StatusRows
  <2> HIDE DEF s
  <2>4. /\ statuses' \subseteq Story
        /\ \A q, r \in statuses' : q.user = r.user => q = r
      BY <2>2, <2>3 DEF DirectoryTypeOK
  <2>5. faults' \in 0..MaxFaults
      BY <1>8, FaultType DEF insert_status
  <2>6. Answered(c) /\ UNCHANGED <<users, keys, clock, starts, stories, alone, asked>>
      BY <1>8 DEF insert_status
  <2> QED
      BY <1>7, <2>4, <2>5, <2>6 DEF DirectoryTypeOK, Phases
<1>9. ASSUME NEW c \in Procs, NEW out \in Outcomes, clear_story(c, out)
      PROVE  Goal
  <2>1. statuses' \subseteq statuses
      BY <1>9 DEF clear_story, handle_clear_status, clear_status
  <2>2. faults' \in 0..MaxFaults
      BY <1>9, FaultType DEF clear_story
  <2>3. DirectoryTypeOK'
      BY <1>9, <2>1, <2>2 DEF clear_story, DirectoryTypeOK
  <2>4. JobShape'
      BY <1>9 DEF clear_story, JobShape
  <2> QED BY <2>3, <2>4
<1>10. ASSUME NEW c \in Procs, NEW unread, select_statuses(c, unread)
       PROVE  Goal
  <2>1. Answered(c) /\ UNCHANGED <<tables, keys, clock, starts, stories, alone,
                                   asked>>
      BY <1>10 DEF select_statuses
  <2>2. faults' \in 0..MaxFaults
      BY <1>10, FaultType DEF select_statuses
  <2> QED
      BY <1>7, <2>1, <2>2 DEF DirectoryTypeOK, tables, Phases
<1>11. ASSUME tick PROVE Goal
  <2>1. DirectoryTypeOK'
      BY <1>11 DEF tick, DirectoryTypeOK, tables
  <2>2. clock =< clock' /\ clock' \in 0..MaxTime /\ job' = job
      BY <1>11 DEF tick, DirectoryTypeOK
  <2>3. \A c \in Procs : job[c] \in GetJobs => job[c].asked \in 0..MaxTime
      BY DEF GetJobs
  <2>4. JobShape'
      BY <2>2, <2>3 DEF JobShape, DirectoryTypeOK
  <2> QED BY <2>1, <2>4
<1>12. ASSUME UNCHANGED directoryVars PROVE Goal
    BY <1>12 DEF directoryVars, DirectoryTypeOK, JobShape
<1> QED
    BY <1>1, <1>2, <1>3, <1>4, <1>5, <1>6, <1>8, <1>9, <1>10, <1>11, <1>12
    DEF DirectoryNext, Step

\* DirectoryInvStep: registration, presence and leaving keep the row of a process that
\* is alone its own, and an answer to /stories is exact.
LEMMA DirectoryInvStep == DirectoryInv /\ [DirectoryNext]_directoryVars => DirectoryInv'
<1> SUFFICES ASSUME DirectoryInv, [DirectoryNext]_directoryVars PROVE DirectoryInv'
    OBVIOUS
<1> USE DirectoryAssumption
<1>0. /\ DirectoryTypeOK /\ JobShape /\ Running /\ AloneRuns /\ OwnRow /\ StoriesExact
      /\ DirectoryTypeOK' /\ JobShape'
    BY DirectoryTypeStep DEF DirectoryInv
<1> DEFINE Goal == Running' /\ AloneRuns' /\ OwnRow'
<1>1. ASSUME NEW c \in Procs, start(c) PROVE Goal
  <2>1. /\ phase' = [phase EXCEPT ![c] = "starting"]
        /\ keys' = [keys EXCEPT ![c] = starts + 1]
        /\ starts + 1 \in 1..MaxStarts /\ phase[c] = "down"
        /\ users' = users /\ asked' = asked
      BY <1>0, <1>1 DEF start, DirectoryTypeOK, tables
  <2>2. c \notin alone /\ c \notin asked
      BY <1>0, <2>1 DEF AloneRuns, Running, AtPrompt
  <2>3. Running'
      BY <1>0, <2>1, <2>2 DEF Running, AtPrompt, DirectoryTypeOK
  <2>4. ASSUME NEW d \in alone'
        PROVE  /\ phase'[d] # "down"
               /\ \A e \in Others(d) : phase'[e] = "down"
               /\ d = c \/ d \in alone
    <3>1. CASE d = c
        BY <1>0, <1>1, <2>1, <2>2, <3>1 DEF start, Others, DirectoryTypeOK
    <3>2. CASE d # c
      <4>1. d \in alone /\ d \in Procs /\ Owner[d] # Owner[c]
          BY <1>0, <1>1, <3>2 DEF start, Others, DirectoryTypeOK
      <4> QED
          BY <1>0, <2>1, <4>1 DEF AloneRuns, Others, DirectoryTypeOK
    <3> QED BY <3>1, <3>2
  <2>5. AloneRuns'
      BY <2>4 DEF AloneRuns
  <2>6. ASSUME NEW d \in alone', AtPrompt(d)'
        PROVE  \E r \in users' : /\ r.user = Owner[d] /\ r.keys = keys'[d]
                                 /\ r.presence = "online" <=> d \in asked'
    <3>1. d # c
        BY <1>0, <2>1, <2>6 DEF AtPrompt, DirectoryTypeOK
    <3>2. d \in alone /\ AtPrompt(d) /\ keys'[d] = keys[d]
        BY <1>0, <2>1, <2>4, <2>6, <3>1 DEF AtPrompt, DirectoryTypeOK
    <3> QED
        BY <1>0, <2>1, <3>2 DEF OwnRow
  <2> QED
      BY <2>3, <2>5, <2>6 DEF OwnRow
<1>2. ASSUME NEW c \in Procs, leave(c) PROVE Goal
  <2>1. /\ phase' = [phase EXCEPT ![c] = "down"]
        /\ keys' = [keys EXCEPT ![c] = NoKeys]
        /\ alone' = alone \ {c} /\ asked' = asked \ {c} /\ users' = users
      BY <1>2 DEF leave, tables
  <2>2. Running'
      BY <1>0, <2>1 DEF Running, AtPrompt, DirectoryTypeOK
  <2>3. AloneRuns'
      BY <1>0, <2>1 DEF AloneRuns, Others, DirectoryTypeOK
  <2>4. OwnRow'
      BY <1>0, <2>1 DEF OwnRow, AtPrompt, DirectoryTypeOK
  <2> QED
      BY <2>2, <2>3, <2>4
<1>3. ASSUME NEW c \in Procs, NEW out \in Outcomes, register(c, out) PROVE Goal
  <2>1. /\ phase[c] = "starting" /\ c \notin asked
        /\ phase' = [phase EXCEPT ![c] = IF out = "ok" THEN "prompt" ELSE "down"]
        /\ keys' = [keys EXCEPT ![c] = IF out = "ok" THEN keys[c] ELSE NoKeys]
        /\ alone' = IF out = "ok" THEN alone ELSE alone \ {c}
        /\ asked' = asked
        /\ users' = users \/ users' = register_user(Owner[c], keys[c])
        /\ out = "ok" => users' = register_user(Owner[c], keys[c])
      BY <1>0, <1>3 DEF register, handle_register, Running, AtPrompt, DirectoryTypeOK
  <2>2. Running'
      BY <1>0, <2>1 DEF Running, AtPrompt, DirectoryTypeOK
  <2>3. AloneRuns'
      BY <1>0, <2>1 DEF AloneRuns, Others, DirectoryTypeOK
  <2>4. ASSUME NEW d \in alone', AtPrompt(d)'
        PROVE  \E r \in users' : /\ r.user = Owner[d] /\ r.keys = keys'[d]
                                 /\ r.presence = "online" <=> d \in asked'
    <3>1. CASE d = c
      <4>1. out = "ok" /\ keys'[c] = keys[c]
          BY <1>0, <2>1, <2>4, <3>1 DEF AtPrompt, DirectoryTypeOK
      <4> DEFINE r == [user |-> Owner[c], keys |-> keys[c],
                       presence |-> "offline"]
      <4>2. r \in users'
          BY <2>1, <4>1 DEF register_user
      <4>3. r.user = Owner[c] /\ r.keys = keys[c] /\ r.presence # "online"
          OBVIOUS
      <4> QED
          BY <2>1, <3>1, <4>1, <4>2, <4>3
    <3>2. CASE d # c
      <4>1. d \in alone /\ d \in Procs /\ AtPrompt(d) /\ keys'[d] = keys[d]
          BY <1>0, <2>1, <2>4, <3>2 DEF AtPrompt, DirectoryTypeOK
      <4>2. Owner[d] # Owner[c]
          BY <1>0, <2>1, <3>2, <4>1 DEF AloneRuns, Others
      <4>3. \A r \in users : r.user = Owner[d] => r \in users'
          BY <2>1, <4>2 DEF register_user
      <4> QED
          BY <1>0, <2>1, <4>1, <4>3 DEF OwnRow
    <3> QED BY <3>1, <3>2
  <2> QED
      BY <2>2, <2>3, <2>4 DEF OwnRow
<1>4. ASSUME NEW c \in Procs, NEW p \in {"online", "offline"},
             NEW out \in Outcomes, set_my_presence(c, p, out)
      PROVE  Goal
  <2>1. /\ phase[c] = "prompt" /\ UNCHANGED <<phase, keys, alone>>
        /\ out = "refused" => UNCHANGED <<users, asked>>
        /\ out # "refused" =>
              /\ users' = set_presence(Owner[c], p)
              /\ asked' = IF p = "online" THEN asked \cup {c} ELSE asked \ {c}
      BY <1>4 DEF set_my_presence, handle_set_presence
  <2>2. Running'
      BY <1>0, <2>1 DEF Running, AtPrompt
  <2>3. AloneRuns'
      BY <1>0, <2>1 DEF AloneRuns
  <2>4. CASE out = "refused"
      BY <1>0, <2>1, <2>2, <2>3, <2>4 DEF OwnRow, AtPrompt
  <2>5. CASE out # "refused"
    <3>1. ASSUME NEW d \in alone, AtPrompt(d)
          PROVE  \E r \in users' : /\ r.user = Owner[d] /\ r.keys = keys[d]
                                   /\ r.presence = "online" <=> d \in asked'
      <4>1. PICK r \in users : /\ r.user = Owner[d] /\ r.keys = keys[d]
                               /\ r.presence = "online" <=> d \in asked
          BY <1>0, <3>1 DEF OwnRow
      <4>2. Owner[c] \in Users
          OBVIOUS
      <4>3. CASE d = c
        <5>1. \E q \in users' : q.user = Owner[c] /\ q.keys = r.keys
                                /\ q.presence = p
            BY <1>0, <2>1, <2>5, <4>1, <4>2, <4>3, PresenceRows
        <5>2. p = "online" <=> c \in asked'
            BY <2>1, <2>5
        <5> QED
            BY <4>1, <4>3, <5>1, <5>2
      <4>4. CASE d # c
        <5>1. Owner[d] # Owner[c]
            BY <1>0, <2>1, <4>4 DEF AloneRuns, Others
        <5>2. r \in users'
            BY <1>0, <2>1, <2>5, <4>1, <4>2, <5>1, PresenceRows
        <5>3. d \in asked' <=> d \in asked
            BY <2>1, <2>5, <4>4
        <5> QED
            BY <4>1, <5>2, <5>3
      <4> QED BY <4>3, <4>4
    <3> QED
        BY <2>1, <2>2, <2>3, <3>1 DEF OwnRow, AtPrompt
  <2> QED BY <2>4, <2>5
\* The other steps change a phase only between "prompt" and "busy".
<1>5. ASSUME UNCHANGED <<users, keys, alone, asked>>,
             \/ UNCHANGED phase
             \/ \E c \in Procs : \/ /\ phase[c] = "prompt"
                                    /\ phase' = [phase EXCEPT ![c] = "busy"]
                                 \/ Answered(c)
      PROVE  Goal
  <2>1. \A d \in Procs : /\ phase'[d] = "down" <=> phase[d] = "down"
                         /\ AtPrompt(d)' <=> AtPrompt(d)
      BY <1>0, <1>5 DEF AtPrompt, Answered, DirectoryTypeOK
  <2>2. Running' /\ AloneRuns'
      BY <1>0, <1>5, <2>1 DEF Running, AloneRuns, Others, DirectoryTypeOK
  <2>3. OwnRow'
      BY <1>0, <1>5, <2>1 DEF OwnRow, DirectoryTypeOK
  <2> QED BY <2>2, <2>3
<1>6. ASSUME NEW c \in Procs, set_status(c) \/ get_stories(c) PROVE Goal
    BY <1>5, <1>6 DEF set_status, get_stories, ReadClock, tables
<1>7. ASSUME NEW c \in Procs,
             \/ \E ok \in BOOLEAN : insert_status(c, ok)
             \/ \E out \in Outcomes : clear_story(c, out)
             \/ \E unread : select_statuses(c, unread)
      PROVE  Goal
    BY <1>5, <1>7 DEF insert_status, clear_story, select_statuses, tables
<1>8. ASSUME tick \/ UNCHANGED directoryVars PROVE Goal
    BY <1>5, <1>8 DEF tick, directoryVars, tables
<1>9. Goal
    BY <1>1, <1>2, <1>3, <1>4, <1>6, <1>7, <1>8 DEF DirectoryNext, Step
<1>10. ASSUME NEW c \in Procs, NEW unread, select_statuses(c, unread)
       PROVE  StoriesExact'
  <2>1. job[c] \in GetJobs
    <3>1. \A j \in SetJobs \cup {Idle} : j.do # "get"
        BY DEF SetJobs, Idle
    <3> QED
        BY <1>0, <1>10, <3>1 DEF select_statuses, JobShape
  <2>2. /\ answer'.shown = {s \in statuses : s.at > job[c].cutoff} \ unread
        /\ answer'.rows = statuses \ unread
        /\ answer'.from = job[c].asked /\ answer'.to = clock
      BY <1>10 DEF select_statuses, Active
  <2>3. /\ job[c].asked =< clock /\ job[c].cutoff = job[c].asked - Day
        /\ job[c].asked \in Nat /\ clock \in Nat /\ Day \in Nat
      BY <1>0, <2>1 DEF JobShape, GetJobs, DirectoryTypeOK
  <2>4. \A s \in statuses : s.at \in Nat
      BY <1>0 DEF DirectoryTypeOK, Story
  <2> QED
      BY <2>2, <2>3, <2>4 DEF StoriesExact
<1>11. StoriesExact'
  <2>1. ASSUME answer' = NoAnswer PROVE StoriesExact'
      BY <2>1 DEF StoriesExact, NoAnswer
  <2>2. ASSUME UNCHANGED directoryVars PROVE StoriesExact'
      BY <1>0, <2>2 DEF StoriesExact, directoryVars
  <2> QED
      BY <1>10, <2>1, <2>2 DEF DirectoryNext
<1> QED
    BY <1>0, <1>9, <1>11 DEF DirectoryInv

\* DirectoryInductive: the inductive invariant holds in every state the relay reaches.
LEMMA DirectoryInductive == DirectorySpec => []DirectoryInv
<1>1. DirectoryInit => DirectoryInv
  <2> SUFFICES ASSUME DirectoryInit PROVE DirectoryInv
      OBVIOUS
  <2> USE DirectoryAssumption DEF DirectoryInit
  <2>1. DirectoryTypeOK
      BY DEF DirectoryTypeOK, NoKeys, Idle
  <2>2. JobShape
    <3>1. Idle \notin GetJobs
        BY DEF Idle, GetJobs
    <3> QED
        BY <3>1 DEF JobShape
  <2>3. Running /\ AloneRuns /\ OwnRow
      BY DEF Running, AloneRuns, OwnRow
  <2>4. StoriesExact
      BY DEF StoriesExact, NoAnswer
  <2> QED
      BY <2>1, <2>2, <2>3, <2>4 DEF DirectoryInv
<1> QED
    BY <1>1, DirectoryInvStep, PTL DEF DirectorySpec
-----------------------------------------------------------------------------
(***************************************************************************)
(* OwnKeysServed: for any number of users and processes, while a process   *)
(* at the prompt has been its user's only one, fetch_keys answers with its *)
(* keys and no other, whatever registrations were refused or lost before.  *)
(***************************************************************************)
THEOREM OwnKeysServed == DirectorySpec => []ServedKeysAreOwn
<1>1. DirectoryInv => ServedKeysAreOwn
  <2> SUFFICES ASSUME DirectoryInv, NEW c \in alone, AtPrompt(c)
               PROVE  get_key_bundle(Owner[c]) = {keys[c]}
      BY DEF ServedKeysAreOwn
  <2>1. PICK r \in users : r.user = Owner[c] /\ r.keys = keys[c]
      BY DEF DirectoryInv, OwnRow
  <2>2. \A q \in users : q.user = Owner[c] => q = r
      BY <2>1 DEF DirectoryInv, DirectoryTypeOK
  <2> QED
      BY <2>1, <2>2 DEF get_key_bundle
<1> QED
    BY <1>1, DirectoryInductive, PTL

(***************************************************************************)
(* OwnPresenceListed: for any number of users and processes, list_users    *)
(* shows the user of such a process online exactly if that process asked   *)
(* for it.                                                                 *)
(***************************************************************************)
THEOREM OwnPresenceListed == DirectorySpec => []PresenceIsOwn
<1>1. DirectoryInv => PresenceIsOwn
  <2> SUFFICES ASSUME DirectoryInv, NEW c \in alone, AtPrompt(c)
               PROVE  <<Owner[c], "online">> \in list_users <=> c \in asked
      BY DEF PresenceIsOwn
  <2>1. PICK r \in users : /\ r.user = Owner[c]
                           /\ r.presence = "online" <=> c \in asked
      BY DEF DirectoryInv, OwnRow
  <2>2. \A q \in users : q.user = Owner[c] => q = r
      BY <2>1 DEF DirectoryInv, DirectoryTypeOK
  <2>3. <<Owner[c], "online">> \in list_users
          <=> \E q \in users : q.user = Owner[c] /\ q.presence = "online"
      BY DEF list_users
  <2> QED
      BY <2>1, <2>2, <2>3
<1> QED
    BY <1>1, DirectoryInductive, PTL

(***************************************************************************)
(* StoriesWithinTheDay: for any length of the day and any clock, an answer *)
(* to /stories has every row, of any user, that could be read and was      *)
(* fresh all the time, and none that was stale when the question came.     *)
(***************************************************************************)
THEOREM StoriesWithinTheDay == DirectorySpec => []StoriesExact
<1>1. DirectoryInv => StoriesExact
    BY DEF DirectoryInv
<1> QED
    BY <1>1, DirectoryInductive, PTL
=============================================================================
