------------------------------ MODULE Mailbox -------------------------------
(***************************************************************************)
(* What the relay promises its users: a mailbox per user, which a carrier  *)
(* of that user empties, all at once, into a batch.  A carrier hands over  *)
(* batch after batch, oldest first.  An item leaves the mailbox only so,   *)
(* and is handed over once, or dropped: when its box is emptied, or with   *)
(* the batch it is in.                                                     *)
(***************************************************************************)
EXTENDS Integers

CONSTANTS Owners,    \* users with a box
          Carriers,  \* at most one batch travels with each
          serves     \* [Carriers -> Owners]

VARIABLES box,       \* [Owners -> set of items waiting]
          carried,   \* [Carriers -> set of items travelling]
          handed,    \* [Carriers -> set of items handed over]
          dropped,   \* items that will never be received
          top        \* items are numbered from 1; the next number

mvars == <<box, carried, handed, dropped, top>>

Init ==
    /\ box = [u \in Owners |-> {}]
    /\ carried = [k \in Carriers |-> {}]
    /\ handed = [k \in Carriers |-> {}]
    /\ dropped = {}
    /\ top = 1

\* A new item, numbered after every other, is put in some box.
Post(u) ==
    /\ \E item \in box'[u] :
         /\ item.id = top /\ item.env.to = u
         /\ box' = [box EXCEPT ![u] = @ \cup {item}]
    /\ top' = top + 1
    /\ UNCHANGED <<carried, handed, dropped>>

\* A carrier empties its owner's box; the items in torn are not fit to travel.
Take(k, torn) ==
    /\ carried[k] = {} /\ torn \subseteq box[serves[k]]
    /\ carried' = [carried EXCEPT ![k] = box[serves[k]] \ torn]
    /\ dropped' = dropped \cup torn
    /\ box' = [box EXCEPT ![serves[k]] = {}]
    /\ UNCHANGED <<handed, top>>

\* A carrier hands its batch over; it has handed over nothing newer.
Hand(k) ==
    /\ \A item \in carried[k], before \in handed[k] : before.id < item.id
    /\ handed' = [handed EXCEPT ![k] = @ \cup carried[k]]
    /\ carried' = [carried EXCEPT ![k] = {}]
    /\ UNCHANGED <<box, dropped, top>>

\* Some carriers lose their batches.
Drop(K) ==
    /\ dropped' = dropped \cup UNION {carried[k] : k \in K}
    /\ carried' = [k \in Carriers |-> IF k \in K THEN {} ELSE carried[k]]
    /\ UNCHANGED <<box, handed, top>>

Next ==
    \/ \E u \in Owners : Post(u)
    \/ \E k \in Carriers :
         Hand(k) \/ \E torn \in SUBSET box[serves[k]] : Take(k, torn)
    \/ \E K \in SUBSET Carriers : Drop(K)

Spec == Init /\ [][Next]_mvars
=============================================================================
