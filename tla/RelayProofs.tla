---------------------------- MODULE RelayProofs -----------------------------
(***************************************************************************)
(* Theorems about Relay, for every set of users and connections and every  *)
(* number of commands and faults.                                          *)
(*                                                                         *)
(* The argument has three layers.  LockInv is about single handlers: who   *)
(* is inside fetch_messages, what it read or passed over.  It is proved    *)
(* action by action.  FlowInv is about the rows.  Every action moves rows  *)
(* in one of five ways (FlowStep: a row is queued, a box is taken, a batch *)
(* is handed over, batches are dropped, nothing moves), so FlowInv, and    *)
(* the refinement of Mailbox, are proved for these five.  ReceiptInv is    *)
(* about which messages have a delivery receipt.                           *)
(***************************************************************************)
EXTENDS Relay, WellFoundedInduction, TLAPS

(***************************************************************************)
(* LockInv: at most one handler is inside fetch_messages, the rows it has  *)
(* selected and those it has passed over are together those of the table,  *)
(* and without a fault no row is passed over or lost and nobody is gone.   *)
(***************************************************************************)
OneHolder == \A c, d \in Holders : c = d
SelectionCurrent ==
    \A c \in Conns :
        IF phase[c] = "selected"
        THEN /\ batch[c] = select_for(rows, owner[c]) \ skipped[c]
             /\ skipped[c] \subseteq select_for(rows, owner[c])
        ELSE skipped[c] = {}
Faultless ==
    faults = 0 => /\ lost = {}
                  /\ \A c \in Conns : /\ skipped[c] = {}
                                      /\ phase[c] # "closed" => live[c]

LockInv == TypeOK /\ OneHolder /\ SelectionCurrent /\ Faultless

(***************************************************************************)
(* FlowInv: ids are given out in order, and what is on its way to a user   *)
(* is older than what still waits for that user.                           *)
(***************************************************************************)
IdsGiven == \A r \in Known : r.id \in 1..(next_id - 1)
TakenBeforeWaiting ==
    \A c \in Conns : Older(InFlight(c), select_for(rows, owner[c]))

FlowInv ==
    IdsGiven /\ TakenBeforeWaiting /\ AtMostOnce /\ EveryRowKnown /\ OldestFirst

RelayInv == LockInv /\ FlowInv

(***************************************************************************)
(* The five ways rows move.                                                *)
(***************************************************************************)
PostFlow ==
    /\ \E env \in Envelopes : rows' = queue_message(rows, next_id, env)
    /\ next_id' = next_id + 1
    /\ \A c \in Conns : InFlight(c)' = InFlight(c)
    /\ got' = got /\ Sunk' = Sunk

TakeFlow(c) ==
    /\ InFlight(c) = {} /\ skipped[c] \subseteq select_for(rows, owner[c])
    /\ rows' = delete_for(rows, owner[c])
    /\ InFlight(c)' = select_for(rows, owner[c]) \ skipped[c]
    /\ Sunk' = Sunk \cup skipped[c]
    /\ \A d \in Conns \ {c} : InFlight(d)' = InFlight(d)
    /\ next_id' = next_id /\ got' = got

HandFlow(c) ==
    /\ got' = [got EXCEPT ![c] = @ \cup InFlight(c)]
    /\ InFlight(c)' = {}
    /\ \A d \in Conns \ {c} : InFlight(d)' = InFlight(d)
    /\ rows' = rows /\ next_id' = next_id /\ Sunk' = Sunk

DropFlow(K) ==
    /\ Sunk' = Sunk \cup UNION {InFlight(k) : k \in K}
    /\ \A c \in Conns : InFlight(c)' = IF c \in K THEN {} ELSE InFlight(c)
    /\ rows' = rows /\ next_id' = next_id /\ got' = got

StillFlow ==
    /\ \A c \in Conns : InFlight(c)' = InFlight(c)
    /\ rows' = rows /\ next_id' = next_id /\ got' = got /\ Sunk' = Sunk

FlowStep ==
    \/ PostFlow \/ StillFlow
    \/ \E c \in Conns : TakeFlow(c) \/ HandFlow(c)
    \/ \E K \in SUBSET Conns : DropFlow(K)
-----------------------------------------------------------------------------
\* FirstRow: the row a loop in id order handles next is one of the rows.
LEMMA FirstRow ==
    ASSUME NEW S \in SUBSET Rows, S # {}
    PROVE  first_row(S) \in S
<1> DEFINE T == {r.id : r \in S}
<1>1. T \subseteq Nat /\ T # {}
    BY DEF Rows
<1>2. \E x \in T : \A y \in T : ~(<<y, x>> \in OpToRel(<, Nat))
    BY <1>1, NatLessThanWellFounded, WFMin
<1>3. PICK x \in T : \A y \in T : ~(<<y, x>> \in OpToRel(<, Nat))
    BY <1>2
<1>4. \A y \in T : x =< y
  <2> TAKE y \in T
  <2>1. x \in Nat /\ y \in Nat
      BY <1>1
  <2>2. y < x => <<y, x>> \in OpToRel(<, Nat)
      BY <2>1, Zenon DEF OpToRel
  <2>3. ~(y < x)
      BY <2>2, <1>3
  <2> QED
      BY <2>1, <2>3
<1>5. PICK r \in S : r.id = x
    BY <1>3
<1>6. \A s \in S : r.id =< s.id
    BY <1>4, <1>5
<1> QED
    BY <1>6 DEF first_row

\* A row queued for a typed envelope keeps the table typed.
LEMMA QueueType ==
    ASSUME NEW table \in SUBSET Rows, NEW id \in Nat, NEW env \in Envelopes
    PROVE  queue_message(table, id, env) \in SUBSET Rows
BY DEF queue_message, Rows

\* Whatever a client writes in a "send" is an envelope.
LEMMA ClientEnvelopesType ==
    ASSUME TypeOK, NEW u \in Users
    PROVE  ClientEnvelopes(u) \in SUBSET Envelopes
<1>1. clock + 1 \in Nat /\ ReceivedBy(u) \in SUBSET Rows
    BY RelayAssumption DEF TypeOK, ReceivedBy
<1>2. \A v \in Users, t \in SentTypes :
        MessageEnvelope(u, v, t, clock + 1, Opaque) \in Envelopes
    BY <1>1, RelayAssumption DEF MessageEnvelope, Envelopes
<1>3. \A r \in receipt_due(ReceivedBy(u)) :
        ReceiptEnvelope(u, r.env.from, "Read", r.env.ts, Opaque) \in Envelopes
    BY <1>1 DEF receipt_due, Rows, ReceiptEnvelope, Envelopes, ReceiptTypes
<1> QED
    BY <1>2, <1>3 DEF ClientEnvelopes

\* So is the delivery receipt of a message of the batch.
LEMMA DeliveryReceiptType ==
    ASSUME NEW u \in Users, NEW r \in Rows
    PROVE  delivery_receipt(u, r.env, Opaque) \in Envelopes
BY DEF delivery_receipt, ReceiptEnvelope, Envelopes, Rows, ReceiptTypes

\* The rows on their way in a connection are rows.
LEMMA InFlightType ==
    ASSUME TypeOK, NEW c \in Conns
    PROVE  InFlight(c) \in SUBSET Rows
BY DEF TypeOK, InFlight

(***************************************************************************)
(* TypeStep: every action of the relay and of its clients keeps the state  *)
(* well formed.                                                            *)
(***************************************************************************)
LEMMA TypeStep == TypeOK /\ [Next]_vars => TypeOK'
<1> SUFFICES ASSUME TypeOK, [Next]_vars PROVE TypeOK'
    OBVIOUS
<1> USE RelayAssumption
<1>1. ASSUME NEW c \in Conns, Connect(c) PROVE TypeOK'
    BY <1>1 DEF Connect, TypeOK, Phases
<1>2. ASSUME NEW c \in Conns, SendCmd(c) PROVE TypeOK'
  <2>1. PICK env \in ClientEnvelopes(owner[c]) :
          pend' = [pend EXCEPT ![c] = {env}]
      BY <1>2 DEF SendCmd
  <2>2. env \in Envelopes
      BY <2>1, ClientEnvelopesType
  <2> QED
      BY <1>2, <2>1, <2>2 DEF SendCmd, TypeOK, Phases
<1>3. ASSUME NEW c \in Conns, ReceiveCmd(c) PROVE TypeOK'
    BY <1>3 DEF ReceiveCmd, TypeOK, Phases
<1>4. ASSUME NEW c \in Conns, ReadResponse(c) PROVE TypeOK'
    BY <1>4, InFlightType DEF ReadResponse, TypeOK, Phases
<1>5. ASSUME NEW c \in Conns, Disconnect(c) PROVE TypeOK'
    BY <1>5 DEF Disconnect, TypeOK, Phases
<1>6. ASSUME NEW c \in Conns, handle_send(c) PROVE TypeOK'
  <2>1. PICK env \in pend[c] : rows' = queue_message(rows, next_id, env)
      BY <1>6 DEF handle_send
  <2>2. rows' \in SUBSET Rows
      BY <2>1, QueueType DEF TypeOK
  <2> QED
      BY <1>6, <2>2 DEF handle_send, TypeOK, Phases
<1>7. ASSUME NEW c \in Conns, handle_send_error(c) PROVE TypeOK'
    BY <1>7 DEF handle_send_error, TypeOK, Phases
<1>8. ASSUME NEW c \in Conns, fetch_select(c) PROVE TypeOK'
    BY <1>8 DEF fetch_select, select_for, TypeOK, Phases
<1>9. ASSUME NEW c \in Conns, fetch_delete(c) PROVE TypeOK'
    BY <1>9 DEF fetch_delete, delete_for, receipt_due, TypeOK, Phases, Causes
<1>10. ASSUME NEW c \in Conns, fetch_receipt(c) PROVE TypeOK'
  <2> DEFINE r == first_row(todo[c])
  <2>1. r \in Rows
      BY <1>10, FirstRow DEF fetch_receipt, TypeOK
  <2>2. rows' \in SUBSET Rows
      BY <1>10, <2>1, DeliveryReceiptType, QueueType DEF fetch_receipt, TypeOK
  <2>3. todo' \in [Conns -> SUBSET Rows]
      BY <1>10 DEF fetch_receipt, TypeOK
  <2> QED
      BY <1>10, <2>2, <2>3 DEF fetch_receipt, TypeOK
<1>11. ASSUME NEW c \in Conns, fetch_return(c) PROVE TypeOK'
    BY <1>11 DEF fetch_return, TypeOK, Phases
<1>12. ASSUME NEW c \in Conns, fetch_error(c) PROVE TypeOK'
    BY <1>12, InFlightType DEF fetch_error, TypeOK, Phases, Causes
<1>13. ASSUME NEW c \in Conns, write_ignored(c) PROVE TypeOK'
    BY <1>13, InFlightType DEF write_ignored, TypeOK, Phases, Causes
<1>14. ASSUME NEW c \in Conns, read_error(c) PROVE TypeOK'
    BY <1>14 DEF read_error, TypeOK, Phases
<1>15. ASSUME Restart PROVE TypeOK'
  <2>1. UNION {InFlight(c) : c \in Conns} \subseteq Rows
      BY InFlightType
  <2> QED
      BY <1>15, <2>1 DEF Restart, TypeOK, Phases, Causes
<1>16. CASE UNCHANGED vars
    BY <1>16 DEF vars, TypeOK
<1>17. ASSUME NEW c \in Conns, fetch_select_skips(c) PROVE TypeOK'
  <2>1. PICK bad \in SUBSET select_for(rows, owner[c]) :
          /\ batch' = [batch EXCEPT ![c] = select_for(rows, owner[c]) \ bad]
          /\ skipped' = [skipped EXCEPT ![c] = bad]
      BY <1>17 DEF fetch_select_skips
  <2> QED
      BY <1>17, <2>1 DEF fetch_select_skips, select_for, TypeOK, Phases
<1> QED
    BY <1>1, <1>2, <1>3, <1>4, <1>5, <1>6, <1>7, <1>8, <1>9, <1>10, <1>11,
       <1>12, <1>13, <1>14, <1>15, <1>16, <1>17 DEF Next, Client, handle_client

(***************************************************************************)
(* TypeCorrect: the relay's state is well formed in every reachable state, *)
(* for any users, connections and bounds.                                  *)
(***************************************************************************)
THEOREM TypeCorrect == Spec => []TypeOK
<1>1. Init => TypeOK
    BY RelayAssumption DEF Init, TypeOK, Phases
<1> QED
    BY <1>1, TypeStep, PTL DEF Spec
-----------------------------------------------------------------------------
(***************************************************************************)
(* LockStep: the handlers keep each other out of fetch_messages, so what   *)
(* one has selected or passed over is still what its DELETE will delete.   *)
(***************************************************************************)
LEMMA LockStep == LockInv /\ [Next]_vars => LockInv'
<1> SUFFICES ASSUME LockInv, [Next]_vars PROVE LockInv'
    OBVIOUS
<1> USE RelayAssumption
<1>0. TypeOK /\ TypeOK' /\ OneHolder /\ SelectionCurrent /\ Faultless
    BY TypeStep DEF LockInv
<1> DEFINE Goal == OneHolder' /\ SelectionCurrent' /\ Faultless'
<1>1. ASSUME NEW c \in Conns, Connect(c) PROVE Goal
    BY <1>0, <1>1 DEF Connect, TypeOK, OneHolder, Holders, SelectionCurrent,
                      Faultless
<1>2. ASSUME NEW c \in Conns, SendCmd(c) PROVE Goal
    BY <1>0, <1>2 DEF SendCmd, TypeOK, OneHolder, Holders, SelectionCurrent,
                      Faultless
<1>3. ASSUME NEW c \in Conns, ReceiveCmd(c) PROVE Goal
    BY <1>0, <1>3 DEF ReceiveCmd, TypeOK, OneHolder, Holders,
                      SelectionCurrent, Faultless
<1>4. ASSUME NEW c \in Conns, ReadResponse(c) PROVE Goal
    BY <1>0, <1>4 DEF ReadResponse, TypeOK, OneHolder, Holders,
                      SelectionCurrent, Faultless
<1>5. ASSUME NEW c \in Conns, Disconnect(c) PROVE Goal
    BY <1>0, <1>5 DEF Disconnect, TypeOK, OneHolder, Holders,
                      SelectionCurrent, Faultless
<1>6. ASSUME NEW c \in Conns, handle_send(c) PROVE Goal
  <2>1. \A d \in Conns : phase[d] # "selected" /\ phase[d] # "deleted"
      BY <1>6 DEF handle_send, MutexFree, Holders
  <2> QED
      BY <1>0, <1>6, <2>1 DEF handle_send, TypeOK, OneHolder, Holders,
                              SelectionCurrent, Faultless
<1>7. ASSUME NEW c \in Conns, handle_send_error(c) PROVE Goal
    BY <1>0, <1>7 DEF handle_send_error, TypeOK, OneHolder, Holders,
                      SelectionCurrent, Faultless
<1>8. ASSUME NEW c \in Conns, fetch_select(c) PROVE Goal
  <2>1. \A d \in Conns : phase[d] # "selected" /\ phase[d] # "deleted"
      BY <1>8 DEF fetch_select, MutexFree, Holders
  <2> QED
      BY <1>0, <1>8, <2>1 DEF fetch_select, TypeOK, OneHolder, Holders,
                              SelectionCurrent, Faultless
<1>9. ASSUME NEW c \in Conns, fetch_delete(c) PROVE Goal
    BY <1>0, <1>9 DEF fetch_delete, TypeOK, OneHolder, Holders,
                      SelectionCurrent, Faultless
<1>10. ASSUME NEW c \in Conns, fetch_receipt(c) PROVE Goal
    BY <1>0, <1>10 DEF fetch_receipt, TypeOK, OneHolder, Holders,
                       SelectionCurrent, Faultless
<1>11. ASSUME NEW c \in Conns, fetch_return(c) PROVE Goal
    BY <1>0, <1>11 DEF fetch_return, TypeOK, OneHolder, Holders,
                       SelectionCurrent, Faultless
<1>12. ASSUME NEW c \in Conns, fetch_error(c) PROVE Goal
    BY <1>0, <1>12 DEF fetch_error, TypeOK, OneHolder, Holders,
                       SelectionCurrent, Faultless
<1>13. ASSUME NEW c \in Conns, write_ignored(c) PROVE Goal
    BY <1>0, <1>13 DEF write_ignored, TypeOK, OneHolder, Holders,
                       SelectionCurrent, Faultless
<1>14. ASSUME NEW c \in Conns, read_error(c) PROVE Goal
    BY <1>0, <1>14 DEF read_error, TypeOK, OneHolder, Holders,
                       SelectionCurrent, Faultless
<1>15. ASSUME Restart PROVE Goal
  <2>1. faults' # 0
      BY <1>0, <1>15 DEF Restart, TypeOK
  <2> QED
      BY <1>15, <2>1 DEF Restart, OneHolder, Holders, SelectionCurrent,
                         Faultless
<1>16. ASSUME UNCHANGED vars PROVE Goal
    BY <1>0, <1>16 DEF vars, OneHolder, Holders, SelectionCurrent, Faultless
<1>18. ASSUME NEW c \in Conns, fetch_select_skips(c) PROVE Goal
  <2>1. \A d \in Conns : phase[d] # "selected" /\ phase[d] # "deleted"
      BY <1>18 DEF fetch_select_skips, MutexFree, Holders
  <2>2. PICK bad \in SUBSET select_for(rows, owner[c]) :
          /\ batch' = [batch EXCEPT ![c] = select_for(rows, owner[c]) \ bad]
          /\ skipped' = [skipped EXCEPT ![c] = bad]
      BY <1>18 DEF fetch_select_skips
  <2> QED
      BY <1>0, <1>18, <2>1, <2>2 DEF fetch_select_skips, TypeOK, OneHolder,
                                     Holders, SelectionCurrent, Faultless
<1>17. Goal
    BY <1>1, <1>2, <1>3, <1>4, <1>5, <1>6, <1>7, <1>8, <1>9, <1>10, <1>11,
       <1>12, <1>13, <1>14, <1>15, <1>16, <1>18 DEF Next, Client, handle_client
<1> QED
    BY <1>0, <1>17 DEF LockInv

\* The rows named by the log of lost rows, after some more were lost.
LEMMA SunkMore ==
    ASSUME NEW R, NEW w,
           lost' = lost \cup {[row |-> r, why |-> w] : r \in R}
    PROVE  Sunk' = Sunk \cup R
<1> DEFINE more == {[row |-> r, why |-> w] : r \in R}
<1>1. {l.row : l \in more} = R
  <2>1. \A r \in R : [row |-> r, why |-> w] \in more
      OBVIOUS
  <2>2. \A l \in more : l.row \in R
      OBVIOUS
  <2>3. ASSUME NEW r \in R PROVE \E l \in more : r = l.row
    <3>1. r = [row |-> r, why |-> w].row
        OBVIOUS
    <3> QED
        BY <3>1, <2>1
  <2> QED
      BY <2>2, <2>3
<1>2. {l.row : l \in lost \cup more}
        = {l.row : l \in lost} \cup {l.row : l \in more}
    BY Zenon
<1> QED
    BY <1>1, <1>2 DEF Sunk

\* The DELETE takes the batch, and what was passed over is lost.
LEMMA DeleteTakes ==
    ASSUME LockInv, NEW c \in Conns, fetch_delete(c)
    PROVE  TakeFlow(c)
<1> DEFINE R == skipped[c]
<1>1. lost' = lost \cup {[row |-> r, why |-> "skipped"] : r \in R}
    BY DEF fetch_delete
<1>2. Sunk' = Sunk \cup R
  <2> HIDE DEF R
  <2> QED BY <1>1, SunkMore
<1>3. /\ phase[c] = "selected" /\ phase' = [phase EXCEPT ![c] = "deleted"]
      /\ batch' = batch /\ rows' = delete_for(rows, owner[c])
      /\ next_id' = next_id /\ got' = got
    BY DEF fetch_delete
<1>4. /\ batch[c] = select_for(rows, owner[c]) \ skipped[c]
      /\ skipped[c] \subseteq select_for(rows, owner[c])
    BY <1>3 DEF LockInv, SelectionCurrent
<1>5. /\ InFlight(c) = {} /\ InFlight(c)' = batch[c]
      /\ \A d \in Conns \ {c} : InFlight(d)' = InFlight(d)
    BY <1>3 DEF LockInv, TypeOK, InFlight
<1> QED
    BY <1>2, <1>3, <1>4, <1>5 DEF TakeFlow

\* Passing rows over moves none.
LEMMA SkipStill ==
    ASSUME LockInv, NEW c \in Conns, fetch_select_skips(c)
    PROVE  StillFlow
<1>1. PICK bad \in SUBSET select_for(rows, owner[c]) :
        batch' = [batch EXCEPT ![c] = select_for(rows, owner[c]) \ bad]
    BY DEF fetch_select_skips
<1>2. phase[c] = "receive" /\ phase' = [phase EXCEPT ![c] = "selected"]
    BY DEF fetch_select_skips
<1>3. \A d \in Conns : InFlight(d)' = InFlight(d)
    BY <1>1, <1>2 DEF LockInv, TypeOK, InFlight
<1> QED
    BY <1>3 DEF fetch_select_skips, StillFlow, Sunk

(***************************************************************************)
(* Flow: every action moves rows in one of the five ways.                  *)
(***************************************************************************)
LEMMA Flow == LockInv /\ [Next]_vars => FlowStep
<1> SUFFICES ASSUME LockInv, [Next]_vars PROVE FlowStep
    OBVIOUS
<1> USE RelayAssumption
<1>0. TypeOK /\ SelectionCurrent
    BY DEF LockInv
<1>1. ASSUME NEW c \in Conns, Connect(c) PROVE FlowStep
  <2>1. StillFlow
      BY <1>0, <1>1 DEF Connect, TypeOK, StillFlow, InFlight, Sunk
  <2> QED
      BY <2>1 DEF FlowStep
<1>2. ASSUME NEW c \in Conns, SendCmd(c) PROVE FlowStep
  <2>1. StillFlow
      BY <1>0, <1>2 DEF SendCmd, TypeOK, StillFlow, InFlight, Sunk
  <2> QED
      BY <2>1 DEF FlowStep
<1>3. ASSUME NEW c \in Conns, ReceiveCmd(c) PROVE FlowStep
  <2>1. StillFlow
      BY <1>0, <1>3 DEF ReceiveCmd, TypeOK, StillFlow, InFlight, Sunk
  <2> QED
      BY <2>1 DEF FlowStep
<1>4. ASSUME NEW c \in Conns, ReadResponse(c) PROVE FlowStep
  <2>1. HandFlow(c)
      BY <1>0, <1>4 DEF ReadResponse, TypeOK, HandFlow, InFlight, Sunk
  <2> QED
      BY <2>1 DEF FlowStep
<1>5. ASSUME NEW c \in Conns, Disconnect(c) PROVE FlowStep
  <2>1. StillFlow
      BY <1>0, <1>5 DEF Disconnect, TypeOK, StillFlow, InFlight, Sunk
  <2> QED
      BY <2>1 DEF FlowStep
<1>6. ASSUME NEW c \in Conns, handle_send(c) PROVE FlowStep
  <2>1. PostFlow
      BY <1>0, <1>6 DEF handle_send, TypeOK, PostFlow, InFlight, Sunk
  <2> QED
      BY <2>1 DEF FlowStep
<1>7. ASSUME NEW c \in Conns, handle_send_error(c) PROVE FlowStep
  <2>1. StillFlow
      BY <1>0, <1>7 DEF handle_send_error, TypeOK, StillFlow, InFlight, Sunk
  <2> QED
      BY <2>1 DEF FlowStep
<1>8. ASSUME NEW c \in Conns, fetch_select(c) PROVE FlowStep
  <2>1. StillFlow
      BY <1>0, <1>8 DEF fetch_select, TypeOK, StillFlow, InFlight, Sunk
  <2> QED
      BY <2>1 DEF FlowStep
<1>9. ASSUME NEW c \in Conns, fetch_delete(c) PROVE FlowStep
    BY <1>9, DeleteTakes DEF FlowStep
<1>10. ASSUME NEW c \in Conns, fetch_receipt(c) PROVE FlowStep
  <2> DEFINE env == delivery_receipt(owner[c], first_row(todo[c]).env, Opaque)
  <2>1. env \in Envelopes
      BY <1>0, <1>10, FirstRow, DeliveryReceiptType DEF fetch_receipt, TypeOK
  <2>2. rows' = queue_message(rows, next_id, env)
      BY <1>10 DEF fetch_receipt
  <2>3. /\ next_id' = next_id + 1 /\ got' = got /\ Sunk' = Sunk
        /\ \A d \in Conns : InFlight(d)' = InFlight(d)
      BY <1>0, <1>10 DEF fetch_receipt, InFlight, Sunk
  <2>4. PostFlow
      BY <2>1, <2>2, <2>3 DEF PostFlow
  <2> QED
      BY <2>4 DEF FlowStep
<1>11. ASSUME NEW c \in Conns, fetch_return(c) PROVE FlowStep
  <2>1. StillFlow
      BY <1>0, <1>11 DEF fetch_return, TypeOK, StillFlow, InFlight, Sunk
  <2> QED
      BY <2>1 DEF FlowStep
<1>12. ASSUME NEW c \in Conns, fetch_error(c) PROVE FlowStep
  <2> DEFINE R == InFlight(c)
  <2>1. lost' = lost \cup {[row |-> r, why |-> "error"] : r \in R}
      BY <1>12 DEF fetch_error
  <2>2. Sunk' = Sunk \cup R
      <3> HIDE DEF R
      <3> QED BY <2>1, SunkMore
  <2>3. DropFlow({c})
      BY <1>0, <1>12, <2>2 DEF fetch_error, TypeOK, DropFlow, InFlight
  <2> QED
      BY <2>3 DEF FlowStep
<1>13. ASSUME NEW c \in Conns, write_ignored(c) PROVE FlowStep
  <2> DEFINE R == InFlight(c)
  <2>1. lost' = lost \cup {[row |-> r, why |-> "gone"] : r \in R}
      BY <1>13 DEF write_ignored
  <2>2. Sunk' = Sunk \cup R
      <3> HIDE DEF R
      <3> QED BY <2>1, SunkMore
  <2>3. DropFlow({c})
      BY <1>0, <1>13, <2>2 DEF write_ignored, TypeOK, DropFlow, InFlight
  <2> QED
      BY <2>3 DEF FlowStep
<1>14. ASSUME NEW c \in Conns, read_error(c) PROVE FlowStep
  <2>1. StillFlow
      BY <1>0, <1>14 DEF read_error, TypeOK, StillFlow, InFlight, Sunk
  <2> QED
      BY <2>1 DEF FlowStep
<1>15. ASSUME Restart PROVE FlowStep
  <2> DEFINE R == UNION {InFlight(k) : k \in Conns}
  <2>1. lost' = lost \cup {[row |-> r, why |-> "crash"] : r \in R}
      BY <1>15 DEF Restart
  <2>2. Sunk' = Sunk \cup R
      <3> HIDE DEF R
      <3> QED BY <2>1, SunkMore
  <2>3. \A d \in Conns : InFlight(d)' = {}
      BY <1>15 DEF Restart, InFlight
  <2>4. DropFlow(Conns)
      BY <1>15, <2>2, <2>3 DEF Restart, DropFlow
  <2> QED
      BY <2>4 DEF FlowStep
<1>16. ASSUME UNCHANGED vars PROVE FlowStep
  <2>1. StillFlow
      BY <1>16 DEF vars, StillFlow, InFlight, Sunk
  <2> QED
      BY <2>1 DEF FlowStep
<1>17. ASSUME NEW c \in Conns, fetch_select_skips(c) PROVE FlowStep
    BY <1>17, SkipStill DEF FlowStep
<1> QED
    BY <1>1, <1>2, <1>3, <1>4, <1>5, <1>6, <1>7, <1>8, <1>9, <1>10, <1>11,
       <1>12, <1>13, <1>14, <1>15, <1>16, <1>17 DEF Next, Client, handle_client
-----------------------------------------------------------------------------
\* What is in flight, or received, is so on some connection.
LEMMA FlyingParts ==
    /\ \A c \in Conns : InFlight(c) \subseteq Flying
    /\ \A r \in Flying : \E c \in Conns : r \in InFlight(c)
    /\ \A c \in Conns : got[c] \subseteq Received
    /\ \A r \in Received : \E c \in Conns : r \in got[c]
BY DEF Flying, Received

\* The same after a step.
LEMMA FlyingPartsNext ==
    /\ \A c \in Conns : InFlight(c)' \subseteq Flying'
    /\ \A r \in Flying' : \E c \in Conns : r \in InFlight(c)'
    /\ \A c \in Conns : got'[c] \subseteq Received'
    /\ \A r \in Received' : \E c \in Conns : r \in got'[c]
BY DEF Flying, Received

(***************************************************************************)
(* FlowPost: a queued row gets an id of its own, larger than all others.   *)
(***************************************************************************)
LEMMA FlowPost ==
    ASSUME LockInv, FlowInv, PostFlow
    PROVE  FlowInv'
<1> USE RelayAssumption
<1>1. PICK env \in Envelopes : rows' = queue_message(rows, next_id, env)
    BY DEF PostFlow
<1> DEFINE n == [id |-> next_id, env |-> env]
<1>2. rows' = rows \cup {n} /\ n.id = next_id /\ next_id' = next_id + 1
    BY <1>1 DEF queue_message, PostFlow
<1>3. /\ \A c \in Conns : InFlight(c)' = InFlight(c)
      /\ got' = got /\ Sunk' = Sunk /\ next_id \in Nat \ {0}
    BY DEF PostFlow, LockInv, TypeOK
<1>4. Flying' = Flying /\ Received' = Received
    BY <1>3, FlyingParts, FlyingPartsNext
<1>5. Known' = Known \cup {n}
    BY <1>2, <1>3, <1>4 DEF Known
<1> HIDE DEF n
<1>6. \A r \in Known : r.id \in 1..(next_id - 1)
    BY DEF FlowInv, IdsGiven
<1>7. IdsGiven'
    BY <1>2, <1>3, <1>5, <1>6 DEF IdsGiven
<1>8. n \notin Known
    BY <1>2, <1>3, <1>6
<1>9. TakenBeforeWaiting'
  <2> SUFFICES ASSUME NEW c \in Conns, NEW r \in InFlight(c)',
                      NEW s \in select_for(rows', owner[c])
               PROVE  r.id < s.id
      BY DEF TakenBeforeWaiting, Older
  <2>1. r \in InFlight(c) /\ r \in Known
      BY <1>3, FlyingParts DEF Known
  <2>2. s = n \/ s \in select_for(rows, owner[c])
      BY <1>2 DEF select_for
  <2> QED
      BY <1>2, <1>3, <1>6, <2>1, <2>2 DEF FlowInv, TakenBeforeWaiting,
                                              Older
<1>10. AtMostOnce'
    BY <1>2, <1>3, <1>4, <1>5, <1>6, <1>8 DEF FlowInv, AtMostOnce, Known
<1>11. EveryRowKnown'
  <2> SUFFICES ASSUME NEW i \in 1..(next_id' - 1)
               PROVE  \E r \in Known' : r.id = i
      BY DEF EveryRowKnown
  <2>1. i = next_id \/ i \in 1..(next_id - 1)
      BY <1>2, <1>3
  <2> QED
      BY <1>2, <1>5, <2>1 DEF FlowInv, EveryRowKnown
<1>12. OldestFirst'
  <2>1. ASSUME NEW c \in Conns, NEW g \in got'[c],
               NEW r \in select_for(rows', owner[c])
        PROVE  g.id < r.id
    <3>1. g \in got[c] /\ g \in Known
        BY <1>3, <2>1, FlyingParts DEF Known
    <3>2. r = n \/ r \in select_for(rows, owner[c])
        BY <1>2, <2>1 DEF select_for
    <3> QED
        BY <1>2, <1>3, <1>6, <3>1, <3>2 DEF FlowInv, OldestFirst, Older
  <2> QED
      BY <1>3, <2>1 DEF FlowInv, OldestFirst, Older
<1> QED
    BY <1>7, <1>9, <1>10, <1>11, <1>12 DEF FlowInv

(***************************************************************************)
(* FlowTake: the DELETE of fetch_messages moves a user's rows from the     *)
(* table to the batch, exactly those.                                      *)
(***************************************************************************)
LEMMA FlowTake ==
    ASSUME LockInv, FlowInv, NEW c \in Conns, TakeFlow(c)
    PROVE  FlowInv'
<1> USE RelayAssumption
<1> DEFINE S == select_for(rows, owner[c])
           B == S \ skipped[c]
           T == skipped[c]
<1>1. S \subseteq rows /\ rows' = rows \ S
    BY DEF TakeFlow, select_for, delete_for
<1>2. /\ InFlight(c) = {} /\ InFlight(c)' = B
      /\ \A d \in Conns \ {c} : InFlight(d)' = InFlight(d)
      /\ next_id' = next_id /\ got' = got /\ Sunk' = Sunk \cup T
    BY DEF TakeFlow
<1>3. select_for(rows', owner[c]) = {}
    BY <1>1 DEF select_for
<1>4. \A d \in Conns : owner[d] # owner[c] =>
        select_for(rows', owner[d]) = select_for(rows, owner[d])
    BY <1>1 DEF select_for
<1>5. S = B \cup T /\ B \cap T = {} /\ S = select_for(rows, owner[c])
    BY DEF TakeFlow
<1> HIDE DEF S, B, T
<1>7. Flying' = Flying \cup B
    BY <1>2, FlyingParts, FlyingPartsNext
<1>8. Received' = Received
    BY <1>2, FlyingParts, FlyingPartsNext
<1>9. Known' = Known
    BY <1>1, <1>2, <1>5, <1>7, <1>8 DEF Known
<1>10. IdsGiven'
    BY <1>2, <1>9 DEF FlowInv, IdsGiven
<1>11. TakenBeforeWaiting'
  <2> SUFFICES ASSUME NEW d \in Conns
               PROVE  Older(InFlight(d)', select_for(rows', owner[d]))
      BY DEF TakenBeforeWaiting, Older
  <2>1. CASE owner[d] = owner[c]
      BY <1>3, <2>1 DEF Older
  <2>2. CASE owner[d] # owner[c]
      BY <1>2, <1>4, <2>2 DEF FlowInv, TakenBeforeWaiting
  <2> QED
      BY <2>1, <2>2
<1>12. AtMostOnce'
  <2>1. \A d, e \in Conns : d # e => InFlight(d)' \cap InFlight(e)' = {}
      BY <1>1, <1>2, <1>5, FlyingParts DEF FlowInv, AtMostOnce
  <2> QED
      BY <1>1, <1>2, <1>5, <1>7, <1>8, <1>9, <2>1 DEF FlowInv, AtMostOnce
<1>13. EveryRowKnown'
    BY <1>2, <1>9 DEF FlowInv, EveryRowKnown
<1>14. OldestFirst'
  <2>1. ASSUME NEW d \in Conns
        PROVE  /\ Older(got'[d], select_for(rows', owner[d]))
               /\ Older(got'[d], InFlight(d)')
    <3>1. CASE owner[d] = owner[c]
        BY <1>2, <1>3, <1>5, <3>1 DEF FlowInv, OldestFirst, Older
    <3>2. CASE owner[d] # owner[c]
        BY <1>2, <1>4, <3>2 DEF FlowInv, OldestFirst
    <3> QED
        BY <3>1, <3>2
  <2>2. ASSUME NEW d \in Conns, NEW e \in Conns, d # e, owner[d] = owner[e]
        PROVE  \/ Older(InFlight(d)', InFlight(e)')
               \/ Older(InFlight(e)', InFlight(d)')
    <3>1. ASSUME NEW f \in Conns \ {c}, owner[f] = owner[c]
          PROVE  Older(InFlight(f)', InFlight(c)')
        BY <1>2, <1>5, <3>1 DEF FlowInv, TakenBeforeWaiting, Older
    <3>2. CASE d = c
        BY <2>2, <3>1, <3>2
    <3>3. CASE e = c
        BY <2>2, <3>1, <3>3
    <3>4. CASE d # c /\ e # c
        BY <1>2, <2>2, <3>4 DEF FlowInv, OldestFirst
    <3> QED
        BY <3>2, <3>3, <3>4
  <2> QED
      BY <2>1, <2>2 DEF OldestFirst, Older
<1> QED
    BY <1>10, <1>11, <1>12, <1>13, <1>14 DEF FlowInv

(***************************************************************************)
(* FlowHand: a response that is read moves its batch to the received rows  *)
(* of its connection.                                                      *)
(***************************************************************************)
LEMMA FlowHand ==
    ASSUME LockInv, FlowInv, NEW c \in Conns, HandFlow(c)
    PROVE  FlowInv'
<1> USE RelayAssumption
<1> DEFINE B == InFlight(c)
<1>1. /\ InFlight(c)' = {}
      /\ \A d \in Conns \ {c} : InFlight(d)' = InFlight(d)
      /\ rows' = rows /\ next_id' = next_id /\ Sunk' = Sunk
    BY DEF HandFlow
<1>2. /\ got'[c] = got[c] \cup B
      /\ \A d \in Conns \ {c} : got'[d] = got[d]
    BY DEF HandFlow, LockInv, TypeOK
<1>3. B \subseteq Flying
    BY FlyingParts
<1>4. \A d \in Conns \ {c} : InFlight(d) \cap B = {}
    BY DEF FlowInv, AtMostOnce
<1>5. B = InFlight(c)
    OBVIOUS
<1> HIDE DEF B
<1>6. Flying' = Flying \ B
    BY <1>1, <1>4, <1>5, FlyingParts, FlyingPartsNext
<1>7. Received' = Received \cup B
    BY <1>2, FlyingParts, FlyingPartsNext
<1>8. Known' = Known
    BY <1>1, <1>3, <1>6, <1>7 DEF Known
<1>9. IdsGiven'
    BY <1>1, <1>8 DEF FlowInv, IdsGiven
<1>10. TakenBeforeWaiting'
    BY <1>1 DEF FlowInv, TakenBeforeWaiting, Older
<1>11. AtMostOnce'
  <2>1. \A d, e \in Conns : d # e => InFlight(d)' \cap InFlight(e)' = {}
      BY <1>1 DEF FlowInv, AtMostOnce
  <2> QED
      BY <1>1, <1>3, <1>6, <1>7, <1>8, <2>1 DEF FlowInv, AtMostOnce
<1>12. EveryRowKnown'
    BY <1>1, <1>8 DEF FlowInv, EveryRowKnown
<1>13. OldestFirst'
  <2>1. ASSUME NEW d \in Conns
        PROVE  /\ Older(got'[d], select_for(rows', owner[d]))
               /\ Older(got'[d], InFlight(d)')
    <3>1. CASE d = c
        BY <1>1, <1>2, <1>5, <3>1
           DEF FlowInv, OldestFirst, TakenBeforeWaiting, Older
    <3>2. CASE d # c
        BY <1>1, <1>2, <3>2 DEF FlowInv, OldestFirst
    <3> QED
        BY <3>1, <3>2
  <2>2. \A d \in Conns : InFlight(d)' \subseteq InFlight(d)
      BY <1>1
  <2> QED
      BY <2>1, <2>2 DEF FlowInv, OldestFirst, Older
<1> QED
    BY <1>9, <1>10, <1>11, <1>12, <1>13 DEF FlowInv

(***************************************************************************)
(* FlowDrop: a crash, a failing statement or a client that is gone moves   *)
(* batches to the lost rows.                                               *)
(***************************************************************************)
LEMMA FlowDrop ==
    ASSUME LockInv, FlowInv, NEW K \in SUBSET Conns, DropFlow(K)
    PROVE  FlowInv'
<1> USE RelayAssumption
<1> DEFINE D == UNION {InFlight(k) : k \in K}
<1>1. Sunk' = Sunk \cup D
    BY DEF DropFlow
<1>2. /\ \A c \in K : InFlight(c)' = {}
      /\ \A c \in Conns \ K : InFlight(c)' = InFlight(c)
      /\ rows' = rows /\ next_id' = next_id /\ got' = got
    BY DEF DropFlow
<1>3. \A r : r \in D <=> \E k \in K : r \in InFlight(k)
    OBVIOUS
<1> HIDE DEF D
<1>4. D \subseteq Flying
    BY <1>3, FlyingParts
<1>5. \A d \in Conns \ K : InFlight(d) \cap D = {}
    BY <1>3 DEF FlowInv, AtMostOnce
<1>6. Flying' = Flying \ D
    BY <1>2, <1>3, <1>5, FlyingParts, FlyingPartsNext
<1>7. Received' = Received
    BY <1>2, FlyingParts, FlyingPartsNext
<1>8. Known' = Known
    BY <1>1, <1>2, <1>4, <1>6, <1>7 DEF Known
<1>9. IdsGiven'
    BY <1>2, <1>8 DEF FlowInv, IdsGiven
<1>10. \A c \in Conns : InFlight(c)' \subseteq InFlight(c)
    BY <1>2
<1>11. TakenBeforeWaiting'
    BY <1>2, <1>10 DEF FlowInv, TakenBeforeWaiting, Older
<1>12. AtMostOnce'
  <2>1. \A d, e \in Conns : d # e => InFlight(d)' \cap InFlight(e)' = {}
      BY <1>10 DEF FlowInv, AtMostOnce
  <2> QED
      BY <1>1, <1>2, <1>4, <1>6, <1>7, <1>8, <2>1 DEF FlowInv, AtMostOnce
<1>13. EveryRowKnown'
    BY <1>2, <1>8 DEF FlowInv, EveryRowKnown
<1>14. OldestFirst'
    BY <1>2, <1>10 DEF FlowInv, OldestFirst, Older
<1> QED
    BY <1>9, <1>11, <1>12, <1>13, <1>14 DEF FlowInv

\* FlowStill: when no row moves, the rows stay in order.
LEMMA FlowStill ==
    ASSUME LockInv, FlowInv, StillFlow
    PROVE  FlowInv'
<1>1. /\ \A c \in Conns : InFlight(c)' = InFlight(c)
      /\ rows' = rows /\ next_id' = next_id /\ got' = got /\ Sunk' = Sunk
    BY DEF StillFlow
<1>2. Flying' = Flying /\ Received' = Received
    BY <1>1, FlyingParts, FlyingPartsNext
<1>3. Known' = Known
    BY <1>1, <1>2 DEF Known
<1>4. IdsGiven' /\ EveryRowKnown'
    BY <1>1, <1>3 DEF FlowInv, IdsGiven, EveryRowKnown
<1>5. TakenBeforeWaiting'
    BY <1>1 DEF FlowInv, TakenBeforeWaiting, Older
<1>6. AtMostOnce'
    BY <1>1, <1>2, <1>3 DEF FlowInv, AtMostOnce
<1>7. OldestFirst'
    BY <1>1 DEF FlowInv, OldestFirst, Older
<1> QED
    BY <1>4, <1>5, <1>6, <1>7 DEF FlowInv

\* InvInit: the inductive invariant holds when the server starts on an empty
\* database.
LEMMA InvInit == Init => RelayInv
<1> SUFFICES ASSUME Init PROVE RelayInv
    OBVIOUS
<1>1. TypeOK
    BY RelayAssumption DEF Init, TypeOK, Phases
<1>2. OneHolder /\ SelectionCurrent /\ Faultless
    BY DEF Init, OneHolder, Holders, SelectionCurrent, Faultless
<1>3. /\ \A c \in Conns : InFlight(c) = {} /\ got[c] = {}
      /\ Sunk = {} /\ rows = {} /\ next_id = 1
    BY DEF Init, InFlight, Sunk
<1>4. Known = {} /\ Flying = {} /\ Received = {}
    BY <1>3, FlyingParts DEF Known
<1>5. IdsGiven /\ EveryRowKnown
    BY <1>3, <1>4 DEF IdsGiven, EveryRowKnown
<1>6. TakenBeforeWaiting /\ AtMostOnce /\ OldestFirst
    BY <1>3, <1>4 DEF TakenBeforeWaiting, AtMostOnce, OldestFirst, Older
<1> QED
    BY <1>1, <1>2, <1>5, <1>6 DEF RelayInv, LockInv, FlowInv

\* InvStep: every step keeps it.
LEMMA InvStep == RelayInv /\ [Next]_vars => RelayInv'
<1> SUFFICES ASSUME RelayInv, [Next]_vars PROVE RelayInv'
    OBVIOUS
<1>1. LockInv /\ FlowInv
    BY DEF RelayInv
<1>2. LockInv'
    BY <1>1, LockStep
<1>3. FlowStep
    BY <1>1, Flow
<1>4. FlowInv'
    BY <1>1, <1>3, FlowPost, FlowTake, FlowHand, FlowDrop, FlowStill
       DEF FlowStep
<1> QED
    BY <1>2, <1>4 DEF RelayInv

\* The inductive invariant holds in every reachable state.
LEMMA Inductive == Spec => []RelayInv
BY InvInit, InvStep, PTL DEF Spec

(***************************************************************************)
(* NoSilentLoss: whatever the handlers do concurrently, every message that *)
(* was queued is queued, on its way, received or one of those lost to a    *)
(* fault, rows that fetch_messages passes over included; without a fault   *)
(* there are no lost ones.                                                 *)
(***************************************************************************)
THEOREM NoSilentLoss == Spec => []NothingVanishes
<1>1. RelayInv => NothingVanishes
    BY DEF RelayInv, FlowInv, LockInv, Faultless, NothingVanishes, OnlyFaultsLose
<1> QED
    BY <1>1, Inductive, PTL

(***************************************************************************)
(* NoDuplicates: no row is handed out twice or is in two places at once,   *)
(* also when a user's old connection is still being served.                *)
(***************************************************************************)
THEOREM NoDuplicates == Spec => []AtMostOnce
<1>1. RelayInv => AtMostOnce
    BY DEF RelayInv, FlowInv
<1> QED
    BY <1>1, Inductive, PTL

(***************************************************************************)
(* InOrder: with any number of connections of one user, none of them hands *)
(* over a row older than one it has handed over before, no message stays   *)
(* in the table that is older than one handed over, and the batches on     *)
(* their way do not interleave.                                            *)
(***************************************************************************)
THEOREM InOrder == Spec => []OldestFirst
<1>1. RelayInv => OldestFirst
    BY DEF RelayInv, FlowInv
<1> QED
    BY <1>1, Inductive, PTL
-----------------------------------------------------------------------------
(***************************************************************************)
(* Delivery receipts.  A receipt names its message by timestamp only, so   *)
(* the argument rests on timestamps: those of the messages that exist or   *)
(* are about to be queued are pairwise different.                          *)
(***************************************************************************)
\* No two messages of the relay carry the same timestamp.
Stamped ==
    /\ \A m \in Known : IsMessage(m.env) => m.env.ts \in 1..clock
    /\ \A m, n \in Known :
         IsMessage(m.env) /\ IsMessage(n.env) /\ m.env.ts = n.env.ts => m = n

\* What a client has written but the relay has not queued is no delivery
\* receipt, and no other message has its timestamp.
Pending ==
    \A c \in Conns : \A e \in pend[c] :
        /\ e.receipt # "Delivery"
        /\ IsMessage(e) =>
             /\ e.ts \in 1..clock
             /\ \A m \in Known : IsMessage(m.env) => m.env.ts # e.ts
             /\ \A d \in Conns : \A f \in pend[d] :
                  IsMessage(f) /\ f.ts = e.ts => d = c

\* Receipts are due for messages of the batch only, and only until
\* fetch_messages returns; a batch is addressed to its connection's user.
TodoDue ==
    \A c \in Conns :
        /\ todo[c] # {} => phase[c] = "deleted"
        /\ todo[c] \subseteq receipt_due(batch[c])
        /\ \A r \in InFlight(c) : r.env.to = owner[c]

\* A message that is queued, or whose receipt is due, has no receipt yet ...
NoneYet ==
    /\ \A m \in rows, r \in Known : ~ReceiptOf(r, m)
    /\ \A c \in Conns : \A m \in todo[c], r \in Known : ~ReceiptOf(r, m)

\* ... and one that is on its way and not due any more has.
Queued ==
    \A c \in Conns : \A m \in InFlight(c) \ todo[c] :
        IsMessage(m.env) => \E r \in Known : ReceiptOf(r, m)

ReceiptInv ==
    /\ Stamped /\ Pending /\ TodoDue /\ NoneYet /\ Queued
    /\ ReceiptSound /\ ReceiptBeforeDelivery

\* KnownKept: moving rows on, or losing them, leaves the rows that can be
\* accounted for the same.
LEMMA KnownKept ==
    ASSUME LockInv,
           \/ StillFlow
           \/ \E c \in Conns : TakeFlow(c) \/ HandFlow(c)
           \/ \E K \in SUBSET Conns : DropFlow(K)
    PROVE  Known' = Known
<1> USE RelayAssumption
<1>1. CASE StillFlow
  <2>1. Flying' = Flying /\ Received' = Received
      BY <1>1, FlyingParts, FlyingPartsNext DEF StillFlow
  <2> QED
      BY <1>1, <2>1 DEF StillFlow, Known
<1>2. ASSUME NEW c \in Conns, TakeFlow(c) PROVE Known' = Known
  <2> DEFINE S == select_for(rows, owner[c])
             B == S \ skipped[c]
             T == skipped[c]
  <2>1. S \subseteq rows /\ rows' = rows \ S
      BY <1>2 DEF TakeFlow, select_for, delete_for
  <2>2. /\ InFlight(c) = {} /\ InFlight(c)' = B
        /\ \A d \in Conns \ {c} : InFlight(d)' = InFlight(d)
        /\ got' = got /\ Sunk' = Sunk \cup T
      BY <1>2 DEF TakeFlow
  <2>3. S = B \cup T
      BY <1>2 DEF TakeFlow
  <2> HIDE DEF S, B, T
  <2>4. Flying' = Flying \cup B
      BY <2>2, FlyingParts, FlyingPartsNext
  <2>5. Received' = Received
      BY <2>2, FlyingParts, FlyingPartsNext
  <2> QED
      BY <2>1, <2>2, <2>3, <2>4, <2>5 DEF Known
<1>3. ASSUME NEW c \in Conns, HandFlow(c) PROVE Known' = Known
  <2> DEFINE B == InFlight(c)
  <2>1. /\ InFlight(c)' = {} /\ B = InFlight(c)
        /\ \A d \in Conns \ {c} : InFlight(d)' = InFlight(d)
        /\ rows' = rows /\ Sunk' = Sunk
      BY <1>3 DEF HandFlow
  <2>2. /\ got'[c] = got[c] \cup B
        /\ \A d \in Conns \ {c} : got'[d] = got[d]
      BY <1>3 DEF HandFlow, LockInv, TypeOK
  <2> HIDE DEF B
  <2>3. Flying' \cup B = Flying
      BY <2>1, FlyingParts, FlyingPartsNext
  <2>4. Received' = Received \cup B
      BY <2>2, FlyingParts, FlyingPartsNext
  <2> QED
      BY <2>1, <2>3, <2>4 DEF Known
<1>4. ASSUME NEW K \in SUBSET Conns, DropFlow(K) PROVE Known' = Known
  <2> DEFINE D == UNION {InFlight(k) : k \in K}
  <2>1. /\ Sunk' = Sunk \cup D
        /\ \A c \in K : InFlight(c)' = {}
        /\ \A c \in Conns \ K : InFlight(c)' = InFlight(c)
        /\ rows' = rows /\ got' = got
      BY <1>4 DEF DropFlow
  <2>2. \A r : r \in D <=> \E k \in K : r \in InFlight(k)
      OBVIOUS
  <2> HIDE DEF D
  <2>3. Flying' \cup D = Flying
      BY <2>1, <2>2, FlyingParts, FlyingPartsNext
  <2>4. Received' = Received
      BY <2>1, FlyingParts, FlyingPartsNext
  <2> QED
      BY <2>1, <2>3, <2>4 DEF Known
<1> QED
    BY <1>1, <1>2, <1>3, <1>4

\* PostKnown: queueing adds exactly the new row.
LEMMA PostKnown ==
    ASSUME PostFlow, NEW env, rows' = queue_message(rows, next_id, env)
    PROVE  /\ rows' = rows \cup {[id |-> next_id, env |-> env]}
           /\ Known' = Known \cup {[id |-> next_id, env |-> env]}
           /\ Received' = Received
<1>1. Flying' = Flying /\ Received' = Received
    BY FlyingParts, FlyingPartsNext DEF PostFlow
<1> QED
    BY <1>1 DEF PostFlow, queue_message, Known

(***************************************************************************)
(* ReceiptsQuiet: a step that queues nothing and takes nothing from the    *)
(* table keeps the invariant when it adds no pending command, drops or     *)
(* hands over only whole batches, and hands over none that has receipts    *)
(* due.                                                                    *)
(***************************************************************************)
LEMMA ReceiptsQuiet ==
    ASSUME ReceiptInv, Known' = Known, rows' = rows,
           clock \in Nat, clock' \in Nat, clock =< clock',
           \A c \in Conns : pend'[c] \subseteq pend[c],
           TodoDue',
           \A c \in Conns :
             /\ todo'[c] \subseteq todo[c]
             /\ InFlight(c)' \ todo'[c] \subseteq InFlight(c) \ todo[c],
           \A m \in Received' :
             m \in Received \/ \E c \in Conns : m \in InFlight(c) \ todo[c]
    PROVE  ReceiptInv'
<1>1. Stamped'
    BY DEF ReceiptInv, Stamped
<1>2. Pending'
    BY DEF ReceiptInv, Pending
<1>3. NoneYet'
    BY DEF ReceiptInv, NoneYet
<1>4. Queued'
    BY DEF ReceiptInv, Queued
<1>5. ReceiptSound'
    BY DEF ReceiptInv, ReceiptSound
<1>6. ReceiptBeforeDelivery'
    BY DEF ReceiptInv, ReceiptBeforeDelivery, Queued
<1> QED
    BY <1>1, <1>2, <1>3, <1>4, <1>5, <1>6 DEF ReceiptInv

\* A message is no delivery receipt's subject before its receipt is queued:
\* whatever a delivery receipt is about is a message the relay knows.
LEMMA ReceiptSubject ==
    ASSUME ReceiptInv, NEW r \in Known, NEW m, ReceiptOf(r, m)
    PROVE  \E k \in Known : IsMessage(k.env) /\ k.env.ts = m.env.ts
BY DEF ReceiptInv, ReceiptSound, ReceiptOf

(***************************************************************************)
(* ReceiptsSend: a message is queued with a timestamp nobody else has, so  *)
(* no delivery receipt is about it yet.                                    *)
(***************************************************************************)
LEMMA ReceiptsSend ==
    ASSUME LockInv, FlowInv, ReceiptInv, NEW c \in Conns, handle_send(c)
    PROVE  ReceiptInv'
<1> USE RelayAssumption
<1>0. TypeOK /\ Stamped /\ Pending /\ NoneYet /\ Queued /\ ReceiptSound
    BY DEF LockInv, ReceiptInv
<1>1. PICK env \in pend[c] : rows' = queue_message(rows, next_id, env)
    BY DEF handle_send
<1>2. PostFlow
    BY <1>0 DEF handle_send, TypeOK, PostFlow, InFlight, Sunk
<1> DEFINE n == [id |-> next_id, env |-> env]
<1>3. /\ rows' = rows \cup {n} /\ Known' = Known \cup {n}
      /\ Received' = Received
    BY <1>1, <1>2, PostKnown
<1>4. n.env = env /\ n.id = next_id /\ env.receipt # "Delivery"
    BY <1>0 DEF Pending
<1>5. \A k \in Known : k.id # n.id
    BY <1>0, <1>4 DEF FlowInv, IdsGiven, TypeOK
<1> HIDE DEF n
<1>6. /\ clock' = clock /\ todo' = todo /\ batch' = batch
      /\ \A d \in Conns : InFlight(d)' = InFlight(d)
    BY <1>2 DEF handle_send, PostFlow
<1>7. pend'[c] = {} /\ \A d \in Conns \ {c} : pend'[d] = pend[d]
    BY <1>0 DEF handle_send, TypeOK
<1>8. \A m : ~ReceiptOf(n, m)
    BY <1>4 DEF ReceiptOf
<1>9. ASSUME NEW r \in Known, ReceiptOf(r, n) PROVE FALSE
  <2>1. IsMessage(env)
      BY <1>4, <1>9 DEF ReceiptOf
  <2>2. PICK k \in Known : IsMessage(k.env) /\ k.env.ts = n.env.ts
      BY <1>9, ReceiptSubject
  <2> QED
      BY <1>0, <1>4, <2>1, <2>2 DEF Pending
<1>10. Stamped'
  <2>1. \A m \in Known' : IsMessage(m.env) => m.env.ts \in 1..clock
      BY <1>0, <1>3, <1>4 DEF Stamped, Pending
  <2>2. \A m \in Known : IsMessage(m.env) /\ IsMessage(n.env) =>
          m.env.ts # n.env.ts
      BY <1>0, <1>4 DEF Pending
  <2> QED
      BY <1>0, <1>3, <1>6, <2>1, <2>2 DEF Stamped
<1>11. Pending'
  <2> SUFFICES ASSUME NEW d \in Conns, NEW e \in pend'[d]
               PROVE  /\ e.receipt # "Delivery"
                      /\ IsMessage(e) =>
                           /\ e.ts \in 1..clock'
                           /\ \A m \in Known' : IsMessage(m.env) =>
                                m.env.ts # e.ts
                           /\ \A g \in Conns : \A f \in pend'[g] :
                                IsMessage(f) /\ f.ts = e.ts => g = d
      BY DEF Pending
  <2>1. d # c /\ e \in pend[d]
      BY <1>7
  <2>2. IsMessage(e) /\ IsMessage(n.env) => n.env.ts # e.ts
      BY <1>0, <1>4, <2>1 DEF Pending
  <2>3. \A g \in Conns : pend'[g] \subseteq pend[g]
      BY <1>7
  <2>4. \A g \in Conns : \A f \in pend'[g] :
          IsMessage(e) /\ IsMessage(f) /\ f.ts = e.ts => g = d
      BY <1>0, <2>1, <2>3 DEF Pending
  <2> QED
      BY <1>0, <1>3, <1>6, <2>1, <2>2, <2>4 DEF Pending
<1>12. TodoDue'
    BY <1>0, <1>6 DEF ReceiptInv, TodoDue, handle_send, TypeOK
<1>13. NoneYet'
    BY <1>0, <1>3, <1>6, <1>8, <1>9 DEF NoneYet
<1>14. Queued'
    BY <1>0, <1>3, <1>6 DEF Queued
<1>15. ReceiptSound'
  <2>1. \A k \in Known \ rows : k \in Known' \ rows'
      BY <1>3, <1>5
  <2>2. \A r \in Known' : r.env.receipt = "Delivery" =>
          \E m \in Known' \ rows' : ReceiptOf(r, m) /\ m.id < r.id
      BY <1>0, <1>3, <1>4, <2>1 DEF ReceiptSound
  <2>3. \A m, r, s \in Known' : ReceiptOf(r, m) /\ ReceiptOf(s, m) => r = s
      BY <1>0, <1>3, <1>8, <1>9 DEF ReceiptSound
  <2> QED
      BY <2>2, <2>3 DEF ReceiptSound
<1>16. ReceiptBeforeDelivery'
    BY <1>3 DEF ReceiptInv, ReceiptBeforeDelivery
<1> QED
    BY <1>10, <1>11, <1>12, <1>13, <1>14, <1>15, <1>16 DEF ReceiptInv

(***************************************************************************)
(* ReceiptsReceipt: the receipt that is queued is the first of its message *)
(* and of no other.                                                        *)
(***************************************************************************)
LEMMA ReceiptsReceipt ==
    ASSUME LockInv, FlowInv, ReceiptInv, NEW c \in Conns, fetch_receipt(c)
    PROVE  ReceiptInv'
<1> USE RelayAssumption
<1>0. /\ TypeOK /\ Stamped /\ Pending /\ TodoDue /\ NoneYet /\ Queued
      /\ ReceiptSound /\ AtMostOnce
    BY DEF LockInv, FlowInv, ReceiptInv
<1> DEFINE w == first_row(todo[c])
           env == delivery_receipt(owner[c], w.env, Opaque)
           n == [id |-> next_id, env |-> env]
<1>1. w \in todo[c] /\ w \in Rows
    BY <1>0, FirstRow DEF fetch_receipt, TypeOK
<1>2. /\ rows' = queue_message(rows, next_id, env)
      /\ todo' = [todo EXCEPT ![c] = @ \ {w}]
    BY DEF fetch_receipt
<1>3. env \in Envelopes
    BY <1>1, DeliveryReceiptType
<1>4. PostFlow
    BY <1>0, <1>2, <1>3 DEF fetch_receipt, PostFlow, InFlight, Sunk
<1>5. /\ rows' = rows \cup {n} /\ Known' = Known \cup {n}
      /\ Received' = Received
    BY <1>2, <1>4, PostKnown
<1>6. /\ n.id = next_id
      /\ n.env.type = "Receipt" /\ n.env.receipt = "Delivery"
      /\ n.env.from = owner[c] /\ n.env.to = w.env.from
      /\ n.env.about = w.env.ts
    BY DEF delivery_receipt, ReceiptEnvelope
<1> HIDE DEF w, env, n
<1>7. /\ \A d \in Conns : InFlight(d)' = InFlight(d)
      /\ clock' = clock /\ pend' = pend /\ phase' = phase /\ batch' = batch
    BY <1>4 DEF fetch_receipt, PostFlow
<1>8. /\ todo'[c] = todo[c] \ {w}
      /\ \A d \in Conns \ {c} : todo'[d] = todo[d]
    BY <1>0, <1>2 DEF TypeOK
<1>9. \A k \in Known : k.id < n.id
    BY <1>0, <1>6 DEF FlowInv, IdsGiven, TypeOK
<1>10. n \notin Known
    BY <1>0, <1>6, <1>9 DEF TypeOK
<1>11. ~IsMessage(n.env)
    BY <1>6 DEF IsMessage, MessageTypes
<1>12. phase[c] = "deleted" /\ w \in InFlight(c) /\ IsMessage(w.env)
    BY <1>0, <1>1 DEF fetch_receipt, TodoDue, receipt_due, InFlight
<1>13. w \in Known /\ w \notin rows
    BY <1>0, <1>12, FlyingParts DEF AtMostOnce, Known
<1>14. ReceiptOf(n, w)
    BY <1>0, <1>6, <1>12 DEF ReceiptOf, TodoDue
<1>15. \A m \in Known' : ReceiptOf(n, m) => m = w
    BY <1>0, <1>5, <1>6, <1>11, <1>12, <1>13 DEF ReceiptOf, Stamped
<1>16. \A r \in Known' : ReceiptOf(r, w) => r = n
    BY <1>0, <1>1, <1>5 DEF NoneYet
<1>17. \A r : ~ReceiptOf(r, n)
    BY <1>11 DEF ReceiptOf
<1>18. Stamped'
    BY <1>0, <1>5, <1>7, <1>11 DEF Stamped
<1>19. Pending'
    BY <1>0, <1>5, <1>7, <1>11 DEF Pending
<1>20. TodoDue'
    BY <1>0, <1>7, <1>8 DEF TodoDue
<1>21. NoneYet'
  <2>1. \A m \in rows', r \in Known' : ~ReceiptOf(r, m)
      BY <1>0, <1>5, <1>13, <1>15, <1>17 DEF NoneYet, Known
  <2>2. ASSUME NEW d \in Conns, NEW m \in todo'[d], NEW r \in Known',
               ReceiptOf(r, m)
        PROVE  FALSE
    <3>1. m \in todo[d] /\ m \in InFlight(d)
        BY <1>0, <1>8, <2>2 DEF TodoDue, receipt_due, InFlight
    <3>2. r = n /\ m \in Known
        BY <1>0, <1>5, <2>2, <3>1, FlyingParts DEF NoneYet, Known
    <3>3. m = w
        BY <1>5, <1>15, <2>2, <3>2
    <3>4. d = c
        BY <1>0, <1>12, <3>1, <3>3 DEF AtMostOnce
    <3> QED
        BY <1>8, <2>2, <3>3, <3>4
  <2> QED
      BY <2>1, <2>2 DEF NoneYet
<1>22. Queued'
  <2> SUFFICES ASSUME NEW d \in Conns, NEW m \in InFlight(d) \ todo'[d],
                      IsMessage(m.env)
               PROVE  \E r \in Known' : ReceiptOf(r, m)
      BY <1>7 DEF Queued
  <2>1. m = w \/ m \notin todo[d]
      BY <1>8
  <2> QED
      BY <1>0, <1>5, <1>14, <2>1 DEF Queued
<1>23. ReceiptSound'
  <2>1. w \in Known' \ rows' /\ w.id < n.id
      BY <1>5, <1>9, <1>10, <1>13
  <2>2. \A k \in Known \ rows : k \in Known' \ rows'
      BY <1>5, <1>10
  <2>3. \A r \in Known' : r.env.receipt = "Delivery" =>
          \E m \in Known' \ rows' : ReceiptOf(r, m) /\ m.id < r.id
      BY <1>0, <1>5, <1>14, <2>1, <2>2 DEF ReceiptSound
  <2>4. \A m, r, s \in Known' : ReceiptOf(r, m) /\ ReceiptOf(s, m) => r = s
      BY <1>0, <1>5, <1>15, <1>16, <1>17 DEF ReceiptSound
  <2> QED
      BY <2>3, <2>4 DEF ReceiptSound
<1>24. ReceiptBeforeDelivery'
    BY <1>5 DEF ReceiptInv, ReceiptBeforeDelivery
<1> QED
    BY <1>18, <1>19, <1>20, <1>21, <1>22, <1>23, <1>24 DEF ReceiptInv

\* ReceiptsCommand: a message a client writes is stamped later than every
\* message before it.
LEMMA ReceiptsCommand ==
    ASSUME LockInv, ReceiptInv, NEW c \in Conns, SendCmd(c)
    PROVE  ReceiptInv'
<1> USE RelayAssumption
<1>0. TypeOK /\ Stamped /\ Pending /\ TodoDue
    BY DEF LockInv, ReceiptInv
<1>1. PICK env \in ClientEnvelopes(owner[c]) : pend' = [pend EXCEPT ![c] = {env}]
    BY DEF SendCmd
<1>2. clock \in Nat /\ clock' = clock + 1
    BY <1>0 DEF SendCmd, TypeOK
<1>3. /\ env.receipt # "Delivery"
      /\ IsMessage(env) => env.ts = clock + 1
    BY <1>1 DEF ClientEnvelopes, MessageEnvelope, ReceiptEnvelope, IsMessage,
                MessageTypes
<1>4. StillFlow
    BY <1>0 DEF SendCmd, TypeOK, StillFlow, InFlight, Sunk
<1>5. Known' = Known /\ rows' = rows /\ todo' = todo
    BY <1>4, KnownKept DEF SendCmd
<1>6. Received' = Received /\ \A d \in Conns : InFlight(d)' = InFlight(d)
    BY <1>4, FlyingParts, FlyingPartsNext DEF StillFlow
<1>7. pend'[c] = {env} /\ \A d \in Conns \ {c} : pend'[d] = pend[d]
    BY <1>0, <1>1 DEF TypeOK
<1>8. Stamped'
    BY <1>0, <1>2, <1>5 DEF Stamped
<1>9. Pending'
  <2> SUFFICES ASSUME NEW d \in Conns, NEW e \in pend'[d]
               PROVE  /\ e.receipt # "Delivery"
                      /\ IsMessage(e) =>
                           /\ e.ts \in 1..clock'
                           /\ \A m \in Known' : IsMessage(m.env) =>
                                m.env.ts # e.ts
                           /\ \A g \in Conns : \A f \in pend'[g] :
                                IsMessage(f) /\ f.ts = e.ts => g = d
      BY DEF Pending
  <2>1. \A g \in Conns \ {c} : \A f \in pend'[g] :
          IsMessage(f) => f.ts \in 1..clock
      BY <1>0, <1>7 DEF Pending
  <2>2. \A m \in Known : IsMessage(m.env) => m.env.ts \in 1..clock
      BY <1>0 DEF Stamped
  <2>3. CASE d = c
    <3>1. e = env
        BY <1>7, <2>3
    <3> QED
        BY <1>2, <1>3, <1>5, <1>7, <2>1, <2>2, <2>3, <3>1
  <2>4. CASE d # c
    <3>1. e \in pend[d] /\ (IsMessage(e) => e.ts \in 1..clock')
        BY <1>2, <1>7, <2>1, <2>4
    <3>2. IsMessage(e) /\ IsMessage(env) => env.ts # e.ts
        BY <1>2, <1>3, <2>1, <2>4
    <3>3. \A g \in Conns \ {c} : \A f \in pend'[g] :
            IsMessage(e) /\ IsMessage(f) /\ f.ts = e.ts => g = d
        BY <1>0, <1>7, <3>1 DEF Pending
    <3>4. \A g \in Conns : \A f \in pend'[g] :
            IsMessage(e) /\ IsMessage(f) /\ f.ts = e.ts => g = d
        BY <1>7, <3>2, <3>3
    <3> QED
        BY <1>0, <1>5, <3>1, <3>4 DEF Pending
  <2> QED
      BY <2>3, <2>4
<1>10. TodoDue'
    BY <1>0, <1>6 DEF TodoDue, SendCmd, TypeOK
<1>11. NoneYet' /\ Queued'
    BY <1>5, <1>6 DEF ReceiptInv, NoneYet, Queued
<1>12. ReceiptSound' /\ ReceiptBeforeDelivery'
    BY <1>5, <1>6 DEF ReceiptInv, ReceiptSound, ReceiptBeforeDelivery
<1> QED
    BY <1>8, <1>9, <1>10, <1>11, <1>12 DEF ReceiptInv

\* ReceiptsTake: the messages of a batch leave the table without a receipt,
\* and are all due for one.
LEMMA ReceiptsTake ==
    ASSUME LockInv, ReceiptInv, NEW c \in Conns, fetch_delete(c)
    PROVE  ReceiptInv'
<1> USE RelayAssumption
<1>0. TypeOK /\ SelectionCurrent /\ TodoDue /\ NoneYet /\ Queued
    BY DEF LockInv, ReceiptInv
<1>1. TakeFlow(c)
    BY DeleteTakes
<1>2. Known' = Known /\ rows' \subseteq rows
    BY <1>1, KnownKept DEF TakeFlow, delete_for
<1>3. Received' = Received
    BY <1>1, FlyingParts, FlyingPartsNext DEF TakeFlow
<1>4. /\ batch[c] \subseteq rows
      /\ \A r \in batch[c] : r.env.to = owner[c]
    BY <1>0 DEF fetch_delete, SelectionCurrent, select_for
<1>5. /\ todo'[c] = receipt_due(batch[c]) /\ InFlight(c)' = batch[c]
      /\ phase'[c] = "deleted" /\ batch' = batch
      /\ \A d \in Conns \ {c} : /\ todo'[d] = todo[d]
                                /\ InFlight(d)' = InFlight(d)
                                /\ phase'[d] = phase[d]
      /\ clock' = clock /\ pend' = pend
    BY <1>0 DEF fetch_delete, TypeOK, InFlight
<1>6. TodoDue'
    BY <1>0, <1>4, <1>5 DEF TodoDue
<1>7. NoneYet'
    BY <1>0, <1>2, <1>4, <1>5 DEF NoneYet, receipt_due
<1>8. Queued'
    BY <1>0, <1>2, <1>5 DEF Queued, receipt_due
<1>9. Stamped' /\ Pending'
    BY <1>2, <1>5 DEF ReceiptInv, Stamped, Pending
<1>10. ReceiptSound' /\ ReceiptBeforeDelivery'
    BY <1>2, <1>3 DEF ReceiptInv, ReceiptSound, ReceiptBeforeDelivery
<1> QED
    BY <1>6, <1>7, <1>8, <1>9, <1>10 DEF ReceiptInv

\* ReceiptInit: there is nothing to account for at the start.
LEMMA ReceiptInit == Init => ReceiptInv
<1> SUFFICES ASSUME Init PROVE ReceiptInv
    OBVIOUS
<1>1. /\ \A c \in Conns : /\ InFlight(c) = {} /\ todo[c] = {} /\ pend[c] = {}
                          /\ got[c] = {}
      /\ Sunk = {} /\ rows = {}
    BY DEF Init, InFlight, Sunk
<1>2. Known = {} /\ Received = {}
    BY <1>1, FlyingParts DEF Known
<1>3. Stamped /\ Pending /\ TodoDue /\ NoneYet /\ Queued
    BY <1>1, <1>2 DEF Stamped, Pending, TodoDue, NoneYet, Queued
<1>4. ReceiptSound /\ ReceiptBeforeDelivery
    BY <1>2 DEF ReceiptSound, ReceiptBeforeDelivery
<1> QED
    BY <1>3, <1>4 DEF ReceiptInv

(***************************************************************************)
(* ReceiptStep: the remaining actions queue nothing; the only one that     *)
(* hands messages to a user answers after fetch_messages has returned,     *)
(* with no receipt due.                                                    *)
(***************************************************************************)
LEMMA ReceiptStep == RelayInv /\ ReceiptInv /\ [Next]_vars => ReceiptInv'
<1> SUFFICES ASSUME RelayInv, ReceiptInv, [Next]_vars PROVE ReceiptInv'
    OBVIOUS
<1> USE RelayAssumption
<1>0. LockInv /\ FlowInv /\ TypeOK /\ TodoDue
    BY DEF RelayInv, LockInv, ReceiptInv
<1>a. ASSUME StillFlow, clock' \in {clock, clock + 1}, todo' = todo, TodoDue',
             \A c \in Conns : pend'[c] \subseteq pend[c]
      PROVE  ReceiptInv'
  <2>1. Known' = Known /\ rows' = rows
      BY <1>0, <1>a, KnownKept DEF StillFlow
  <2>2. Received' = Received /\ \A d \in Conns : InFlight(d)' = InFlight(d)
      BY <1>a, FlyingParts, FlyingPartsNext DEF StillFlow
  <2>3. clock \in Nat /\ clock' \in Nat /\ clock =< clock'
      BY <1>0, <1>a DEF TypeOK
  <2> QED
      BY <1>a, <2>1, <2>2, <2>3, ReceiptsQuiet
<1>b. ASSUME NEW K \in SUBSET Conns, DropFlow(K), clock' = clock, TodoDue',
             \A c \in Conns : /\ pend'[c] \subseteq pend[c]
                              /\ todo'[c] = IF c \in K THEN {} ELSE todo[c]
      PROVE  ReceiptInv'
  <2>1. Known' = Known /\ rows' = rows
      BY <1>0, <1>b, KnownKept DEF DropFlow
  <2>2. Received' = Received
    <3>1. got' = got
        BY <1>b DEF DropFlow
    <3> QED
        BY <3>1 DEF Received
  <2>3. \A c \in Conns :
          /\ todo'[c] \subseteq todo[c]
          /\ InFlight(c)' \ todo'[c] \subseteq InFlight(c) \ todo[c]
      BY <1>b DEF DropFlow
  <2>4. clock \in Nat /\ clock' \in Nat /\ clock =< clock'
      BY <1>0, <1>b DEF TypeOK
  <2> QED
      BY <1>b, <2>1, <2>2, <2>3, <2>4, ReceiptsQuiet
<1>1. ASSUME NEW c \in Conns, Connect(c) PROVE ReceiptInv'
  <2>1. StillFlow /\ clock' = clock /\ todo' = todo /\ pend' = pend
      BY <1>0, <1>1 DEF Connect, TypeOK, StillFlow, InFlight, Sunk
  <2>2. TodoDue'
      BY <1>0, <1>1 DEF Connect, TypeOK, TodoDue, InFlight
  <2> QED
      BY <1>a, <2>1, <2>2
<1>2. ASSUME NEW c \in Conns, SendCmd(c) PROVE ReceiptInv'
    BY <1>0, <1>2, ReceiptsCommand
<1>3. ASSUME NEW c \in Conns, ReceiveCmd(c) PROVE ReceiptInv'
  <2>1. StillFlow /\ todo' = todo /\ pend' = pend
      BY <1>0, <1>3 DEF ReceiveCmd, TypeOK, StillFlow, InFlight, Sunk
  <2>2. TodoDue'
      BY <1>0, <1>3 DEF ReceiveCmd, TypeOK, TodoDue, InFlight
  <2>3. clock' = clock + 1 /\ clock \in Nat
      BY <1>0, <1>3 DEF ReceiveCmd, TypeOK
  <2> QED
      BY <1>a, <2>1, <2>2, <2>3
<1>4. ASSUME NEW c \in Conns, ReadResponse(c) PROVE ReceiptInv'
  <2>1. HandFlow(c)
      BY <1>0, <1>4 DEF ReadResponse, TypeOK, HandFlow, InFlight, Sunk
  <2>2. Known' = Known /\ rows' = rows
      BY <1>0, <2>1, KnownKept DEF HandFlow
  <2>3. todo[c] = {} /\ todo' = todo /\ clock' = clock /\ pend' = pend
      BY <1>0, <1>4 DEF ReadResponse, TodoDue
  <2>4. TodoDue'
      BY <1>0, <1>4, <2>3 DEF ReadResponse, TypeOK, TodoDue, InFlight
  <2>5. ASSUME NEW m \in Received'
        PROVE  m \in Received \/ \E d \in Conns : m \in InFlight(d) \ todo[d]
    <3>1. PICK d \in Conns : m \in got'[d]
        BY FlyingPartsNext
    <3>2. m \in got[d] \/ m \in InFlight(c)
        BY <1>0, <2>1, <3>1 DEF HandFlow, TypeOK
    <3> QED
        BY <2>3, <3>1, <3>2, FlyingParts
  <2>6. \A d \in Conns : InFlight(d)' \subseteq InFlight(d)
      BY <2>1 DEF HandFlow
  <2>7. clock \in Nat /\ clock' \in Nat /\ clock =< clock'
      BY <1>0, <2>3 DEF TypeOK
  <2>8. \A d \in Conns :
          /\ todo'[d] \subseteq todo[d]
          /\ InFlight(d)' \ todo'[d] \subseteq InFlight(d) \ todo[d]
      BY <2>3, <2>6
  <2>9. \A d \in Conns : pend'[d] \subseteq pend[d]
      BY <2>3
  <2> QED
      BY <2>2, <2>4, <2>5, <2>7, <2>8, <2>9, ReceiptsQuiet
<1>5. ASSUME NEW c \in Conns, Disconnect(c) PROVE ReceiptInv'
  <2>1. StillFlow /\ clock' = clock /\ todo' = todo /\ pend' = pend
      BY <1>0, <1>5 DEF Disconnect, TypeOK, StillFlow, InFlight, Sunk
  <2>2. TodoDue'
      BY <1>0, <1>5 DEF Disconnect, TypeOK, TodoDue, InFlight
  <2> QED
      BY <1>a, <2>1, <2>2
<1>6. ASSUME NEW c \in Conns, handle_send(c) PROVE ReceiptInv'
    BY <1>0, <1>6, ReceiptsSend
<1>7. ASSUME NEW c \in Conns, handle_send_error(c) PROVE ReceiptInv'
  <2>1. StillFlow /\ clock' = clock /\ todo' = todo
      BY <1>0, <1>7 DEF handle_send_error, TypeOK, StillFlow, InFlight, Sunk
  <2>2. TodoDue' /\ \A d \in Conns : pend'[d] \subseteq pend[d]
      BY <1>0, <1>7 DEF handle_send_error, TypeOK, TodoDue, InFlight
  <2> QED
      BY <1>a, <2>1, <2>2
<1>8. ASSUME NEW c \in Conns, fetch_select(c) PROVE ReceiptInv'
  <2>1. StillFlow /\ clock' = clock /\ todo' = todo /\ pend' = pend
      BY <1>0, <1>8 DEF fetch_select, TypeOK, StillFlow, InFlight, Sunk
  <2>2. TodoDue'
      BY <1>0, <1>8 DEF fetch_select, TypeOK, TodoDue, InFlight
  <2> QED
      BY <1>a, <2>1, <2>2
<1>9. ASSUME NEW c \in Conns, fetch_delete(c) PROVE ReceiptInv'
    BY <1>0, <1>9, ReceiptsTake
<1>10. ASSUME NEW c \in Conns, fetch_receipt(c) PROVE ReceiptInv'
    BY <1>0, <1>10, ReceiptsReceipt
<1>11. ASSUME NEW c \in Conns, fetch_return(c) PROVE ReceiptInv'
  <2>1. StillFlow /\ clock' = clock /\ todo' = todo /\ pend' = pend
      BY <1>0, <1>11 DEF fetch_return, TypeOK, StillFlow, InFlight, Sunk
  <2>2. TodoDue'
      BY <1>0, <1>11 DEF fetch_return, TypeOK, TodoDue, InFlight
  <2> QED
      BY <1>a, <2>1, <2>2
<1>12. ASSUME NEW c \in Conns, fetch_error(c) PROVE ReceiptInv'
  <2> DEFINE R == InFlight(c)
  <2>1. lost' = lost \cup {[row |-> r, why |-> "error"] : r \in R}
      BY <1>12 DEF fetch_error
  <2>2. Sunk' = Sunk \cup R
      <3> HIDE DEF R
      <3> QED BY <2>1, SunkMore
  <2>3. DropFlow({c})
      BY <1>0, <1>12, <2>2 DEF fetch_error, TypeOK, DropFlow, InFlight
  <2>4. TodoDue'
      BY <1>0, <1>12 DEF fetch_error, TypeOK, TodoDue, InFlight
  <2>5. /\ clock' = clock /\ pend' = pend
        /\ \A d \in Conns : todo'[d] = IF d \in {c} THEN {} ELSE todo[d]
      BY <1>0, <1>12 DEF fetch_error, TypeOK
  <2> QED
      BY <1>b, <2>3, <2>4, <2>5
<1>13. ASSUME NEW c \in Conns, write_ignored(c) PROVE ReceiptInv'
  <2> DEFINE R == InFlight(c)
  <2>1. lost' = lost \cup {[row |-> r, why |-> "gone"] : r \in R}
      BY <1>13 DEF write_ignored
  <2>2. Sunk' = Sunk \cup R
      <3> HIDE DEF R
      <3> QED BY <2>1, SunkMore
  <2>3. DropFlow({c})
      BY <1>0, <1>13, <2>2 DEF write_ignored, TypeOK, DropFlow, InFlight
  <2>4. TodoDue'
      BY <1>0, <1>13 DEF write_ignored, TypeOK, TodoDue, InFlight
  <2>5. /\ clock' = clock /\ pend' = pend
        /\ \A d \in Conns : todo'[d] = IF d \in {c} THEN {} ELSE todo[d]
      BY <1>0, <1>13 DEF write_ignored, TypeOK, TodoDue
  <2> QED
      BY <1>b, <2>3, <2>4, <2>5
<1>14. ASSUME NEW c \in Conns, read_error(c) PROVE ReceiptInv'
  <2>1. StillFlow /\ clock' = clock /\ todo' = todo
      BY <1>0, <1>14 DEF read_error, TypeOK, StillFlow, InFlight, Sunk
  <2>2. TodoDue' /\ \A d \in Conns : pend'[d] \subseteq pend[d]
      BY <1>0, <1>14 DEF read_error, TypeOK, TodoDue, InFlight
  <2> QED
      BY <1>a, <2>1, <2>2
<1>15. ASSUME Restart PROVE ReceiptInv'
  <2> DEFINE R == UNION {InFlight(k) : k \in Conns}
  <2>1. lost' = lost \cup {[row |-> r, why |-> "crash"] : r \in R}
      BY <1>15 DEF Restart
  <2>2. Sunk' = Sunk \cup R
      <3> HIDE DEF R
      <3> QED BY <2>1, SunkMore
  <2>3. \A d \in Conns : InFlight(d)' = {}
      BY <1>15 DEF Restart, InFlight
  <2>4. DropFlow(Conns)
      BY <1>15, <2>2, <2>3 DEF Restart, DropFlow
  <2>5. /\ clock' = clock
        /\ \A d \in Conns : todo'[d] = {} /\ pend'[d] = {}
      BY <1>15 DEF Restart
  <2>6. TodoDue'
      BY <2>3, <2>5 DEF TodoDue
  <2> QED
      BY <1>b, <2>4, <2>5, <2>6
<1>16. ASSUME UNCHANGED vars PROVE ReceiptInv'
  <2>1. StillFlow /\ clock' = clock /\ todo' = todo /\ pend' = pend
      BY <1>16 DEF vars, StillFlow, InFlight, Sunk
  <2>2. TodoDue'
      BY <1>0, <1>16 DEF vars, TodoDue, InFlight
  <2> QED
      BY <1>a, <2>1, <2>2
<1>17. ASSUME NEW c \in Conns, fetch_select_skips(c) PROVE ReceiptInv'
  <2>1. StillFlow
      BY <1>0, <1>17, SkipStill
  <2>2. clock' = clock /\ todo' = todo /\ pend' = pend
      BY <1>17 DEF fetch_select_skips
  <2>3. todo[c] = {} /\ \A d \in Conns \ {c} : batch'[d] = batch[d]
      BY <1>0, <1>17 DEF fetch_select_skips, TypeOK, TodoDue
  <2>4. TodoDue'
    <3>1. \A d \in Conns \ {c} : phase'[d] = phase[d]
        BY <1>0, <1>17 DEF fetch_select_skips, TypeOK
    <3>2. \A d \in Conns : InFlight(d)' = InFlight(d)
        BY <2>1 DEF StillFlow
    <3> QED
        BY <1>0, <2>2, <2>3, <3>1, <3>2 DEF TodoDue
  <2> QED
      BY <1>a, <2>1, <2>2, <2>4
<1> QED
    BY <1>1, <1>2, <1>3, <1>4, <1>5, <1>6, <1>7, <1>8, <1>9, <1>10, <1>11,
       <1>12, <1>13, <1>14, <1>15, <1>16, <1>17 DEF Next, Client, handle_client

\* The receipts' invariant holds in every reachable state.
LEMMA ReceiptsInductive == Spec => []ReceiptInv
BY ReceiptInit, ReceiptStep, Inductive, PTL DEF Spec

(***************************************************************************)
(* ReceiptsAreSound: however the handlers of sender and recipient          *)
(* interleave and wherever the server dies, a delivery receipt is about a  *)
(* message that has left the queue, and a message has at most one.         *)
(***************************************************************************)
THEOREM ReceiptsAreSound == Spec => []ReceiptSound
<1>1. ReceiptInv => ReceiptSound
    BY DEF ReceiptInv
<1> QED
    BY <1>1, ReceiptsInductive, PTL

(***************************************************************************)
(* ReceiptsComeFirst: a message that reached its user has a delivery       *)
(* receipt in the table or further; no crash, error or disconnect of       *)
(* either side separates the two.                                          *)
(***************************************************************************)
THEOREM ReceiptsComeFirst == Spec => []ReceiptBeforeDelivery
<1>1. ReceiptInv => ReceiptBeforeDelivery
    BY DEF ReceiptInv
<1> QED
    BY <1>1, ReceiptsInductive, PTL
-----------------------------------------------------------------------------
(***************************************************************************)
(* The relay implements the mailbox: the five ways rows move are the four  *)
(* actions of Mailbox and stuttering.                                      *)
(***************************************************************************)
BoxOf == [u \in Users |-> select_for(rows, u)]
CarriedBy == [c \in Conns |-> InFlight(c)]

\* A queued row is posted to the box of its recipient.
LEMMA PostImplements ==
    ASSUME LockInv, PostFlow
    PROVE  \E u \in Users : Boxes!Post(u)
<1>1. PICK env \in Envelopes : rows' = queue_message(rows, next_id, env)
    BY DEF PostFlow
<1> DEFINE n == [id |-> next_id, env |-> env]
           u == env.to
<1>2. u \in Users
    BY DEF Envelopes
<1>3. n.id = next_id /\ n.env.to = u /\ rows' = rows \cup {n}
    BY <1>1 DEF queue_message
<1>4. select_for(rows', u) = select_for(rows, u) \cup {n}
    BY <1>3 DEF select_for
<1>5. \A v \in Users \ {u} : select_for(rows', v) = select_for(rows, v)
    BY <1>3 DEF select_for
<1>6. BoxOf' = [BoxOf EXCEPT ![u] = @ \cup {n}] /\ n \in BoxOf'[u]
    BY <1>2, <1>4, <1>5 DEF BoxOf
<1>7. CarriedBy' = CarriedBy
    BY DEF PostFlow, CarriedBy
<1>8. next_id' = next_id + 1 /\ got' = got /\ Sunk' = Sunk
    BY DEF PostFlow
<1>9. Boxes!Post(u)
    BY <1>3, <1>6, <1>7, <1>8 DEF Boxes!Post, BoxOf, CarriedBy
<1> QED
    BY <1>2, <1>9

\* The DELETE of fetch_messages takes the whole box.
LEMMA TakeImplements ==
    ASSUME LockInv, NEW c \in Conns, TakeFlow(c)
    PROVE  \E torn \in SUBSET BoxOf[owner[c]] : Boxes!Take(c, torn)
<1>1. owner[c] \in Users
    BY RelayAssumption
<1>2. select_for(rows', owner[c]) = {}
    BY DEF TakeFlow, select_for, delete_for
<1>3. \A v \in Users \ {owner[c]} : select_for(rows', v) = select_for(rows, v)
    BY DEF TakeFlow, select_for, delete_for
<1>4. BoxOf' = [BoxOf EXCEPT ![owner[c]] = {}]
    BY <1>1, <1>2, <1>3 DEF BoxOf
<1>5. CarriedBy' = [CarriedBy EXCEPT ![c] = BoxOf[owner[c]] \ skipped[c]]
    BY <1>1 DEF TakeFlow, CarriedBy, BoxOf
<1>6. CarriedBy[c] = {} /\ skipped[c] \subseteq BoxOf[owner[c]]
    BY <1>1 DEF TakeFlow, CarriedBy, BoxOf
<1>7. next_id' = next_id /\ got' = got /\ Sunk' = Sunk \cup skipped[c]
    BY DEF TakeFlow
<1>8. Boxes!Take(c, skipped[c])
    BY <1>4, <1>5, <1>6, <1>7 DEF Boxes!Take, BoxOf, CarriedBy
<1> QED
    BY <1>6, <1>8

\* A response that is read hands its batch over, oldest first.
LEMMA HandImplements ==
    ASSUME LockInv, FlowInv, NEW c \in Conns, HandFlow(c)
    PROVE  Boxes!Hand(c)
<1>1. \A r \in CarriedBy[c], g \in got[c] : g.id < r.id
    BY DEF FlowInv, OldestFirst, Older, CarriedBy
<1>2. got' = [got EXCEPT ![c] = @ \cup CarriedBy[c]]
    BY DEF HandFlow, CarriedBy
<1>3. CarriedBy' = [CarriedBy EXCEPT ![c] = {}]
    BY DEF HandFlow, CarriedBy
<1>4. BoxOf' = BoxOf /\ Sunk' = Sunk /\ next_id' = next_id
    BY DEF HandFlow, BoxOf, select_for
<1> QED
    BY <1>1, <1>2, <1>3, <1>4 DEF Boxes!Hand, BoxOf, CarriedBy

\* Lost batches are dropped.
LEMMA DropImplements ==
    ASSUME LockInv, NEW K \in SUBSET Conns, DropFlow(K)
    PROVE  Boxes!Drop(K)
<1>1. \A k \in K : CarriedBy[k] = InFlight(k)
    BY DEF CarriedBy
<1>2. {CarriedBy[k] : k \in K} = {InFlight(k) : k \in K}
    BY <1>1
<1>3. Sunk' = Sunk \cup UNION {CarriedBy[k] : k \in K}
    BY <1>2 DEF DropFlow
<1>4. CarriedBy' = [c \in Conns |-> IF c \in K THEN {} ELSE CarriedBy[c]]
    BY DEF DropFlow, CarriedBy
<1>5. BoxOf' = BoxOf /\ got' = got /\ next_id' = next_id
    BY DEF DropFlow, BoxOf, select_for
<1> QED
    BY <1>3, <1>4, <1>5 DEF Boxes!Drop, BoxOf, CarriedBy

(***************************************************************************)
(* Refines: for any users, connections, commands and faults, the message   *)
(* path of the server is a mailbox.                                        *)
(***************************************************************************)
THEOREM Refines == Spec => ImplementsMailbox
<1>1. Init => Boxes!Init
  <2> SUFFICES ASSUME Init PROVE Boxes!Init
      OBVIOUS
  <2>1. BoxOf = [u \in Users |-> {}]
      BY DEF Init, BoxOf, select_for
  <2>2. CarriedBy = [c \in Conns |-> {}]
      BY DEF Init, CarriedBy, InFlight
  <2>3. got = [c \in Conns |-> {}] /\ Sunk = {} /\ next_id = 1
      BY DEF Init, Sunk
  <2> QED
      BY <2>1, <2>2, <2>3 DEF Boxes!Init, BoxOf, CarriedBy
<1>2. RelayInv /\ [Next]_vars => [Boxes!Next]_(Boxes!mvars)
  <2> SUFFICES ASSUME RelayInv, [Next]_vars
               PROVE  [Boxes!Next]_(Boxes!mvars)
      OBVIOUS
  <2>1. LockInv /\ FlowInv
      BY DEF RelayInv
  <2>2. FlowStep
      BY <2>1, Flow
  <2>3. CASE PostFlow
      BY <2>1, <2>3, PostImplements DEF Boxes!Next
  <2>4. ASSUME NEW c \in Conns, TakeFlow(c) PROVE Boxes!Next
    <3>1. PICK torn \in SUBSET BoxOf[owner[c]] : Boxes!Take(c, torn)
        BY <2>1, <2>4, TakeImplements
    <3> QED
        BY <3>1 DEF Boxes!Next, BoxOf
  <2>5. ASSUME NEW c \in Conns, HandFlow(c) PROVE Boxes!Next
      BY <2>1, <2>5, HandImplements DEF Boxes!Next
  <2>6. ASSUME NEW K \in SUBSET Conns, DropFlow(K) PROVE Boxes!Next
      BY <2>1, <2>6, DropImplements DEF Boxes!Next
  <2>7. CASE StillFlow
    <3>1. BoxOf' = BoxOf /\ CarriedBy' = CarriedBy
        BY <2>7 DEF StillFlow, BoxOf, CarriedBy, select_for
    <3> QED
        BY <2>7, <3>1 DEF StillFlow, Boxes!mvars, BoxOf, CarriedBy
  <2> QED
      BY <2>2, <2>3, <2>4, <2>5, <2>6, <2>7 DEF FlowStep
<1> QED
    BY <1>1, <1>2, Inductive, PTL DEF Spec, ImplementsMailbox, Boxes!Spec
=============================================================================
