--------------------------- MODULE MessagingProofs --------------------------
(***************************************************************************)
(* Theorems about Messaging, for any users and any number of messages,     *)
(* edits, ends of processes and server errors.  Three layers: WellFormed,  *)
(* what the state consists of; MailInv, the order in which messages and    *)
(* receipts pass through the relay; RatchetInv, the match between two      *)
(* sessions and the messages on their way.                                 *)
(***************************************************************************)
EXTENDS Messaging, FiniteSetTheorems, SequenceTheorems, WellFoundedInduction,
        TLAPS

(***************************************************************************)
(* WellFormed.  Besides the types: a client that handles a batch has one,  *)
(* only a client that sends has an envelope under way, and what is         *)
(* encrypted carries a ciphertext.                                         *)
(***************************************************************************)
Ciphertexts == [ratchet_key : Keys, key : Chains]

Busy ==
    \A u \in Users :
        /\ pc[u] = "receiving" => inbox[u] # <<>>
        /\ pc[u] # "sending" => out[u] = {}
        /\ pc[u] # "down" => spk[u] \in Keys

Encrypted(env) ==
    /\ env.type = "PreKeyBundle" => env.from # env.to
    /\ IsMessage(env) /\ env.from # env.to => env.content \in Ciphertexts

Filled ==
    \A u \in Users :
        /\ \A i \in 1..Len(queue[u]) : queue[u][i].to = u /\ Encrypted(queue[u][i])
        /\ \A i \in 1..Len(inbox[u]) : inbox[u][i].to = u /\ Encrypted(inbox[u][i])
        /\ \A env \in out[u] :
             /\ env.from = u /\ IsMessage(env) /\ env.ts = now[u]
             /\ Encrypted(env)

WellFormed == TypeOK /\ Busy /\ Filled

(***************************************************************************)
(* MailInv.  Passed: u's message t to v has left the queue at the relay,   *)
(* and the messages of u that wait there or are under way are later ones.  *)
(* Messages of one sender wait, are handled and shown in the order of      *)
(* their timestamps; a receipt that waits is about a message that has      *)
(* passed, and a read receipt about one that was shown; and no delivery    *)
(* receipt comes after the read receipt of its message.                    *)
(***************************************************************************)
Passed(u, v, t) ==
    /\ t =< now[u]
    /\ \A i \in 1..Len(queue[v]) :
         IsMessage(queue[v][i]) /\ queue[v][i].from = u => t < queue[v][i].ts
    /\ \A env \in out[u] : env.to = v => t < env.ts

IsReceipt(env, kind) == env.type = "Receipt" /\ env.receipt = kind

\* Two messages of one sender.
SameSender(a, b) == IsMessage(a) /\ IsMessage(b) /\ a.from = b.from

\* A read receipt and a delivery receipt for the same message.
ReadAndDelivered(a, b) ==
    /\ IsReceipt(a, "Read") /\ IsReceipt(b, "Delivery")
    /\ a.from = b.from /\ a.about = b.about

ShownBy(v, u, t) == [from |-> u, ts |-> t] \in Elements(shown[v])

\* A receipt that waits for u says the truth.
Truthful(u, env) ==
    env.type = "Receipt" =>
        /\ Passed(u, env.from, env.about)
        /\ \/ env.receipt = "Delivery"
           \/ env.receipt = "Read" /\ ShownBy(env.from, u, env.about)

Stamped ==
    \A v \in Users : \A i \in 1..Len(queue[v]) :
        LET m == queue[v][i]
        IN IsMessage(m) =>
             /\ m.ts =< now[m.from]
             /\ \A env \in out[m.from] : env.to = v => m.ts < env.ts

InOrder(s) ==
    \A i, j \in 1..Len(s) : i < j =>
        /\ SameSender(s[i], s[j]) => s[i].ts < s[j].ts
        /\ ~ReadAndDelivered(s[i], s[j])

Ordered ==
    \A v \in Users :
        /\ InOrder(queue[v]) /\ InOrder(inbox[v])
        /\ \A i \in 1..Len(inbox[v]), j \in 1..Len(queue[v]) :
             ~ReadAndDelivered(inbox[v][i], queue[v][j])

Fetched ==
    \A v \in Users : \A i \in 1..Len(inbox[v]) :
        LET m == inbox[v][i]
        IN IsMessage(m) =>
             /\ Passed(m.from, v, m.ts)
             /\ \A k \in 1..Len(shown[v]) :
                  shown[v][k].from = m.from => shown[v][k].ts < m.ts

Displayed ==
    \A v \in Users : \A k \in 1..Len(shown[v]) :
        Passed(shown[v][k].from, v, shown[v][k].ts)

Receipts ==
    \A u \in Users :
        /\ \A i \in 1..Len(queue[u]) : Truthful(u, queue[u][i])
        /\ \A i \in 1..Len(inbox[u]) : Truthful(u, inbox[u][i])

\* No delivery receipt for the message waits for u.
NoneWaits(u, v, t) ==
    /\ \A i \in 1..Len(queue[u]) : ~(/\ IsReceipt(queue[u][i], "Delivery")
                                     /\ queue[u][i].from = v /\ queue[u][i].about = t)
    /\ \A i \in 1..Len(inbox[u]) : ~(/\ IsReceipt(inbox[u][i], "Delivery")
                                     /\ inbox[u][i].from = v /\ inbox[u][i].about = t)

StatusTrue(u, m) ==
    /\ m.status # "Sent" => Passed(u, m.to, m.ts)
    /\ m.status = "Read" => ShownBy(m.to, u, m.ts) /\ NoneWaits(u, m.to, m.ts)

Tracked == \A u \in Users : \A i \in 1..Len(sent[u]) : StatusTrue(u, sent[u][i])

MailInv ==
    /\ WellFormed /\ Stamped /\ Ordered /\ Fetched /\ Displayed /\ Receipts
    /\ Tracked /\ ShownInOrder
-----------------------------------------------------------------------------
(***************************************************************************)
(* The operators of the model.                                             *)
(***************************************************************************)
\* Every non-empty set of natural numbers has a least one.
LEMMA Least ==
    ASSUME NEW S \in SUBSET Nat, S # {}
    PROVE  \E x \in S : \A y \in S : x =< y
<1>1. PICK x \in S : \A y \in S : ~(<<y, x>> \in OpToRel(<, Nat))
    BY NatLessThanWellFounded, WFMin
<1>2. ASSUME NEW y \in S PROVE x =< y
  <2>1. y < x => <<y, x>> \in OpToRel(<, Nat)
      BY Zenon DEF OpToRel
  <2>2. ~(y < x)
      BY <1>1, <2>1
  <2> QED
      BY <2>2
<1> QED
    BY <1>2

\* A set of n places has a k-th one for each k of 1..n.
LEMMA NthIs ==
    ASSUME NEW n \in Nat, NEW S \in SUBSET (1..n), NEW k \in 1..Cardinality(S)
    PROVE  Nth(S, k) \in S
<1>1. PICK U : U = [x \in 0..n |-> {j \in S : j =< x}]
    OBVIOUS
<1>2. \A x \in 0..n : \A j : j \in U[x] <=> j \in S /\ j =< x
    BY <1>1
<1>3. \A j \in S : j \in Int /\ 1 =< j /\ j =< n
    OBVIOUS
<1>4. IsFiniteSet(S) /\ Cardinality(S) \in Nat
  <2>1. IsFiniteSet(1..n)
      BY FS_Interval
  <2> QED
      BY <2>1, FS_Subset, FS_CardinalityType
<1>5. ASSUME NEW x \in 0..n
      PROVE  IsFiniteSet(U[x]) /\ Cardinality(U[x]) \in Nat
  <2>1. U[x] \subseteq S
      BY <1>2
  <2> QED
      BY <1>4, <2>1, FS_Subset, FS_CardinalityType
<1>6. PICK T : T = {x \in 0..n : Cardinality(U[x]) >= k}
    OBVIOUS
<1>7. n \in T
  <2>1. n \in 0..n /\ \A j \in S : j \in U[n]
      BY <1>2, <1>3
  <2>2. U[n] = S
      BY <1>2, <2>1, Zenon
  <2> QED
      BY <1>4, <1>6, <2>1, <2>2
<1>8. T \in SUBSET Nat /\ T # {}
    BY <1>6, <1>7
<1>9. PICK x \in T : \A y \in T : x =< y
    BY <1>8, Least
<1>10. x \in 0..n /\ Cardinality(U[x]) >= k
    BY <1>6, <1>9
<1>11. x # 0
  <2>1. SUFFICES ASSUME x = 0 PROVE FALSE
      OBVIOUS
  <2>2. ASSUME NEW j, j \in U[x] PROVE FALSE
    <3>1. j \in S /\ j =< 0
        BY <1>2, <1>10, <2>1, <2>2
    <3> QED
        BY <1>3, <3>1
  <2>3. U[x] = {}
      BY <2>2
  <2>4. Cardinality(U[x]) = 0
      BY <2>3, FS_EmptySet
  <2> QED
      BY <1>4, <1>10, <2>4
<1>12. PICK y : y = x - 1
    OBVIOUS
<1>13. y \in 0..n /\ ~(x =< y) /\ y + 1 = x
    BY <1>10, <1>11, <1>12
<1>14. Cardinality(U[y]) < k
  <2>1. y \notin T
      BY <1>9, <1>13
  <2>2. Cardinality(U[y]) \in Nat
      BY <1>5, <1>13
  <2> QED
      BY <1>4, <1>6, <1>13, <2>1, <2>2
<1>15. \A j : j \in U[x] <=> j \in U[y] \/ (j = x /\ x \in S)
  <2>1. \A j \in S : j =< x <=> j =< y \/ j = x
      BY <1>3, <1>10, <1>13
  <2> QED
      BY <1>2, <1>10, <1>13, <2>1
<1>16. x \in S
  <2>1. SUFFICES ASSUME x \notin S PROVE FALSE
      OBVIOUS
  <2>2. U[x] = U[y]
      BY <1>15, <2>1, Zenon
  <2> QED
      BY <1>4, <1>5, <1>10, <1>13, <1>14, <2>2
<1>17. Cardinality(U[x]) = k
  <2>1. x \notin U[y]
      BY <1>2, <1>13
  <2>2. U[x] = U[y] \cup {x}
      BY <1>15, <1>16, Zenon
  <2>3. IsFiniteSet(U[y])
      BY <1>5, <1>13
  <2>4. Cardinality(U[x]) = Cardinality(U[y]) + 1
      BY <2>1, <2>2, <2>3, FS_AddElement
  <2>5. Cardinality(U[y]) \in Nat /\ k \in Int
      BY <1>4, <1>5, <1>13
  <2> QED
      BY <1>10, <1>14, <2>4, <2>5
<1>18. U[x] = {j \in S : j =< x}
    BY <1>1, <1>10
<1>19. \E i \in S : Cardinality({j \in S : j =< i}) = k
    BY <1>16, <1>17, <1>18, Zenon
<1> QED
    BY <1>19, Zenon DEF Nth

\* The receipts for v are about messages of v in the batch.
LEMMA ReceiptsAre ==
    ASSUME NEW u \in Users, NEW v \in Users, NEW batch \in Seq(Envelopes),
           NEW r, r = receipts_for(u, v, batch)
    PROVE  /\ r \in Seq(Envelopes)
           /\ \A k \in 1..Len(r) : \E j \in 1..Len(batch) :
                /\ IsMessage(batch[j]) /\ batch[j].from = v
                /\ r[k] = delivery_receipt(u, batch[j], Nothing)
<1>1. PICK D : D = Due(batch, v)
    OBVIOUS
<1>2. /\ Len(batch) \in Nat /\ D \in SUBSET (1..Len(batch))
      /\ \A j \in D : IsMessage(batch[j]) /\ batch[j].from = v
    BY <1>1 DEF Due
<1>3. Cardinality(D) \in Nat
  <2>1. IsFiniteSet(1..Len(batch))
      BY <1>2, FS_Interval
  <2> QED
      BY <1>2, <2>1, FS_Subset, FS_CardinalityType
<1>4. \A k \in 1..Cardinality(D) : Nth(D, k) \in D
    BY <1>2, NthIs
<1>5. r = [k \in 1..Cardinality(D) |->
              delivery_receipt(u, batch[Nth(D, k)], Nothing)]
    BY <1>1 DEF receipts_for
<1>6. ASSUME NEW j \in 1..Len(batch)
      PROVE  delivery_receipt(u, batch[j], Nothing) \in Envelopes
  <2>1. batch[j] \in Envelopes
      BY ElementOfSeq
  <2>2. batch[j].from \in Users /\ batch[j].ts \in Nat
      BY <2>1 DEF Envelopes
  <2> QED
      BY <2>2 DEF delivery_receipt, ReceiptEnvelope, Envelopes, ReceiptTypes,
                  Contents
<1>7. \A k \in 1..Cardinality(D) : r[k] \in Envelopes
    BY <1>2, <1>4, <1>5, <1>6
<1>8. r \in Seq(Envelopes) /\ Len(r) = Cardinality(D)
    BY <1>3, <1>5, <1>7
<1> QED
    BY <1>2, <1>4, <1>5, <1>8

\* Posted: an envelope is queued behind those that wait for its addressee.
Posted(env) ==
    /\ queue' \in [Users -> Seq(Envelopes)]
    /\ \A v \in Users : Len(queue[v]) \in Nat
    /\ \A v \in Users \ {env.to} : queue'[v] = queue[v]
    /\ Len(queue'[env.to]) = Len(queue[env.to]) + 1
    /\ \A i \in 1..Len(queue[env.to]) : queue'[env.to][i] = queue[env.to][i]
    /\ queue'[env.to][Len(queue[env.to]) + 1] = env

LEMMA PostIs ==
    ASSUME TypeOK, NEW env \in Envelopes, queue' = post(queue, env)
    PROVE  Posted(env)
<1>1. env.to \in Users
    BY DEF Envelopes
<1>2. PICK q \in Seq(Envelopes) : q = queue[env.to]
    BY <1>1 DEF TypeOK
<1>3. queue' = [queue EXCEPT ![env.to] = Append(q, env)]
    BY <1>2 DEF post
<1>4. /\ Append(q, env) \in Seq(Envelopes) /\ Len(q) \in Nat
      /\ Len(Append(q, env)) = Len(q) + 1
      /\ \A i \in 1..Len(q) : Append(q, env)[i] = q[i]
      /\ Append(q, env)[Len(q) + 1] = env
    BY AppendProperties, LenProperties
<1>5. queue'[env.to] = Append(q, env) /\ \A v \in Users \ {env.to} : queue'[v] = queue[v]
    BY <1>1, <1>3 DEF TypeOK
<1>6. queue' \in [Users -> Seq(Envelopes)]
    BY <1>1, <1>3, <1>4 DEF TypeOK
<1>7. \A v \in Users : Len(queue[v]) \in Nat
    BY LenProperties DEF TypeOK
<1> QED
    BY <1>2, <1>4, <1>5, <1>6, <1>7 DEF Posted

\* NewReceipt: r is the delivery receipt for a message of v that waits for u.
NewReceipt(u, v, r) ==
    /\ IsReceipt(r, "Delivery") /\ r.from = u /\ r.to = v
    /\ \E j \in 1..Len(queue[u]) : /\ IsMessage(queue[u][j])
                                   /\ queue[u][j].from = v
                                   /\ r.about = queue[u][j].ts

\* FetchedBy: the queue of u is emptied and delivery receipts are queued.
FetchedBy(u) ==
    /\ queue' \in [Users -> Seq(Envelopes)]
    /\ \A v \in Users : Len(queue[v]) \in Nat
    /\ \A v \in Users \ {u} : Len(queue[v]) =< Len(queue'[v])
    /\ \A v \in Users : \A i \in 1..Len(queue'[v]) :
         \/ /\ v # u /\ i \in 1..Len(queue[v]) /\ queue'[v][i] = queue[v][i]
         \/ /\ v # u => i > Len(queue[v])
            /\ NewReceipt(u, v, queue'[v][i])

LEMMA FetchIs ==
    ASSUME TypeOK, NEW u \in Users, NEW n \in 0..Len(queue[u]),
           queue' = fetch_messages(queue, u, n)
    PROVE  FetchedBy(u)
<1>1. queue[u] \in Seq(Envelopes) /\ Len(queue[u]) \in Nat
    BY LenProperties DEF TypeOK
<1>2. PICK batch : batch = SubSeq(queue[u], 1, n)
    OBVIOUS
<1>3. /\ batch \in Seq(Envelopes) /\ Len(batch) = n
      /\ \A i \in 1..n : batch[i] = queue[u][i]
    BY <1>1, <1>2
<1>4. ASSUME NEW v \in Users
      PROVE  /\ queue'[v] \in Seq(Envelopes) /\ Len(queue[v]) \in Nat
             /\ v # u => Len(queue[v]) =< Len(queue'[v])
             /\ \A i \in 1..Len(queue'[v]) :
                  \/ /\ v # u /\ i \in 1..Len(queue[v])
                     /\ queue'[v][i] = queue[v][i]
                  \/ /\ v # u => i > Len(queue[v])
                     /\ NewReceipt(u, v, queue'[v][i])
  <2>1. PICK r : r = receipts_for(u, v, batch)
      OBVIOUS
  <2>2. /\ r \in Seq(Envelopes)
        /\ \A k \in 1..Len(r) : \E j \in 1..Len(batch) :
             /\ IsMessage(batch[j]) /\ batch[j].from = v
             /\ r[k] = delivery_receipt(u, batch[j], Nothing)
      BY <1>3, <2>1, ReceiptsAre
  <2>3. PICK q : q = IF v = u THEN <<>> ELSE queue[v]
      OBVIOUS
  <2>4. q \in Seq(Envelopes) /\ queue'[v] = q \o r
    <3>1. <<>> \in Seq(Envelopes)
        BY EmptySeq
    <3>2. queue[v] \in Seq(Envelopes)
        BY DEF TypeOK
    <3>3. q \in Seq(Envelopes)
        BY <2>3, <3>1, <3>2, Zenon
    <3>4. queue'[v] = (IF v = u THEN <<>> ELSE queue[v])
                        \o receipts_for(u, v, SubSeq(queue[u], 1, n))
        BY Zenon DEF fetch_messages
    <3> QED
        BY <1>2, <2>1, <2>3, <3>3, <3>4, Zenon
  <2>5. /\ queue'[v] \in Seq(Envelopes) /\ Len(q) \in Nat /\ Len(r) \in Nat
        /\ Len(queue'[v]) = Len(q) + Len(r)
        /\ \A i \in 1..(Len(q) + Len(r)) :
             queue'[v][i] = IF i <= Len(q) THEN q[i] ELSE r[i - Len(q)]
      BY <2>2, <2>4, ConcatProperties, LenProperties
  <2>6. (v = u => Len(q) = 0) /\ (v # u => q = queue[v])
      BY <2>3
  <2>7. \A k \in 1..Len(r) : NewReceipt(u, v, r[k])
    <3>1. TAKE k \in 1..Len(r)
    <3>2. PICK j \in 1..Len(batch) :
            /\ IsMessage(batch[j]) /\ batch[j].from = v
            /\ r[k] = delivery_receipt(u, batch[j], Nothing)
        BY <2>2
    <3>3. j \in 1..Len(queue[u]) /\ batch[j] = queue[u][j]
        BY <1>1, <1>3
    <3>4. /\ r[k].type = "Receipt" /\ r[k].receipt = "Delivery"
          /\ r[k].from = u /\ r[k].to = v /\ r[k].about = queue[u][j].ts
        BY <3>2, <3>3 DEF delivery_receipt, ReceiptEnvelope
    <3> QED
        BY <3>2, <3>3, <3>4 DEF NewReceipt, IsReceipt
  <2>8. ASSUME NEW i \in 1..Len(queue'[v])
        PROVE  \/ /\ v # u /\ i \in 1..Len(queue[v])
                  /\ queue'[v][i] = queue[v][i]
               \/ /\ v # u => i > Len(queue[v])
                  /\ NewReceipt(u, v, queue'[v][i])
    <3>1. CASE i <= Len(q)
      <4>1. v # u /\ q = queue[v]
          BY <2>5, <2>6, <3>1
      <4> QED
          BY <2>5, <3>1, <4>1
    <3>2. CASE ~(i <= Len(q))
      <4>1. i - Len(q) \in 1..Len(r) /\ queue'[v][i] = r[i - Len(q)] /\ i > Len(q)
          BY <2>5, <3>2
      <4> QED
          BY <2>6, <2>7, <4>1
    <3> QED
        BY <3>1, <3>2
  <2>9. Len(queue[v]) \in Nat
      BY LenProperties DEF TypeOK
  <2>10. v # u => Len(queue[v]) =< Len(queue'[v])
      BY <2>5, <2>6
  <2> QED
      BY <2>5, <2>8, <2>9, <2>10
<1>5. queue' \in [Users -> Seq(Envelopes)]
  <2>1. queue' = [v \in Users |-> queue'[v]]
      BY DEF fetch_messages
  <2> QED
      BY <1>4, <2>1
<1> QED
    BY <1>4, <1>5 DEF FetchedBy
-----------------------------------------------------------------------------
(***************************************************************************)
(* WellFormed is inductive.                                                *)
(***************************************************************************)
\* The ratchet makes sessions of sessions and ciphertexts.
LEMMA NewSessions ==
    ASSUME NEW a \in Keys, NEW b \in Keys
    PROVE  new_initiator(a, b) \in Sessions /\ new_responder(a, b) \in Sessions
<1>1. PICK r : r = Append(<<{a, b}>>, {a})
    OBVIOUS
<1>2. PICK q : q = Append(<<{b, a}>>, {a})
    OBVIOUS
<1>3. {a, b} \in SUBSET Keys /\ {b, a} \in SUBSET Keys /\ {a} \in SUBSET Keys
    OBVIOUS
<1>4. r \in Seq(SUBSET Keys) /\ q \in Seq(SUBSET Keys) /\ <<>> \in Seq(SUBSET Keys)
  <2> DEFINE K == SUBSET Keys
  <2>1. <<{a, b}>> \in Seq(K) /\ <<{b, a}>> \in Seq(K) /\ <<>> \in Seq(K)
      BY <1>3
  <2> HIDE DEF K
  <2>2. {a} \in K
      BY <1>3 DEF K
  <2>3. r \in Seq(K) /\ q \in Seq(K) /\ <<>> \in Seq(K)
      BY <1>1, <1>2, <2>1, <2>2, AppendProperties
  <2> QED
      BY <2>3 DEF K
<1>5. \A x \in Seq(SUBSET Keys) : ChainOf(x) \in Chains
    BY DEF ChainOf, Chains
<1>6. ZeroKey \in Chains
    BY <1>4, <1>5 DEF ZeroKey
<1>7. new_initiator(a, b) = [dh |-> a, their |-> b, root |-> r,
          send |-> ChainOf(r), recv |-> ZeroKey, initiator |-> TRUE]
    BY <1>1, Zenon DEF new_initiator, derive_chain_keys, DH
<1>8. new_responder(a, b) = [dh |-> b, their |-> a, root |-> q,
          send |-> ZeroKey, recv |-> ChainOf(q), initiator |-> FALSE]
    BY <1>2, Zenon DEF new_responder, derive_chain_keys, DH
<1>9. ChainOf(r) \in Chains /\ ChainOf(q) \in Chains
    BY <1>4, <1>5
<1> QED
    BY <1>4, <1>6, <1>7, <1>8, <1>9 DEF Sessions

LEMMA Encrypting ==
    ASSUME NEW s \in Sessions
    PROVE  ciphertext(s) \in Ciphertexts /\ after_encrypt(s) \in Sessions
<1>1. ciphertext(s) \in Ciphertexts
    BY DEF ciphertext, Sessions, Ciphertexts
<1>2. ratchet_chain_key(s.send) \in Chains
    BY DEF Sessions, Chains, ratchet_chain_key
<1>3. after_encrypt(s) = [s EXCEPT !.send = ratchet_chain_key(s.send)]
    BY DEF after_encrypt
<1> QED
    BY <1>1, <1>2, <1>3 DEF Sessions

LEMMA Decrypting ==
    ASSUME NEW s \in Sessions, NEW m \in Ciphertexts
    PROVE  after_decrypt(s, m) \in Sessions
<1>1. \A c \in Chains : ratchet_chain_key(c) \in Chains
    BY DEF Chains, ratchet_chain_key
<1>4. m.ratchet_key \in Keys
    BY DEF Ciphertexts
<1>5. PICK z : z = [s EXCEPT !.their = m.ratchet_key]
    OBVIOUS
<1>6. z \in Sessions
    BY <1>4, <1>5 DEF Sessions
<1>7. PICK d : d = DH(z.dh, z.their)
    OBVIOUS
<1>8. PICK r : r = derive_chain_keys(z.root, d)
    OBVIOUS
<1>9. r \in Seq(SUBSET Keys)
  <2> DEFINE K == SUBSET Keys
  <2>1. d \in K /\ z.root \in Seq(K)
      BY <1>6, <1>7 DEF DH, Sessions
  <2> HIDE DEF K
  <2>2. r \in Seq(K)
      BY <1>8, <2>1, AppendProperties DEF derive_chain_keys
  <2> QED
      BY <2>2 DEF K
<1>10. ChainOf(r) \in Chains
    BY <1>9 DEF ChainOf, Chains
<1>11. dh_ratchet_step(z) = IF z.initiator
           THEN [z EXCEPT !.root = r, !.send = ChainOf(r)]
           ELSE [z EXCEPT !.root = r, !.recv = ChainOf(r)]
    BY <1>7, <1>8, Zenon DEF dh_ratchet_step
<1>12. dh_ratchet_step(z) \in Sessions
    BY <1>6, <1>9, <1>10, <1>11 DEF Sessions
<1>13. PICK f : f = follow_ratchet_key(s, m)
    OBVIOUS
<1>14. f \in Sessions
    BY <1>5, <1>12, <1>13, Zenon DEF follow_ratchet_key
<1>15. after_decrypt(s, m) = [f EXCEPT !.recv = ratchet_chain_key(f.recv)]
    BY <1>13 DEF after_decrypt
<1>16. ratchet_chain_key(f.recv) \in Chains
    BY <1>1, <1>14 DEF Sessions
<1> QED
    BY <1>14, <1>15, <1>16 DEF Sessions

\* Pairs of users, and one more of them.
LEMMA PairsOfUsers ==
    ASSUME NEW D, D \subseteq SUBSET Users, NEW u \in Users, NEW E,
           E = D \cup {{u, v} : v \in Users}
    PROVE  E \subseteq SUBSET Users
<1>1. \A v \in Users : {u, v} \in SUBSET Users
    OBVIOUS
<1>2. \A x \in E : x \in D \/ \E v \in Users : x = {u, v}
    OBVIOUS
<1>3. ASSUME NEW x \in E PROVE x \in SUBSET Users
  <2>1. CASE x \in D
      BY <2>1
  <2>2. CASE \E v \in Users : x = {u, v}
      BY <1>1, <2>2
  <2> QED
      BY <1>2, <2>1, <2>2
<1> QED
    BY <1>3

\* Took: u has taken the first envelope of its batch.
Took(u) ==
    /\ Len(inbox[u]) \in Nat /\ Len(inbox[u]) > 0
    /\ Current(u) = inbox[u][1] /\ Current(u) \in Envelopes
    /\ Current(u).to = u /\ Encrypted(Current(u))
    /\ inbox' \in [Users -> Seq(Envelopes)]
    /\ \A v \in Users \ {u} : inbox'[v] = inbox[v]
    /\ Len(inbox'[u]) = Len(inbox[u]) - 1
    /\ \A i \in 1..Len(inbox'[u]) : /\ i + 1 \in 1..Len(inbox[u])
                                    /\ inbox'[u][i] = inbox[u][i + 1]
    /\ pc' \in [Users -> {"down", "connecting", "idle", "sending", "receiving"}]
    /\ pc[u] = "receiving" /\ \A v \in Users \ {u} : pc'[v] = pc[v]
    /\ pc'[u] \in {"idle", "receiving"}
    /\ pc'[u] = "receiving" => inbox'[u] # <<>>

LEMMA TookIs ==
    ASSUME WellFormed, NEW u \in Users, NEW type, Handling(u, type)
    PROVE  Took(u) /\ Current(u).type = type
<1>1. PICK s \in Seq(Envelopes) : s = inbox[u]
    BY DEF WellFormed, TypeOK
<1>2. pc[u] = "receiving" /\ s # <<>>
    BY <1>1 DEF WellFormed, Busy, Handling
<1>3. /\ Len(s) \in Nat /\ Len(s) > 0
      /\ Head(s) = s[1] /\ Head(s) \in Envelopes /\ Tail(s) \in Seq(Envelopes)
      /\ Len(Tail(s)) = Len(s) - 1
      /\ \A i \in 1..Len(Tail(s)) : Tail(s)[i] = s[i + 1]
    BY <1>2, HeadTailProperties, LenProperties, EmptySeq
<1>4. inbox' = [inbox EXCEPT ![u] = Tail(s)]
    BY <1>1 DEF Handling
<1>5. inbox'[u] = Tail(s) /\ \A v \in Users \ {u} : inbox'[v] = inbox[v]
    BY <1>4 DEF WellFormed, TypeOK
<1>6. inbox' \in [Users -> Seq(Envelopes)]
    BY <1>3, <1>4 DEF WellFormed, TypeOK
<1>7. /\ Current(u) = s[1] /\ Current(u) \in Envelopes
      /\ Current(u).to = u /\ Encrypted(Current(u))
    BY <1>1, <1>3 DEF Current, WellFormed, Filled
<1>8. pc' = [pc EXCEPT ![u] = IF Len(s) = 1 THEN "idle" ELSE "receiving"]
    BY <1>1, <1>2 DEF Handling
<1>9. /\ pc' \in [Users -> {"down", "connecting", "idle", "sending", "receiving"}]
      /\ \A v \in Users \ {u} : pc'[v] = pc[v]
      /\ pc'[u] = IF Len(s) = 1 THEN "idle" ELSE "receiving"
    BY <1>8 DEF WellFormed, TypeOK
<1>10. pc'[u] = "receiving" => inbox'[u] # <<>>
  <2>1. SUFFICES ASSUME pc'[u] = "receiving", Tail(s) = <<>> PROVE FALSE
      BY <1>5
  <2>2. Len(<<>>) = 0
      OBVIOUS
  <2>3. Len(Tail(s)) = 0
      BY <2>1, <2>2, Zenon
  <2> QED
      BY <1>3, <1>9, <2>1, <2>3
<1>11. \A i \in 1..Len(Tail(s)) : i + 1 \in 1..Len(s)
    BY <1>3
<1>12. Current(u).type = type
    BY DEF Handling
<1> QED
    BY <1>1, <1>2, <1>3, <1>5, <1>6, <1>7, <1>9, <1>10, <1>11, <1>12 DEF Took

\* What the queues hold after a step.
GoodQueue ==
    /\ queue \in [Users -> Seq(Envelopes)]
    /\ \A u \in Users : \A i \in 1..Len(queue[u]) :
         queue[u][i].to = u /\ Encrypted(queue[u][i])

LEMMA PostGood ==
    ASSUME WellFormed, NEW env \in Envelopes, Encrypted(env),
           queue' = post(queue, env)
    PROVE  GoodQueue' /\ Posted(env)
<1>1. Posted(env) /\ env.to \in Users
    BY PostIs DEF WellFormed, Envelopes
<1>2. ASSUME NEW v \in Users, NEW i \in 1..Len(queue'[v])
      PROVE  (queue[v][i].to = v /\ Encrypted(queue[v][i]))'
  <2>0. queue'[v][i].to = v /\ Encrypted(queue'[v][i])
    <3>1. CASE v # env.to
        BY <1>1, <1>2, <3>1 DEF Posted, WellFormed, Filled
    <3>2. CASE v = env.to
      <4>1. i \in 1..Len(queue[v]) \/ i = Len(queue[v]) + 1
          BY <1>1, <3>2 DEF Posted
      <4>2. CASE i \in 1..Len(queue[v])
          BY <1>1, <3>2, <4>2 DEF Posted, WellFormed, Filled
      <4>3. CASE i = Len(queue[v]) + 1
          BY <1>1, <3>2, <4>3 DEF Posted
      <4> QED
          BY <4>1, <4>2, <4>3
    <3> QED
        BY <3>1, <3>2
  <2> QED
      BY <2>0 DEF Encrypted, IsMessage
<1>3. queue' \in [Users -> Seq(Envelopes)]
    BY <1>1 DEF Posted
<1> QED
    BY <1>1, <1>2, <1>3 DEF GoodQueue

LEMMA FetchGood ==
    ASSUME WellFormed, NEW u \in Users, NEW n \in 0..Len(queue[u]),
           queue' = fetch_messages(queue, u, n)
    PROVE  GoodQueue' /\ FetchedBy(u)
<1>1. FetchedBy(u)
    BY FetchIs DEF WellFormed
<1>2. ASSUME NEW v \in Users, NEW i \in 1..Len(queue'[v])
      PROVE  (queue[v][i].to = v /\ Encrypted(queue[v][i]))'
  <2>0. queue'[v][i].to = v /\ Encrypted(queue'[v][i])
    <3>1. \/ i \in 1..Len(queue[v]) /\ queue'[v][i] = queue[v][i]
          \/ NewReceipt(u, v, queue'[v][i])
        BY <1>1 DEF FetchedBy
    <3>2. CASE i \in 1..Len(queue[v]) /\ queue'[v][i] = queue[v][i]
        BY <3>2 DEF WellFormed, Filled
    <3>3. CASE NewReceipt(u, v, queue'[v][i])
      <4>1. queue'[v][i].type = "Receipt" /\ queue'[v][i].to = v
          BY <3>3 DEF NewReceipt, IsReceipt
      <4> QED
          BY <4>1 DEF Encrypted, IsMessage, MessageTypes
    <3> QED
        BY <3>1, <3>2, <3>3
  <2> QED
      BY <2>0 DEF Encrypted, IsMessage
<1>3. queue' \in [Users -> Seq(Envelopes)]
    BY <1>1 DEF FetchedBy
<1> QED
    BY <1>1, <1>2, <1>3 DEF GoodQueue

LEMMA WellFormedInit == Init => WellFormed
<1> SUFFICES ASSUME Init PROVE WellFormed
    OBVIOUS
<1>1. TypeOK
  <2>1. queue \in [Users -> Seq(Envelopes)] /\ inbox \in [Users -> Seq(Envelopes)]
      BY EmptySeq DEF Init
  <2>2. /\ sent \in [Users -> Seq([to : Users, ts : Nat, status : Statuses])]
        /\ shown \in [Users -> Seq([from : Users, ts : Nat])]
      BY EmptySeq DEF Init
  <2>3. sessions \in [Users -> [Users -> Sessions \cup {NoSession}]]
      BY DEF Init, NoSessions
  <2> QED
      BY <2>1, <2>2, <2>3, MessagingAssumption DEF Init, TypeOK
<1>2. Busy
    BY DEF Init, Busy
<1>3. Filled
    BY DEF Init, Filled
<1> QED
    BY <1>1, <1>2, <1>3 DEF WellFormed

\* What the out trays and the batches hold.
GoodOut ==
    /\ out \in [Users -> SUBSET Envelopes]
    /\ \A u \in Users : \A env \in out[u] :
         /\ env.from = u /\ IsMessage(env) /\ env.ts = now[u]
         /\ Encrypted(env)

GoodInbox ==
    /\ inbox \in [Users -> Seq(Envelopes)]
    /\ \A u \in Users : \A i \in 1..Len(inbox[u]) :
         inbox[u][i].to = u /\ Encrypted(inbox[u][i])

LEMMA TookGood ==
    ASSUME WellFormed, NEW u \in Users, Took(u)
    PROVE  GoodInbox'
<1>1. ASSUME NEW v \in Users, NEW i \in 1..Len(inbox'[v])
      PROVE  (inbox[v][i].to = v /\ Encrypted(inbox[v][i]))'
  <2>0. inbox'[v][i].to = v /\ Encrypted(inbox'[v][i])
    <3>1. CASE v # u
      <4>1. inbox'[v] = inbox[v]
          BY <3>1 DEF Took
      <4> QED
          BY <1>1, <4>1 DEF WellFormed, Filled
    <3>2. CASE v = u
      <4>1. PICK j \in 1..Len(inbox[u]) : inbox'[u][i] = inbox[u][j]
          BY <1>1, <3>2 DEF Took
      <4>2. inbox[u][j].to = u /\ Encrypted(inbox[u][j])
          BY <4>1 DEF WellFormed, Filled
      <4> QED
          BY <3>2, <4>1, <4>2
    <3> QED
        BY <3>1, <3>2
  <2> QED
      BY <2>0 DEF Encrypted, IsMessage
<1>2. inbox' \in [Users -> Seq(Envelopes)]
    BY DEF Took
<1> QED
    BY <1>1, <1>2 DEF GoodInbox

\* SendWith: one envelope under way, with the next timestamp.
Stamp(u, env) ==
    /\ env.from = u /\ IsMessage(env) /\ env.ts = now[u] + 1
    /\ env \in Envelopes /\ Encrypted(env)
    /\ out' = [out EXCEPT ![u] = {env}]
    /\ now' = [now EXCEPT ![u] = now[u] + 1]
    /\ pc' = [pc EXCEPT ![u] = "sending"]

LEMMA StampIs ==
    ASSUME WellFormed, NEW u \in Users, NEW v \in Users, NEW type \in MessageTypes,
           NEW content \in Contents, SendWith(u, v, type, content),
           v # u => content \in Ciphertexts, type = "PreKeyBundle" => v # u
    PROVE  \E env : env.to = v /\ Stamp(u, env)
<1>1. PICK env : env = MessageEnvelope(u, v, type, now[u] + 1, content)
    OBVIOUS
<1>2. now[u] + 1 \in Nat
    BY MessagingAssumption DEF WellFormed, TypeOK
<1>3. /\ env.from = u /\ env.to = v /\ env.type = type /\ env.ts = now[u] + 1
      /\ env.content = content
    BY <1>1 DEF MessageEnvelope
<1>4. env \in Envelopes
    BY <1>1, <1>2 DEF MessageEnvelope, Envelopes
<1>5. IsMessage(env) /\ Encrypted(env)
    BY <1>3 DEF IsMessage, Encrypted
<1>6. /\ out' = [out EXCEPT ![u] = {env}]
      /\ now' = [now EXCEPT ![u] = now[u] + 1]
      /\ pc' = [pc EXCEPT ![u] = "sending"]
    BY <1>1 DEF SendWith
<1> QED
    BY <1>3, <1>4, <1>5, <1>6 DEF Stamp

LEMMA StampGood ==
    ASSUME WellFormed, NEW u \in Users, NEW env, Stamp(u, env), pc[u] = "idle",
           now[u] < MaxSends, UNCHANGED <<spk, inbox>>
    PROVE  /\ GoodOut' /\ now' \in [Users -> 0..MaxSends] /\ Busy'
           /\ pc' \in [Users -> {"down", "connecting", "idle", "sending",
                                 "receiving"}]
<1>1. /\ now' \in [Users -> 0..MaxSends] /\ out' \in [Users -> SUBSET Envelopes]
      /\ pc' \in [Users -> {"down", "connecting", "idle", "sending",
                            "receiving"}]
    BY MessagingAssumption DEF WellFormed, TypeOK, Stamp
<1>2. /\ out'[u] = {env} /\ now'[u] = now[u] + 1 /\ pc'[u] = "sending"
      /\ \A w \in Users \ {u} : /\ out'[w] = out[w] /\ now'[w] = now[w]
                                /\ pc'[w] = pc[w]
    BY DEF WellFormed, TypeOK, Stamp
<1>3. ASSUME NEW w \in Users, NEW e \in out'[w]
      PROVE  e.from = w /\ IsMessage(e) /\ e.ts = now'[w] /\ Encrypted(e)
  <2>1. CASE w = u
      BY <1>2, <2>1 DEF Stamp
  <2>2. CASE w # u
      BY <1>2, <1>3, <2>2 DEF WellFormed, Filled
  <2> QED
      BY <2>1, <2>2
<1>4. GoodOut'
    BY <1>1, <1>3 DEF GoodOut, Encrypted, IsMessage
<1>5. Busy'
    BY <1>2 DEF WellFormed, Busy
<1> QED
    BY <1>1, <1>4, <1>5

LEMMA GoodNow ==
    ASSUME WellFormed
    PROVE  GoodQueue /\ GoodInbox /\ GoodOut
BY DEF WellFormed, TypeOK, Filled, GoodQueue, GoodInbox, GoodOut

LEMMA GoodFilled ==
    ASSUME GoodQueue', GoodInbox', GoodOut'
    PROVE  Filled'
BY DEF Filled, GoodQueue, GoodInbox, GoodOut

\* An answer counts a fault, within the bound.
LEMMA AnsweredType ==
    ASSUME TypeOK, NEW ok \in BOOLEAN, Answered(ok)
    PROVE  faults' \in 0..MaxFaults
BY MessagingAssumption DEF TypeOK, Answered

\* Edited: the clock moves on, and a message with the new time may be queued.
Edited(u) ==
    /\ pc[u] = "idle" /\ now' = [now EXCEPT ![u] = now[u] + 1]
    /\ now' \in [Users -> 0..MaxSends]
    /\ \/ queue' = queue
       \/ \E env \in Envelopes :
            /\ Encrypted(env) /\ env.from = u /\ IsMessage(env)
            /\ env.ts = now[u] + 1 /\ queue' = post(queue, env)
    /\ sessions' \in [Users -> [Users -> Sessions \cup {NoSession}]]
    /\ disturbed' \subseteq SUBSET Users

LEMMA EditIs ==
    ASSUME WellFormed, NEW u \in Users, NEW i, NEW ok \in BOOLEAN,
           edit_message(u, i, ok)
    PROVE  Edited(u)
<1> USE DEF WellFormed
<1>1. PICK v \in Users : v = sent[u][i].to
  <2>1. PICK R : R = [to : Users, ts : Nat, status : Statuses]
      OBVIOUS
  <2>2. i \in DOMAIN sent[u] /\ sent[u] \in Seq(R)
      BY <2>1 DEF edit_message, TypeOK
  <2>3. sent[u][i] \in R
      BY <2>2
  <2> QED
      BY <2>1, <2>3
<1>2. PICK content : content = IF v = u THEN Nothing
                                        ELSE ciphertext(sessions[u][v])
    OBVIOUS
<1>3. PICK env : env = MessageEnvelope(u, v, "Normal", now[u] + 1, content)
    OBVIOUS
<1>4. IF v # u /\ sessions[u][v] = NoSession
      THEN ok /\ UNCHANGED <<queue, sessions, disturbed>>
      ELSE /\ queue' = IF ok THEN post(queue, env) ELSE queue
           /\ disturbed' = IF ok THEN disturbed ELSE disturbed \cup {{u, v}}
           /\ sessions' = IF v = u THEN sessions
                          ELSE [sessions EXCEPT ![u][v] = after_encrypt(@)]
    BY <1>1, <1>2, <1>3 DEF edit_message
<1>5. /\ pc[u] = "idle" /\ now[u] < MaxSends
      /\ now' = [now EXCEPT ![u] = now[u] + 1]
    BY DEF edit_message
<1>6. now' \in [Users -> 0..MaxSends] /\ now[u] + 1 \in Nat
  <2>1. MaxSends \in Nat /\ now \in [Users -> 0..MaxSends]
      BY MessagingAssumption DEF TypeOK
  <2> QED
      BY <1>5, <2>1
<1>7. disturbed' \subseteq SUBSET Users
  <2>1. {u, v} \in SUBSET Users /\ disturbed \subseteq SUBSET Users
      BY DEF TypeOK
  <2>2. disturbed' = disturbed \/ disturbed' = disturbed \cup {{u, v}}
      BY <1>4
  <2> QED
      BY <2>1, <2>2
<1>8. CASE v # u /\ sessions[u][v] = NoSession
  <2>1. queue' = queue /\ sessions' = sessions
      BY <1>4, <1>8
  <2> QED
      BY <1>5, <1>6, <1>7, <2>1 DEF Edited, TypeOK
<1>9. CASE ~(v # u /\ sessions[u][v] = NoSession)
  <2>1. v # u => /\ content \in Ciphertexts
                 /\ after_encrypt(sessions[u][v]) \in Sessions
    <3>1. SUFFICES ASSUME v # u
                   PROVE  /\ content \in Ciphertexts
                          /\ after_encrypt(sessions[u][v]) \in Sessions
        OBVIOUS
    <3>2. PICK s \in Sessions : s = sessions[u][v]
        BY <1>9, <3>1 DEF TypeOK
    <3>3. ciphertext(s) \in Ciphertexts /\ after_encrypt(s) \in Sessions
        BY Encrypting
    <3> QED
        BY <1>2, <3>1, <3>2, <3>3
  <2>2. content \in Contents
      BY <1>2, <2>1 DEF Contents, Ciphertexts
  <2>3. /\ env.from = u /\ env.to = v /\ env.type = "Normal"
        /\ env.ts = now[u] + 1 /\ env.content = content
      BY <1>3 DEF MessageEnvelope
  <2>4. env \in Envelopes
      BY <1>3, <1>6, <2>2 DEF MessageEnvelope, Envelopes, MessageTypes
  <2>5. IsMessage(env) /\ Encrypted(env)
      BY <2>1, <2>3 DEF IsMessage, Encrypted, MessageTypes
  <2>6. sessions' \in [Users -> [Users -> Sessions \cup {NoSession}]]
    <3>1. CASE v = u
        BY <1>4, <1>9, <3>1 DEF TypeOK
    <3>2. CASE v # u
      <4>1. sessions' = [sessions EXCEPT ![u][v] = after_encrypt(sessions[u][v])]
          BY <1>4, <1>9, <3>2 DEF TypeOK
      <4> QED
          BY <2>1, <3>2, <4>1 DEF TypeOK
    <3> QED
        BY <3>1, <3>2
  <2>7. queue' = queue \/ queue' = post(queue, env)
      BY <1>4, <1>9
  <2> QED
      BY <1>5, <1>6, <1>7, <2>3, <2>4, <2>5, <2>6, <2>7 DEF Edited
<1> QED
    BY <1>8, <1>9

\* Applied: the status of at most one tracked message is overwritten, one that
\* the receipt at the head of the batch is about.
Applied(u) ==
    \/ sent' = sent
    \/ \E k \in 1..Len(sent[u]), status \in {"Delivered", "Read"} :
         /\ sent[u][k].to = Current(u).from /\ sent[u][k].ts = Current(u).about
         /\ (status = "Delivered") <=> (Current(u).receipt = "Delivery")
         /\ sent' \in [Users -> Seq([to : Users, ts : Nat, status : Statuses])]
         /\ \A v \in Users \ {u} : sent'[v] = sent[v]
         /\ Len(sent'[u]) = Len(sent[u])
         /\ \A j \in 1..Len(sent[u]) :
              /\ sent'[u][j].to = sent[u][j].to /\ sent'[u][j].ts = sent[u][j].ts
              /\ sent'[u][j].status = IF j = k THEN status ELSE sent[u][j].status

LEMMA AppliedIs ==
    ASSUME TypeOK, NEW u \in Users, receive_receipt(u)
    PROVE  Applied(u)
<1> DEFINE status == IF Current(u).receipt = "Delivery" THEN "Delivered" ELSE "Read"
           M == Matching(u, Current(u))
<1>1. CASE M = {}
    BY <1>1, Zenon DEF receive_receipt, Applied
<1>2. CASE M # {}
  <2>1. PICK s \in Seq([to : Users, ts : Nat, status : Statuses]) : s = sent[u]
      BY DEF TypeOK
  <2>2. Len(s) \in Nat /\ DOMAIN s = 1..Len(s)
      BY <2>1, LenProperties
  <2>3. M \subseteq 1..Len(s) /\ M \in SUBSET Nat
      BY <2>1, <2>2 DEF Matching
  <2>4. \E i \in M : \A j \in M : i =< j
      BY <1>2, <2>3, Least
  <2>5. PICK k : k = CHOOSE i \in M : \A j \in M : i =< j
      OBVIOUS
  <2>6. k \in M
      BY <2>4, <2>5, Zenon
  <2>7. k \in 1..Len(s) /\ s[k].to = Current(u).from /\ s[k].ts = Current(u).about
      BY <2>1, <2>3, <2>6 DEF Matching
  <2>8. sent' = [sent EXCEPT ![u][k].status = status]
      BY <1>2, <2>5, Zenon DEF receive_receipt
  <2>9. PICK x : x = status
      OBVIOUS
  <2>10. /\ x \in {"Delivered", "Read"}
         /\ (x = "Delivered") <=> (Current(u).receipt = "Delivery")
      BY <2>9
  <2> HIDE DEF status, M
  <2>11. PICK z : z = [s[k] EXCEPT !.status = x]
      OBVIOUS
  <2>12. s[k] \in [to : Users, ts : Nat, status : Statuses]
    <3>1. PICK R : R = [to : Users, ts : Nat, status : Statuses]
        OBVIOUS
    <3>2. s \in Seq(R)
        BY <2>1, <3>1
    <3> QED
        BY <2>7, <3>1, <3>2, ElementOfSeq
  <2>13. /\ z \in [to : Users, ts : Nat, status : Statuses]
         /\ z.to = s[k].to /\ z.ts = s[k].ts /\ z.status = x
      BY <2>10, <2>11, <2>12 DEF Statuses
  <2>14. PICK t : t = [s EXCEPT ![k] = z]
      OBVIOUS
  <2>15. /\ t \in Seq([to : Users, ts : Nat, status : Statuses])
         /\ Len(t) = Len(s) /\ t[k] = z
         /\ \A j \in 1..Len(s) : j # k => t[j] = s[j]
      BY <2>2, <2>7, <2>13, <2>14
  <2>16. sent' = [sent EXCEPT ![u] = t]
      BY <2>1, <2>8, <2>9, <2>11, <2>14 DEF TypeOK
  <2>17. sent'[u] = t /\ \A v \in Users \ {u} : sent'[v] = sent[v]
      BY <2>16 DEF TypeOK
  <2>18. sent' \in [Users -> Seq([to : Users, ts : Nat, status : Statuses])]
      BY <2>15, <2>16 DEF TypeOK
  <2>19. \A j \in 1..Len(s) :
           /\ t[j].to = s[j].to /\ t[j].ts = s[j].ts
           /\ t[j].status = IF j = k THEN x ELSE s[j].status
      BY <2>13, <2>15
  <2>20. /\ sent[u][k].to = Current(u).from /\ sent[u][k].ts = Current(u).about
         /\ Len(sent'[u]) = Len(sent[u])
         /\ \A j \in 1..Len(sent[u]) :
              /\ sent'[u][j].to = sent[u][j].to /\ sent'[u][j].ts = sent[u][j].ts
              /\ sent'[u][j].status = IF j = k THEN x ELSE sent[u][j].status
      BY <2>1, <2>7, <2>15, <2>17, <2>19
  <2>21. k \in 1..Len(sent[u])
      BY <2>1, <2>7
  <2> QED
      BY <2>10, <2>17, <2>18, <2>20, <2>21, Zenon DEF Applied
<1> QED
    BY <1>1, <1>2

LEMMA WellFormedStep ==
    ASSUME WellFormed, [Next]_vars
    PROVE  WellFormed'
<1> USE DEF WellFormed
<1> DEFINE Goal == WellFormed'
<1>0. GoodQueue /\ GoodInbox /\ GoodOut
    BY GoodNow
<1>1. ASSUME NEW u \in Users, new(u)
      PROVE  Goal
  <2>1. TypeOK'
    <3>1. keys[u] + 1 \in Nat /\ <<u, keys[u] + 1>> \in Keys
        BY DEF TypeOK, Keys
    <3> QED
        BY <1>1, <3>1 DEF new, TypeOK, serverVars, histVars
  <2>2. Busy'
    <3>1. keys[u] + 1 \in Nat /\ <<u, keys[u] + 1>> \in Keys
        BY DEF TypeOK, Keys
    <3> QED
        BY <1>1, <3>1 DEF new, TypeOK, Busy
  <2>3. Filled'
      BY <1>1 DEF new, Filled, serverVars
  <2> QED
      BY <2>1, <2>2, <2>3
<1>2. ASSUME NEW u \in Users, register(u)
      PROVE  Goal
  <2>1. TypeOK'
      BY <1>2 DEF register, TypeOK, countVars, histVars
  <2>2. Busy'
      BY <1>2 DEF register, TypeOK, Busy
  <2>3. Filled'
      BY <1>2 DEF register, Filled, countVars
  <2> QED
      BY <2>1, <2>2, <2>3
<1>3. ASSUME NEW u \in Users, Kill(u)
      PROVE  Goal
  <2>1. GoodQueue'
    <3>1. CASE queue' = queue
        BY <1>0, <3>1 DEF GoodQueue, Encrypted, IsMessage
    <3>2. CASE queue' # queue
      <4>1. PICK env \in out[u] : queue' = post(queue, env)
          BY <1>3, <3>2 DEF Kill
      <4>2. env \in Envelopes /\ Encrypted(env)
          BY <1>0, <4>1 DEF GoodOut
      <4> QED
          BY <4>1, <4>2, PostGood
    <3> QED
        BY <3>1, <3>2
  <2>2. GoodInbox'
    <3>1. inbox' \in [Users -> Seq(Envelopes)]
        BY <1>3, EmptySeq DEF Kill, TypeOK
    <3>2. inbox'[u] = <<>> /\ \A v \in Users \ {u} : inbox'[v] = inbox[v]
        BY <1>3 DEF Kill, TypeOK
    <3>3. Len(<<>>) = 0
        OBVIOUS
    <3>4. ASSUME NEW v \in Users, NEW i \in 1..Len(inbox'[v])
          PROVE  inbox'[v][i].to = v /\ Encrypted(inbox'[v][i])
      <4>1. v # u
          BY <3>2, <3>3
      <4>2. inbox'[v] = inbox[v]
          BY <3>2, <4>1
      <4> QED
          BY <1>0, <4>2 DEF GoodInbox
    <3> QED
        BY <3>1, <3>4 DEF GoodInbox, Encrypted, IsMessage
  <2>3. GoodOut'
      BY <1>0, <1>3 DEF Kill, GoodOut, Encrypted, IsMessage
  <2>4. TypeOK'
    <3>1. disturbed' \subseteq SUBSET Users
      <4>1. /\ disturbed' = disturbed \cup {{u, v} : v \in Users}
            /\ disturbed \subseteq SUBSET Users
          BY <1>3 DEF Kill, TypeOK
      <4> QED
          BY <4>1, PairsOfUsers
    <3>2. sessions' \in [Users -> [Users -> Sessions \cup {NoSession}]]
        BY <1>3 DEF Kill, TypeOK, NoSessions
    <3>3. /\ pc' \in [Users -> {"down", "connecting", "idle", "sending",
                                "receiving"}]
          /\ spk' \in [Users -> Keys \cup {NoKey}] /\ faults' \in 0..MaxFaults
        BY <1>3, MessagingAssumption DEF Kill, TypeOK
    <3> QED
        BY <1>3, <2>1, <2>2, <2>3, <3>1, <3>2, <3>3
           DEF Kill, TypeOK, GoodQueue, GoodInbox, GoodOut
  <2>5. Busy'
      BY <1>3 DEF Kill, TypeOK, Busy
  <2> QED
      BY <2>1, <2>2, <2>3, <2>4, <2>5, GoodFilled
\* The frame of a command that stamps an envelope.
<1>4. ASSUME NEW u \in Users, NEW env, Stamp(u, env), pc[u] = "idle",
             now[u] < MaxSends,
             sessions' \in [Users -> [Users -> Sessions \cup {NoSession}]],
             keys' \in [Users -> Nat], initiated' \subseteq Users \X Users,
             UNCHANGED <<serverVars, spk, inbox, sent, edits, faults, shown,
                         failed, missing, disturbed>>
      PROVE  Goal
  <2>1. /\ GoodOut' /\ now' \in [Users -> 0..MaxSends] /\ Busy'
        /\ pc' \in [Users -> {"down", "connecting", "idle", "sending",
                              "receiving"}]
      BY <1>4, StampGood
  <2>2. TypeOK'
      BY <1>4, <2>1 DEF TypeOK, GoodOut, serverVars
  <2>3. GoodQueue' /\ GoodInbox'
      BY <1>0, <1>4 DEF GoodQueue, GoodInbox, Encrypted, IsMessage, serverVars
  <2> QED
      BY <2>1, <2>2, <2>3, GoodFilled
<1>5. ASSUME NEW u \in Users, send_to_self(u)
      PROVE  Goal
  <2>1. PICK env : Stamp(u, env)
    <3>1. SendWith(u, u, "Normal", Nothing) /\ Nothing \in Contents
        BY <1>5 DEF send_to_self, Contents
    <3> QED
        BY <3>1, StampIs DEF MessageTypes
  <2> QED
      BY <1>4, <1>5, <2>1 DEF send_to_self, TypeOK, histVars
<1>6. ASSUME NEW u \in Users, NEW v \in Users, send_first(u, v)
      PROVE  Goal
  <2>1. keys[u] + 1 \in Nat /\ <<u, keys[u] + 1>> \in Keys /\ bundle[v] \in Keys
    <3>1. keys[u] + 1 \in Nat /\ <<u, keys[u] + 1>> \in Keys
        BY DEF TypeOK, Keys
    <3>2. bundle[v] \in Keys
        BY <1>6 DEF TypeOK, send_first
    <3> QED
        BY <3>1, <3>2
  <2>2. PICK s : s = new_initiator(<<u, keys[u] + 1>>, bundle[v])
      OBVIOUS
  <2>3. s \in Sessions
      BY <2>1, <2>2, NewSessions
  <2>4. ciphertext(s) \in Ciphertexts /\ after_encrypt(s) \in Sessions
      BY <2>3, Encrypting
  <2>5. /\ sessions' = [sessions EXCEPT ![u][v] = after_encrypt(s)]
        /\ SendWith(u, v, "PreKeyBundle", ciphertext(s)) /\ v # u
      BY <1>6, <2>2 DEF send_first
  <2>6. PICK env : Stamp(u, env)
    <3>1. ciphertext(s) \in Contents /\ "PreKeyBundle" \in MessageTypes
        BY <2>4 DEF Contents, Ciphertexts, MessageTypes
    <3> QED
        BY <2>4, <2>5, <3>1, StampIs
  <2>7. sessions' \in [Users -> [Users -> Sessions \cup {NoSession}]]
      BY <2>4, <2>5 DEF TypeOK
  <2>8. keys' \in [Users -> Nat] /\ initiated' \subseteq Users \X Users
    <3>1. keys' \in [Users -> Nat]
        BY <1>6 DEF send_first, TypeOK
    <3>2. initiated' = initiated \cup {<<u, v>>} /\ <<u, v>> \in Users \X Users
        BY <1>6 DEF send_first
    <3>3. initiated \subseteq Users \X Users
        BY DEF TypeOK
    <3> QED
        BY <3>1, <3>2, <3>3
  <2> QED
      BY <1>4, <1>6, <2>6, <2>7, <2>8 DEF send_first
<1>7. ASSUME NEW u \in Users, NEW v \in Users, send_next(u, v)
      PROVE  Goal
  <2>1. PICK s : s = sessions[u][v]
      OBVIOUS
  <2>2. s \in Sessions
      BY <1>7, <2>1 DEF TypeOK, send_next
  <2>3. ciphertext(s) \in Ciphertexts /\ after_encrypt(s) \in Sessions
      BY <2>2, Encrypting
  <2>4. /\ sessions' = [sessions EXCEPT ![u][v] = after_encrypt(s)]
        /\ SendWith(u, v, "Normal", ciphertext(s)) /\ v # u
      BY <1>7, <2>1 DEF send_next, TypeOK
  <2>5. PICK env : Stamp(u, env)
    <3>1. ciphertext(s) \in Contents /\ "Normal" \in MessageTypes
        BY <2>3 DEF Contents, Ciphertexts, MessageTypes
    <3> QED
        BY <2>3, <2>4, <3>1, StampIs
  <2>6. sessions' \in [Users -> [Users -> Sessions \cup {NoSession}]]
      BY <2>3, <2>4 DEF TypeOK
  <2> QED
      BY <1>4, <1>7, <2>5, <2>6 DEF send_next, TypeOK, histVars
<1>8. ASSUME NEW u \in Users, NEW ok \in BOOLEAN, send_answered(u, ok)
      PROVE  Goal
  <2>1. PICK env \in out[u] :
          /\ ok => /\ queue' = post(queue, env)
                   /\ sent' = [sent EXCEPT ![u] = Append(@,
                          [to |-> env.to, ts |-> env.ts, status |-> "Sent"])]
                   /\ UNCHANGED disturbed
          /\ ~ok => /\ disturbed' = disturbed \cup {{u, env.to}}
                    /\ UNCHANGED <<queue, sent>>
      BY <1>8 DEF send_answered
  <2>2. env \in Envelopes /\ Encrypted(env)
      BY <1>0, <2>1 DEF GoodOut
  <2>3. env.to \in Users /\ env.ts \in Nat
      BY <2>2 DEF Envelopes
  <2>4. GoodQueue'
    <3>1. CASE ok
        BY <2>1, <2>2, <3>1, PostGood
    <3>2. CASE ~ok
        BY <1>0, <2>1, <3>2 DEF GoodQueue, Encrypted, IsMessage
    <3> QED
        BY <3>1, <3>2
  <2>5. sent' \in [Users -> Seq([to : Users, ts : Nat, status : Statuses])]
    <3>1. CASE ok
      <4>1. [to |-> env.to, ts |-> env.ts, status |-> "Sent"]
                \in [to : Users, ts : Nat, status : Statuses]
          BY <2>3 DEF Statuses
      <4>2. PICK R : R = [to : Users, ts : Nat, status : Statuses]
          OBVIOUS
      <4>3. PICK m \in R : m = [to |-> env.to, ts |-> env.ts, status |-> "Sent"]
          BY <4>1, <4>2
      <4>4. sent[u] \in Seq(R) /\ sent \in [Users -> Seq(R)]
          BY <4>2 DEF TypeOK
      <4>5. Append(sent[u], m) \in Seq(R)
          BY <4>4, AppendProperties
      <4>6. sent' = [sent EXCEPT ![u] = Append(sent[u], m)]
          BY <2>1, <3>1, <4>3
      <4> QED
          BY <4>2, <4>4, <4>5, <4>6
    <3>2. CASE ~ok
        BY <2>1, <3>2 DEF TypeOK
    <3> QED
        BY <3>1, <3>2
  <2>6. disturbed' \subseteq SUBSET Users
    <3>1. disturbed' = disturbed \/ disturbed' = disturbed \cup {{u, env.to}}
        BY <2>1
    <3>2. disturbed \subseteq SUBSET Users
        BY DEF TypeOK
    <3>3. {u, env.to} \in SUBSET Users
        BY <2>3
    <3> QED
        BY <3>1, <3>2, <3>3
  <2>7. GoodInbox' /\ GoodOut'
    <3>1. GoodInbox'
        BY <1>0, <1>8 DEF send_answered, GoodInbox, Encrypted, IsMessage
    <3>2. /\ out' = [out EXCEPT ![u] = {}] /\ now' = now
        BY <1>8 DEF send_answered
    <3>3. GoodOut'
        BY <1>0, <3>2 DEF GoodOut, Encrypted, IsMessage
    <3> QED
        BY <3>1, <3>3
  <2>8. faults' \in 0..MaxFaults
      BY <1>8, AnsweredType DEF send_answered
  <2>9. TypeOK'
      BY <1>8, <2>4, <2>5, <2>6, <2>7, <2>8
         DEF send_answered, TypeOK, GoodQueue, GoodInbox, GoodOut
  <2>10. Busy'
      BY <1>8 DEF send_answered, TypeOK, Busy
  <2> QED
      BY <2>4, <2>7, <2>9, <2>10, GoodFilled
<1>9. ASSUME NEW u \in Users, NEW i, NEW ok \in BOOLEAN, edit_message(u, i, ok)
      PROVE  Goal
  <2>1. Edited(u)
      BY <1>9, EditIs
  <2>2. GoodQueue'
    <3>1. CASE queue' = queue
        BY <1>0, <3>1 DEF GoodQueue, Encrypted, IsMessage
    <3>2. CASE queue' # queue
      <4>1. PICK env \in Envelopes : Encrypted(env) /\ queue' = post(queue, env)
          BY <2>1, <3>2 DEF Edited
      <4> QED
          BY <4>1, PostGood
    <3> QED
        BY <3>1, <3>2
  <2>3. out[u] = {} /\ \A w \in Users \ {u} : now'[w] = now[w]
      BY <2>1 DEF Edited, Busy, TypeOK
  <2>4. UNCHANGED <<bundle, pc, spk, out, inbox, sent, keys, shown, failed,
                    missing, initiated>>
      BY <1>9 DEF edit_message
  <2>5. GoodInbox' /\ GoodOut'
      BY <1>0, <2>3, <2>4 DEF GoodInbox, GoodOut, Encrypted, IsMessage
  <2>6. faults' \in 0..MaxFaults /\ edits' \in 0..MaxEdits
    <3>1. Answered(ok)
        BY <1>9 DEF edit_message
    <3>2. edits < MaxEdits /\ edits' = edits + 1
        BY <1>9 DEF edit_message
    <3>3. faults' \in 0..MaxFaults
        BY <3>1, AnsweredType
    <3>4. MaxEdits \in Nat /\ edits \in 0..MaxEdits
        BY MessagingAssumption DEF TypeOK
    <3> QED
        BY <3>2, <3>3, <3>4
  <2>7. TypeOK'
      BY <2>1, <2>2, <2>4, <2>6 DEF Edited, TypeOK, GoodQueue
  <2>8. Busy'
      BY <2>4 DEF Busy
  <2> QED
      BY <2>2, <2>5, <2>7, <2>8, GoodFilled
<1>10. ASSUME NEW u \in Users, receive_messages(u)
       PROVE  Goal
  <2>1. queue[u] \in Seq(Envelopes) /\ Len(queue[u]) \in 0..Len(queue[u])
      BY LenProperties DEF TypeOK
  <2>2. GoodQueue'
      BY <1>10, <2>1, FetchGood DEF receive_messages
  <2>3. /\ inbox' \in [Users -> Seq(Envelopes)] /\ inbox'[u] = queue[u]
        /\ \A v \in Users \ {u} : inbox'[v] = inbox[v]
      BY <1>10, <2>1 DEF receive_messages, TypeOK
  <2>4. GoodInbox'
    <3>1. ASSUME NEW v \in Users, NEW i \in 1..Len(inbox'[v])
          PROVE  inbox'[v][i].to = v /\ Encrypted(inbox'[v][i])
      <4>1. CASE v = u
          BY <1>0, <2>3, <4>1 DEF GoodQueue
      <4>2. CASE v # u
          BY <1>0, <2>3, <4>2 DEF GoodInbox
      <4> QED
          BY <4>1, <4>2
    <3> QED
        BY <2>3, <3>1 DEF GoodInbox, Encrypted, IsMessage
  <2>5. GoodOut'
      BY <1>0, <1>10 DEF receive_messages, GoodOut, Encrypted, IsMessage, countVars
  <2>6. TypeOK'
      BY <1>10, <2>2, <2>4 DEF receive_messages, TypeOK, GoodQueue, GoodInbox,
                               countVars, histVars
  <2>7. Busy'
    <3>1. queue[u] # <<>>
        BY <1>10 DEF receive_messages
    <3>2. /\ pc[u] = "idle" /\ pc'[u] = "receiving"
          /\ \A v \in Users \ {u} : pc'[v] = pc[v]
          /\ out' = out /\ spk' = spk
        BY <1>10 DEF receive_messages, TypeOK
    <3> QED
        BY <2>3, <3>1, <3>2 DEF Busy
  <2> QED
      BY <2>2, <2>4, <2>5, <2>6, <2>7, GoodFilled
<1>11. ASSUME NEW u \in Users, receive_error(u)
       PROVE  Goal
  <2>1. PICK n \in 0..(Len(queue[u]) - 1) : queue' = fetch_messages(queue, u, n)
      BY <1>11 DEF receive_error
  <2>2. Len(queue[u]) \in Nat
      BY LenProperties DEF TypeOK
  <2>3. n \in 0..Len(queue[u])
      BY <2>1, <2>2
  <2>4. GoodQueue'
      BY <2>1, <2>3, FetchGood
  <2>5. GoodInbox' /\ GoodOut'
      BY <1>0, <1>11 DEF receive_error, GoodInbox, GoodOut, Encrypted, IsMessage,
                         procVars
  <2>6. disturbed' \subseteq SUBSET Users
    <3>1. /\ disturbed' = disturbed \cup {{u, v} : v \in Users}
          /\ disturbed \subseteq SUBSET Users
        BY <1>11 DEF receive_error, TypeOK
    <3> QED
        BY <3>1, PairsOfUsers
  <2>7. faults' \in 0..MaxFaults
      BY <1>11, AnsweredType DEF receive_error
  <2>8. TypeOK'
      BY <1>11, <2>4, <2>6, <2>7 DEF receive_error, TypeOK, GoodQueue, procVars
  <2>9. Busy'
      BY <1>11 DEF receive_error, Busy, procVars
  <2> QED
      BY <2>4, <2>5, <2>8, <2>9, GoodFilled
\* The frame of a step that handles an envelope.
<1>12. ASSUME NEW u \in Users, Took(u), GoodQueue',
              sessions' \in [Users -> [Users -> Sessions \cup {NoSession}]],
              sent' \in [Users -> Seq([to : Users, ts : Nat, status : Statuses])],
              faults' \in 0..MaxFaults,
              shown' \in [Users -> Seq([from : Users, ts : Nat])],
              failed' \subseteq Troubles, missing' \subseteq Troubles,
              UNCHANGED <<bundle, spk, out, keys, now, edits, initiated,
                          disturbed>>
       PROVE  Goal
  <2>1. GoodInbox'
      BY <1>12, TookGood
  <2>2. GoodOut'
      BY <1>0, <1>12 DEF GoodOut, Encrypted, IsMessage
  <2>3. TypeOK'
      BY <1>12, <2>1 DEF Took, TypeOK, GoodQueue, GoodInbox
  <2>4. Busy'
      BY <1>12 DEF Took, Busy
  <2> QED
      BY <1>12, <2>1, <2>2, <2>3, <2>4, GoodFilled
<1>13. ASSUME NEW u \in Users, Took(u)
       PROVE  /\ Current(u).from \in Users /\ Current(u).ts \in Nat
              /\ Trouble(u) \in Troubles
              /\ read_receipt(u, Current(u)) \in Envelopes
              /\ Encrypted(read_receipt(u, Current(u)))
              /\ [from |-> Current(u).from, ts |-> Current(u).ts]
                    \in [from : Users, ts : Nat]
  <2>1. Current(u).from \in Users /\ Current(u).ts \in Nat
      BY <1>13 DEF Took, Envelopes
  <2>2. Trouble(u) \in Troubles
      BY <2>1 DEF Trouble, Troubles
  <2>3. read_receipt(u, Current(u)) \in Envelopes
      BY <2>1 DEF read_receipt, ReceiptEnvelope, Envelopes, ReceiptTypes, Contents
  <2>4. Encrypted(read_receipt(u, Current(u)))
      BY DEF read_receipt, ReceiptEnvelope, Encrypted, IsMessage, MessageTypes
  <2> QED
      BY <2>1, <2>2, <2>3, <2>4
<1>14. ASSUME NEW u \in Users, Took(u), Show(u)
       PROVE  shown' \in [Users -> Seq([from : Users, ts : Nat])]
  <2>1. PICK R : R = [from : Users, ts : Nat]
      OBVIOUS
  <2>2. PICK m \in R : m = [from |-> Current(u).from, ts |-> Current(u).ts]
      BY <1>13, <1>14, <2>1
  <2>3. shown[u] \in Seq(R) /\ shown \in [Users -> Seq(R)]
      BY <2>1 DEF TypeOK
  <2>4. Append(shown[u], m) \in Seq(R)
      BY <2>3, AppendProperties
  <2>5. shown' = [shown EXCEPT ![u] = Append(shown[u], m)]
      BY <1>14, <2>2 DEF Show
  <2> QED
      BY <2>1, <2>3, <2>4, <2>5
<1>15. ASSUME NEW u \in Users, NEW ok \in BOOLEAN, Took(u), Accept(u, ok)
       PROVE  /\ GoodQueue' /\ faults' \in 0..MaxFaults /\ failed' \subseteq Troubles
              /\ shown' \in [Users -> Seq([from : Users, ts : Nat])]
  <2>1. CASE ok
    <3>1. queue' = post(queue, read_receipt(u, Current(u)))
        BY <1>15, <2>1 DEF Accept
    <3>2. GoodQueue'
        BY <1>13, <1>15, <3>1, PostGood
    <3> QED
        BY <1>14, <1>15, <3>2, AnsweredType DEF Accept, TypeOK
  <2>2. CASE ~ok
    <3>1. queue' = queue
        BY <1>15, <2>2 DEF Accept
    <3>2. GoodQueue'
        BY <1>0, <3>1 DEF GoodQueue, Encrypted, IsMessage
    <3> QED
        BY <1>14, <1>15, <3>2, AnsweredType DEF Accept, TypeOK
  <2> QED
      BY <2>1, <2>2
<1>16. ASSUME NEW u \in Users, Took(u), Reject(u)
       PROVE  /\ GoodQueue' /\ faults' \in 0..MaxFaults /\ failed' \subseteq Troubles
              /\ shown' \in [Users -> Seq([from : Users, ts : Nat])]
  <2>1. GoodQueue'
      BY <1>0, <1>16 DEF Reject, GoodQueue, Encrypted, IsMessage
  <2> QED
      BY <1>13, <1>16, <2>1 DEF Reject, TypeOK
<1>17. ASSUME NEW u \in Users, NEW ok \in BOOLEAN, receive_prekey(u, ok)
       PROVE  Goal
  <2>1. Took(u) /\ Current(u).type = "PreKeyBundle"
      BY <1>17, TookIs DEF receive_prekey
  <2>2. PICK m : m = Current(u).content
      OBVIOUS
  <2>3. m \in Ciphertexts
      BY <2>1, <2>2 DEF Took, Encrypted, IsMessage, MessageTypes
  <2>4. spk[u] \in Keys /\ m.ratchet_key \in Keys
      BY <2>1, <2>3 DEF Took, Busy, Ciphertexts
  <2>5. PICK s : s = new_responder(m.ratchet_key, spk[u])
      OBVIOUS
  <2>6. after_decrypt(s, m) \in Sessions
      BY <2>3, <2>4, <2>5, NewSessions, Decrypting
  <2>7. \/ /\ sessions' = [sessions EXCEPT
                             ![u][Current(u).from] = after_decrypt(s, m)]
           /\ Accept(u, ok)
        \/ Reject(u) /\ sessions' = sessions
      BY <1>17, <2>2, <2>5 DEF receive_prekey
  <2>8. sessions' \in [Users -> [Users -> Sessions \cup {NoSession}]]
    <3>1. PICK v \in Users : v = Current(u).from
        BY <1>13, <2>1
    <3>2. sessions' = sessions
            \/ sessions' = [sessions EXCEPT ![u][v] = after_decrypt(s, m)]
        BY <2>7, <3>1
    <3>3. CASE sessions' = sessions
        BY <3>3 DEF TypeOK
    <3>4. CASE sessions' = [sessions EXCEPT ![u][v] = after_decrypt(s, m)]
        BY <2>6, <3>4 DEF TypeOK
    <3> QED
        BY <3>2, <3>3, <3>4
  <2>9. /\ GoodQueue' /\ faults' \in 0..MaxFaults /\ failed' \subseteq Troubles
        /\ shown' \in [Users -> Seq([from : Users, ts : Nat])]
      BY <1>15, <1>16, <2>1, <2>7
  <2>10. UNCHANGED <<bundle, spk, out, sent, keys, now, edits, missing,
                     initiated, disturbed>>
      BY <1>17 DEF receive_prekey
  <2> QED
      BY <1>12, <2>1, <2>8, <2>9, <2>10 DEF TypeOK
<1>18. ASSUME NEW u \in Users, receive_saved(u)
       PROVE  Goal
  <2>1. Took(u)
      BY <1>18, TookIs DEF receive_saved
  <2>2. shown' \in [Users -> Seq([from : Users, ts : Nat])]
      BY <1>14, <1>18, <2>1 DEF receive_saved
  <2>3. UNCHANGED <<serverVars, spk, sessions, out, sent, countVars, failed,
                    missing, initiated, disturbed>>
      BY <1>18 DEF receive_saved
  <2>4. GoodQueue'
      BY <1>0, <2>3 DEF GoodQueue, Encrypted, IsMessage, serverVars
  <2> QED
      BY <1>12, <2>1, <2>2, <2>3, <2>4 DEF TypeOK, serverVars, countVars
<1>19. ASSUME NEW u \in Users, receive_missing(u)
       PROVE  Goal
  <2>1. Took(u)
      BY <1>19, TookIs DEF receive_missing
  <2>2. missing' \subseteq Troubles
      BY <1>13, <1>19, <2>1 DEF receive_missing, TypeOK
  <2>3. UNCHANGED <<serverVars, spk, sessions, out, sent, countVars, shown,
                    failed, initiated, disturbed>>
      BY <1>19 DEF receive_missing
  <2>4. GoodQueue'
      BY <1>0, <2>3 DEF GoodQueue, Encrypted, IsMessage, serverVars
  <2> QED
      BY <1>12, <2>1, <2>2, <2>3, <2>4 DEF TypeOK, serverVars, countVars
<1>20. ASSUME NEW u \in Users, NEW ok \in BOOLEAN, receive_normal(u, ok)
       PROVE  Goal
  <2>1. Took(u) /\ Current(u).type = "Normal"
      BY <1>20, TookIs DEF receive_normal
  <2>2. PICK m : m = Current(u).content
      OBVIOUS
  <2>3. m \in Ciphertexts
    <3>1. Current(u).from # u
        BY <1>20 DEF receive_normal
    <3> QED
        BY <2>1, <2>2, <3>1 DEF Took, Encrypted, IsMessage, MessageTypes
  <2>4. PICK v \in Users : v = Current(u).from
      BY <1>13, <2>1
  <2>5. PICK s : s = sessions[u][v]
      OBVIOUS
  <2>6. s \in Sessions
      BY <1>20, <2>4, <2>5 DEF receive_normal, TypeOK
  <2>7. after_decrypt(s, m) \in Sessions
      BY <2>3, <2>6, Decrypting
  <2>8. /\ sessions' = [sessions EXCEPT ![u][v] = after_decrypt(s, m)]
        /\ Accept(u, ok) \/ Reject(u)
      BY <1>20, <2>2, <2>4, <2>5 DEF receive_normal
  <2>9. sessions' \in [Users -> [Users -> Sessions \cup {NoSession}]]
      BY <2>7, <2>8 DEF TypeOK
  <2>10. /\ GoodQueue' /\ faults' \in 0..MaxFaults /\ failed' \subseteq Troubles
         /\ shown' \in [Users -> Seq([from : Users, ts : Nat])]
      BY <1>15, <1>16, <2>1, <2>8
  <2>11. UNCHANGED <<bundle, spk, out, sent, keys, now, edits, missing,
                     initiated, disturbed>>
      BY <1>20 DEF receive_normal
  <2> QED
      BY <1>12, <2>1, <2>9, <2>10, <2>11 DEF TypeOK
<1>21. ASSUME NEW u \in Users, receive_receipt(u)
       PROVE  Goal
  <2>1. Took(u)
      BY <1>21, TookIs DEF receive_receipt
  <2>2. sent' \in [Users -> Seq([to : Users, ts : Nat, status : Statuses])]
      BY <1>21, AppliedIs DEF Applied, TypeOK
  <2>3. UNCHANGED <<serverVars, spk, sessions, out, countVars, histVars>>
      BY <1>21 DEF receive_receipt
  <2>4. GoodQueue'
      BY <1>0, <2>3 DEF GoodQueue, Encrypted, IsMessage, serverVars
  <2> QED
      BY <1>12, <2>1, <2>2, <2>3, <2>4 DEF TypeOK, serverVars, countVars, histVars
<1>22. ASSUME UNCHANGED vars PROVE Goal
  <2>1. TypeOK'
      BY <1>22 DEF vars, TypeOK
  <2>2. Busy' /\ Filled'
      BY <1>22 DEF vars, Busy, Filled, Encrypted, IsMessage
  <2> QED
      BY <2>1, <2>2
<1> QED
    BY <1>1, <1>2, <1>3, <1>5, <1>6, <1>7, <1>8, <1>9, <1>10, <1>11, <1>17,
       <1>18, <1>19, <1>20, <1>21, <1>22 DEF Next, Command, Handle

LEMMA AlwaysWellFormed == Spec => []WellFormed
<1>1. Init => WellFormed
    BY WellFormedInit
<1>2. WellFormed /\ [Next]_vars => WellFormed'
    BY WellFormedStep
<1> QED
    BY <1>1, <1>2, PTL DEF Spec
-----------------------------------------------------------------------------
(***************************************************************************)
(* MailInv is inductive.  MailStep says what any step does to the mail: an *)
(* envelope that is new in a queue is a message later than all before it,  *)
(* the delivery receipt of a message that leaves the relay by this step,   *)
(* or the read receipt of one that this step shows.                        *)
(***************************************************************************)
\* Passed and ShownBy after the step.
PassedNext(u, v, t) ==
    /\ t =< now'[u]
    /\ \A i \in 1..Len(queue'[v]) :
         IsMessage(queue'[v][i]) /\ queue'[v][i].from = u => t < queue'[v][i].ts
    /\ \A env \in out'[u] : env.to = v => t < env.ts

ShownNext(v, u, t) ==
    \E k \in 1..Len(shown'[v]) : shown'[v][k].from = u /\ shown'[v][k].ts = t

FreshMessage(v, e) ==
    /\ IsMessage(e) /\ e.ts =< now'[e.from] /\ out'[e.from] = {}
    /\ \A t \in Nat : Passed(e.from, v, t) => t < e.ts
    /\ \A i \in 1..Len(queue[v]) :
         IsMessage(queue[v][i]) /\ queue[v][i].from = e.from => queue[v][i].ts < e.ts

FreshDelivery(v, e) ==
    /\ IsReceipt(e, "Delivery")
    /\ PassedNext(v, e.from, e.about) /\ ~Passed(v, e.from, e.about)

FreshRead(v, e) ==
    /\ IsReceipt(e, "Read")
    /\ PassedNext(v, e.from, e.about) /\ ShownNext(e.from, v, e.about)

\* The queue keeps some of its beginning and gets one new envelope, or
\* delivery receipts.
Arrived(v) ==
    \E n \in 0..Len(queue[v]) : \A i \in 1..Len(queue'[v]) :
        /\ i =< n => queue'[v][i] = queue[v][i]
        /\ i > n => /\ \/ FreshMessage(v, queue'[v][i])
                       \/ FreshDelivery(v, queue'[v][i])
                       \/ FreshRead(v, queue'[v][i])
                    /\ \A j \in 1..Len(queue'[v]) :
                         j > n /\ j # i => /\ FreshDelivery(v, queue'[v][i])
                                           /\ FreshDelivery(v, queue'[v][j])

\* The batch loses its first d envelopes, at least, or is the whole queue.
Dropped(v, d) ==
    \A i \in 1..Len(inbox'[v]) :
        i + d \in 1..Len(inbox[v]) /\ inbox'[v][i] = inbox[v][i + d]

Handed(v) ==
    \/ Dropped(v, 0) \/ Dropped(v, 1)
    \/ /\ inbox'[v] = queue[v]
       /\ \A i \in 1..Len(queue'[v]) : FreshDelivery(v, queue'[v][i])

\* What is shown besides is the message at the head of the batch.
Shows(v) ==
    /\ \A k \in 1..Len(shown[v]) : k \in 1..Len(shown'[v])
                                   /\ shown'[v][k] = shown[v][k]
    /\ \A k \in 1..Len(shown'[v]) :
         \/ k \in 1..Len(shown[v])
         \/ /\ k = Len(shown[v]) + 1 /\ Len(inbox[v]) > 0 /\ Dropped(v, 1)
            /\ IsMessage(inbox[v][1])
            /\ shown'[v][k].from = inbox[v][1].from
            /\ shown'[v][k].ts = inbox[v][1].ts

\* A tracked message is new, as it was, or marked by the receipt at the head.
Marks(u) ==
    \A i \in 1..Len(sent'[u]) :
        \/ sent'[u][i].status = "Sent"
        \/ i \in 1..Len(sent[u]) /\ sent'[u][i] = sent[u][i]
        \/ /\ Len(inbox[u]) > 0 /\ Dropped(u, 1) /\ inbox[u][1].type = "Receipt"
           /\ sent'[u][i].to = inbox[u][1].from
           /\ sent'[u][i].ts = inbox[u][1].about
           /\ sent'[u][i].status = "Read" => inbox[u][1].receipt # "Delivery"

MailStep ==
    /\ \A w \in Users : now[w] =< now'[w]
    /\ \A w \in Users : \A e \in out'[w] : e \in out[w] \/ e.ts > now[w]
    /\ \A v \in Users : Arrived(v) /\ Handed(v) /\ Shows(v) /\ Marks(v)

\* The fields of envelopes, shown and tracked messages.
EnvelopeParts(e) ==
    e \in Envelopes /\ e.from \in Users /\ e.to \in Users /\ e.ts \in Nat /\ e.about \in Nat

ShownParts(m) == m \in [from : Users, ts : Nat] /\ m.from \in Users /\ m.ts \in Nat

SentParts(m) == m.to \in Users /\ m.ts \in Nat /\ m.status \in Statuses

LEMMA PartsOf ==
    /\ \A s \in Seq(Envelopes) :
         Len(s) \in Nat /\ \A i \in 1..Len(s) : EnvelopeParts(s[i])
    /\ \A s \in Seq([from : Users, ts : Nat]) :
         Len(s) \in Nat /\ \A i \in 1..Len(s) : ShownParts(s[i])
    /\ \A s \in Seq([to : Users, ts : Nat, status : Statuses]) :
         Len(s) \in Nat /\ \A i \in 1..Len(s) : SentParts(s[i])
<1>1. ASSUME NEW s \in Seq(Envelopes)
      PROVE  Len(s) \in Nat /\ \A i \in 1..Len(s) : EnvelopeParts(s[i])
  <2>1. Len(s) \in Nat /\ \A i \in 1..Len(s) : s[i] \in Envelopes
      BY ElementOfSeq, LenProperties
  <2> QED
      BY <2>1 DEF EnvelopeParts, Envelopes
<1>2. ASSUME NEW s \in Seq([from : Users, ts : Nat])
      PROVE  Len(s) \in Nat /\ \A i \in 1..Len(s) : ShownParts(s[i])
  <2>1. PICK R : R = [from : Users, ts : Nat]
      OBVIOUS
  <2>2. s \in Seq(R)
      BY <2>1
  <2>3. Len(s) \in Nat /\ \A i \in 1..Len(s) : s[i] \in R
      BY <2>2, ElementOfSeq, LenProperties
  <2> QED
      BY <2>1, <2>3 DEF ShownParts
<1>3. ASSUME NEW s \in Seq([to : Users, ts : Nat, status : Statuses])
      PROVE  Len(s) \in Nat /\ \A i \in 1..Len(s) : SentParts(s[i])
  <2>1. PICK R : R = [to : Users, ts : Nat, status : Statuses]
      OBVIOUS
  <2>2. s \in Seq(R)
      BY <2>1
  <2>3. Len(s) \in Nat /\ \A i \in 1..Len(s) : s[i] \in R
      BY <2>2, ElementOfSeq, LenProperties
  <2> QED
      BY <2>1, <2>3 DEF SentParts
<1> QED
    BY <1>1, <1>2, <1>3, Zenon

LEMMA Parts ==
    ASSUME TypeOK, NEW v \in Users
    PROVE  /\ Len(queue[v]) \in Nat /\ Len(inbox[v]) \in Nat
           /\ Len(shown[v]) \in Nat /\ Len(sent[v]) \in Nat /\ now[v] \in Nat
           /\ \A i \in 1..Len(queue[v]) : EnvelopeParts(queue[v][i])
           /\ \A i \in 1..Len(inbox[v]) : EnvelopeParts(inbox[v][i])
           /\ \A i \in 1..Len(shown[v]) : ShownParts(shown[v][i])
           /\ \A i \in 1..Len(sent[v]) : SentParts(sent[v][i])
           /\ \A e \in out[v] : EnvelopeParts(e)
<1>1. queue[v] \in Seq(Envelopes) /\ inbox[v] \in Seq(Envelopes)
    BY DEF TypeOK
<1>2. shown[v] \in Seq([from : Users, ts : Nat])
    BY DEF TypeOK
<1>3. sent[v] \in Seq([to : Users, ts : Nat, status : Statuses])
    BY DEF TypeOK
<1>4. now[v] \in Nat
  <2>1. MaxSends \in Nat /\ now[v] \in 0..MaxSends
      BY MessagingAssumption DEF TypeOK
  <2> QED
      BY <2>1
<1>5. \A e \in out[v] : EnvelopeParts(e)
  <2>1. out[v] \subseteq Envelopes
      BY DEF TypeOK
  <2> QED
      BY <2>1 DEF EnvelopeParts, Envelopes
<1> QED
    BY <1>1, <1>2, <1>3, <1>4, <1>5, PartsOf

LEMMA PartsNext ==
    ASSUME TypeOK', NEW v \in Users
    PROVE  /\ Len(queue'[v]) \in Nat /\ Len(inbox'[v]) \in Nat
           /\ Len(shown'[v]) \in Nat /\ Len(sent'[v]) \in Nat /\ now'[v] \in Nat
           /\ \A i \in 1..Len(queue'[v]) : EnvelopeParts(queue'[v][i])
           /\ \A i \in 1..Len(inbox'[v]) : EnvelopeParts(inbox'[v][i])
           /\ \A i \in 1..Len(shown'[v]) : ShownParts(shown'[v][i])
           /\ \A i \in 1..Len(sent'[v]) : SentParts(sent'[v][i])
           /\ \A e \in out'[v] : EnvelopeParts(e)
<1>1. queue'[v] \in Seq(Envelopes) /\ inbox'[v] \in Seq(Envelopes)
    BY DEF TypeOK
<1>2. shown'[v] \in Seq([from : Users, ts : Nat])
    BY DEF TypeOK
<1>3. sent'[v] \in Seq([to : Users, ts : Nat, status : Statuses])
    BY DEF TypeOK
<1>4. now'[v] \in Nat
  <2>1. MaxSends \in Nat /\ now'[v] \in 0..MaxSends
      BY MessagingAssumption DEF TypeOK
  <2> QED
      BY <2>1
<1>5. \A e \in out'[v] : EnvelopeParts(e)
  <2>1. out'[v] \subseteq Envelopes
      BY DEF TypeOK
  <2> QED
      BY <2>1 DEF EnvelopeParts, Envelopes
<1> QED
    BY <1>1, <1>2, <1>3, <1>4, <1>5, PartsOf

\* What has passed the relay stays so.
LEMMA PassedKept ==
    ASSUME MailInv, WellFormed', MailStep, NEW u \in Users, NEW v \in Users,
           NEW t \in Nat, Passed(u, v, t)
    PROVE  PassedNext(u, v, t)
<1>1. now[u] \in Nat /\ now'[u] \in Nat
    BY Parts, PartsNext DEF MailInv, WellFormed
<1>2. t =< now[u] /\ now[u] =< now'[u]
    BY DEF Passed, MailStep
<1>3. ASSUME NEW i \in 1..Len(queue'[v]), IsMessage(queue'[v][i]),
             queue'[v][i].from = u
      PROVE  t < queue'[v][i].ts
  <2>1. PICK n \in 0..Len(queue[v]) :
          /\ i =< n => queue'[v][i] = queue[v][i]
          /\ i > n => \/ FreshMessage(v, queue'[v][i])
                      \/ FreshDelivery(v, queue'[v][i])
                      \/ FreshRead(v, queue'[v][i])
      BY DEF MailStep, Arrived
  <2>2. Len(queue[v]) \in Nat /\ Len(queue'[v]) \in Nat
      BY Parts, PartsNext DEF MailInv, WellFormed
  <2>3. CASE i =< n
    <3>1. i \in 1..Len(queue[v]) /\ queue'[v][i] = queue[v][i]
        BY <2>1, <2>2, <2>3
    <3> QED
        BY <1>3, <3>1 DEF Passed
  <2>4. CASE i > n
    <3>1. queue'[v][i].type # "Receipt"
        BY <1>3 DEF IsMessage, MessageTypes
    <3>2. FreshMessage(v, queue'[v][i])
        BY <2>1, <2>4, <3>1 DEF FreshDelivery, FreshRead, IsReceipt
    <3> QED
        BY <1>3, <3>2 DEF FreshMessage
  <2> QED
      BY <2>2, <2>3, <2>4
<1>4. ASSUME NEW e \in out'[u], e.to = v
      PROVE  t < e.ts
  <2>1. e.ts \in Nat
      BY PartsNext DEF WellFormed, EnvelopeParts
  <2>2. e \in out[u] \/ e.ts > now[u]
      BY DEF MailStep
  <2>3. CASE e \in out[u]
      BY <1>4, <2>3 DEF Passed
  <2>4. CASE e.ts > now[u]
      BY <1>1, <1>2, <2>1, <2>4
  <2> QED
      BY <2>2, <2>3, <2>4
<1>5. t =< now'[u]
    BY <1>1, <1>2
<1> QED
    BY <1>3, <1>4, <1>5 DEF PassedNext

\* So does what was shown.
LEMMA ShownKept ==
    ASSUME MailStep, NEW u \in Users, NEW v \in Users, NEW t, TypeOK, ShownBy(v, u, t)
    PROVE  ShownNext(v, u, t)
<1>1. PICK k \in DOMAIN shown[v] : shown[v][k] = [from |-> u, ts |-> t]
    BY DEF ShownBy, Elements
<1>2. shown[v] \in Seq([from : Users, ts : Nat])
    BY DEF TypeOK
<1>3. k \in 1..Len(shown[v])
    BY <1>2, LenProperties
<1>4. k \in 1..Len(shown'[v]) /\ shown'[v][k] = shown[v][k]
    BY <1>3 DEF MailStep, Shows
<1> QED
    BY <1>1, <1>4 DEF ShownNext

\* ShownNext, as a record of the sequence.
LEMMA ShownIs ==
    ASSUME WellFormed', NEW v \in Users, NEW u \in Users, NEW t, ShownNext(v, u, t)
    PROVE  [from |-> u, ts |-> t] \in Elements(shown'[v])
<1>1. PICK k \in 1..Len(shown'[v]) : shown'[v][k].from = u /\ shown'[v][k].ts = t
    BY DEF ShownNext
<1>2. shown'[v][k] \in [from : Users, ts : Nat]
    BY PartsNext DEF WellFormed, ShownParts
<1>3. shown'[v][k] = [from |-> u, ts |-> t]
    BY <1>1, <1>2
<1>4. k \in DOMAIN shown'[v]
  <2>1. shown'[v] \in Seq([from : Users, ts : Nat])
      BY DEF WellFormed, TypeOK
  <2> QED
      BY <2>1, LenProperties
<1> QED
    BY <1>3, <1>4 DEF Elements

\* A receipt that waits is true after the step.
TruthfulNext(u, env) ==
    env.type = "Receipt" =>
        /\ PassedNext(u, env.from, env.about)
        /\ \/ env.receipt = "Delivery"
           \/ env.receipt = "Read" /\ ShownNext(env.from, u, env.about)

LEMMA TruthKept ==
    ASSUME MailInv, WellFormed', MailStep, NEW u \in Users, NEW env,
           EnvelopeParts(env), Truthful(u, env)
    PROVE  TruthfulNext(u, env)
<1>1. SUFFICES ASSUME env.type = "Receipt"
               PROVE  TruthfulNext(u, env)
    BY DEF TruthfulNext
<1>2. /\ Passed(u, env.from, env.about)
      /\ \/ env.receipt = "Delivery"
         \/ env.receipt = "Read" /\ ShownBy(env.from, u, env.about)
    BY <1>1 DEF Truthful
<1>3. env.from \in Users /\ env.about \in Nat
    BY DEF EnvelopeParts
<1>4. PassedNext(u, env.from, env.about)
    BY <1>2, <1>3, PassedKept
<1>5. ShownBy(env.from, u, env.about) => ShownNext(env.from, u, env.about)
    BY <1>3, ShownKept DEF MailInv, WellFormed
<1> QED
    BY <1>2, <1>4, <1>5 DEF TruthfulNext

LEMMA StampedStep ==
    ASSUME MailInv, WellFormed', MailStep
    PROVE  Stamped'
<1>1. ASSUME NEW v \in Users, NEW i \in 1..Len(queue'[v]), IsMessage(queue'[v][i])
      PROVE  /\ queue'[v][i].ts =< now'[queue'[v][i].from]
             /\ \A env \in out'[queue'[v][i].from] :
                  env.to = v => queue'[v][i].ts < env.ts
  <2>1. PICK n \in 0..Len(queue[v]) :
          /\ i =< n => queue'[v][i] = queue[v][i]
          /\ i > n => \/ FreshMessage(v, queue'[v][i])
                      \/ FreshDelivery(v, queue'[v][i])
                      \/ FreshRead(v, queue'[v][i])
      BY DEF MailStep, Arrived
  <2>2. Len(queue[v]) \in Nat /\ Len(queue'[v]) \in Nat
      BY Parts, PartsNext DEF MailInv, WellFormed
  <2>3. CASE i =< n
    <3>1. i \in 1..Len(queue[v]) /\ queue'[v][i] = queue[v][i]
        BY <2>1, <2>2, <2>3
    <3>2. PICK m : m = queue[v][i]
        OBVIOUS
    <3>3. m.from \in Users /\ m.ts \in Nat
        BY <3>1, <3>2, Parts DEF MailInv, WellFormed, EnvelopeParts
    <3>4. /\ m.ts =< now[m.from]
          /\ \A env \in out[m.from] : env.to = v => m.ts < env.ts
        BY <1>1, <3>1, <3>2 DEF MailInv, Stamped
    <3>5. now[m.from] \in Nat /\ now'[m.from] \in Nat /\ now[m.from] =< now'[m.from]
        BY <3>3, Parts, PartsNext DEF MailInv, WellFormed, MailStep
    <3>6. ASSUME NEW e \in out'[m.from], e.to = v PROVE m.ts < e.ts
      <4>1. e.ts \in Nat
          BY <3>3, PartsNext DEF WellFormed, EnvelopeParts
      <4>2. e \in out[m.from] \/ e.ts > now[m.from]
          BY <3>3 DEF MailStep
      <4> QED
          BY <3>3, <3>4, <3>5, <3>6, <4>1, <4>2
    <3>7. m.ts =< now'[m.from]
        BY <3>3, <3>4, <3>5
    <3> QED
        BY <3>1, <3>2, <3>6, <3>7
  <2>4. CASE i > n
    <3>1. queue'[v][i].type # "Receipt"
        BY <1>1 DEF IsMessage, MessageTypes
    <3>2. FreshMessage(v, queue'[v][i])
        BY <2>1, <2>4, <3>1 DEF FreshDelivery, FreshRead, IsReceipt
    <3> QED
        BY <3>2 DEF FreshMessage
  <2> QED
      BY <2>2, <2>3, <2>4
<1> QED
    BY <1>1 DEF Stamped, IsMessage

\* Where an envelope of the batch comes from.
LEMMA BatchFrom ==
    ASSUME MailStep, NEW v \in Users, NEW i \in 1..Len(inbox'[v])
    PROVE  \/ \E j \in 1..Len(inbox[v]) : inbox'[v][i] = inbox[v][j]
           \/ /\ i \in 1..Len(queue[v]) /\ inbox'[v][i] = queue[v][i]
              /\ inbox'[v] = queue[v]
              /\ \A k \in 1..Len(queue'[v]) : FreshDelivery(v, queue'[v][k])
<1>1. Handed(v)
    BY DEF MailStep
<1>2. CASE Dropped(v, 0)
    BY <1>2, Zenon DEF Dropped
<1>3. CASE Dropped(v, 1)
    BY <1>3, Zenon DEF Dropped
<1>4. CASE /\ inbox'[v] = queue[v]
           /\ \A k \in 1..Len(queue'[v]) : FreshDelivery(v, queue'[v][k])
    BY <1>4
<1> QED
    BY <1>1, <1>2, <1>3, <1>4 DEF Handed

\* Where an envelope of the queue comes from.
LEMMA QueueFrom ==
    ASSUME MailInv, WellFormed', MailStep, NEW v \in Users, NEW i \in 1..Len(queue'[v])
    PROVE  \/ i \in 1..Len(queue[v]) /\ queue'[v][i] = queue[v][i]
           \/ FreshMessage(v, queue'[v][i])
           \/ FreshDelivery(v, queue'[v][i])
           \/ FreshRead(v, queue'[v][i])
<1>1. PICK n \in 0..Len(queue[v]) :
        /\ i =< n => queue'[v][i] = queue[v][i]
        /\ i > n => \/ FreshMessage(v, queue'[v][i])
                    \/ FreshDelivery(v, queue'[v][i])
                    \/ FreshRead(v, queue'[v][i])
    BY DEF MailStep, Arrived
<1>2. Len(queue[v]) \in Nat /\ Len(queue'[v]) \in Nat
    BY Parts, PartsNext DEF MailInv, WellFormed
<1>3. CASE i =< n
    BY <1>1, <1>2, <1>3
<1>4. CASE i > n
    BY <1>1, <1>4
<1> QED
    BY <1>2, <1>3, <1>4

LEMMA ReceiptsStep ==
    ASSUME MailInv, WellFormed', MailStep
    PROVE  Receipts'
<1>1. ASSUME NEW u \in Users, NEW i \in 1..Len(queue'[u])
      PROVE  TruthfulNext(u, queue'[u][i])
  <2>1. CASE i \in 1..Len(queue[u]) /\ queue'[u][i] = queue[u][i]
    <3>1. EnvelopeParts(queue[u][i]) /\ Truthful(u, queue[u][i])
        BY <2>1, Parts DEF MailInv, WellFormed, Receipts
    <3> QED
        BY <2>1, <3>1, TruthKept
  <2>2. CASE FreshMessage(u, queue'[u][i])
      BY <2>2 DEF FreshMessage, IsMessage, MessageTypes, TruthfulNext
  <2>3. CASE FreshDelivery(u, queue'[u][i])
      BY <2>3 DEF FreshDelivery, IsReceipt, TruthfulNext
  <2>4. CASE FreshRead(u, queue'[u][i])
      BY <2>4 DEF FreshRead, IsReceipt, TruthfulNext
  <2> QED
      BY <2>1, <2>2, <2>3, <2>4, QueueFrom
<1>2. ASSUME NEW u \in Users, NEW i \in 1..Len(inbox'[u])
      PROVE  TruthfulNext(u, inbox'[u][i])
  <2>1. PICK env : env = inbox'[u][i]
      OBVIOUS
  <2>2. EnvelopeParts(env) /\ Truthful(u, env)
    <3>1. CASE \E j \in 1..Len(inbox[u]) : inbox'[u][i] = inbox[u][j]
        BY <2>1, <3>1, Parts DEF MailInv, WellFormed, Receipts
    <3>2. CASE i \in 1..Len(queue[u]) /\ inbox'[u][i] = queue[u][i]
        BY <2>1, <3>2, Parts DEF MailInv, WellFormed, Receipts
    <3> QED
        BY <3>1, <3>2, BatchFrom
  <2> QED
      BY <2>1, <2>2, TruthKept
<1>3. ASSUME NEW v \in Users, NEW u \in Users, NEW t, ShownNext(v, u, t)
      PROVE  [from |-> u, ts |-> t] \in Elements(shown'[v])
    BY <1>3, ShownIs
<1>4. ASSUME NEW u \in Users, NEW env, EnvelopeParts(env), TruthfulNext(u, env),
             env.type = "Receipt"
      PROVE  /\ PassedNext(u, env.from, env.about)
             /\ \/ env.receipt = "Delivery"
                \/ /\ env.receipt = "Read"
                   /\ [from |-> u, ts |-> env.about] \in Elements(shown'[env.from])
  <2>1. env.from \in Users
      BY <1>4 DEF EnvelopeParts
  <2> QED
      BY <1>3, <1>4, <2>1 DEF TruthfulNext
<1>5. ASSUME NEW u \in Users, NEW i \in 1..Len(queue'[u])
      PROVE  Truthful(u, queue[u][i])'
  <2>1. EnvelopeParts(queue'[u][i])
      BY PartsNext DEF WellFormed
  <2> QED
      BY <1>1, <1>4, <2>1 DEF Truthful, Passed, PassedNext, ShownBy, IsMessage
<1>6. ASSUME NEW u \in Users, NEW i \in 1..Len(inbox'[u])
      PROVE  Truthful(u, inbox[u][i])'
  <2>1. EnvelopeParts(inbox'[u][i])
      BY PartsNext DEF WellFormed
  <2> QED
      BY <1>2, <1>4, <2>1 DEF Truthful, Passed, PassedNext, ShownBy, IsMessage
<1> QED
    BY <1>5, <1>6 DEF Receipts

\* A delivery receipt that arrives is about no message with a read receipt.
LEMMA NotYetRead ==
    ASSUME MailInv, NEW v \in Users, NEW a, NEW b, Truthful(v, a),
           FreshDelivery(v, b)
    PROVE  ~ReadAndDelivered(a, b)
<1>1. SUFFICES ASSUME ReadAndDelivered(a, b) PROVE FALSE
    OBVIOUS
<1>2. Passed(v, a.from, a.about) /\ a.from = b.from /\ a.about = b.about
    BY <1>1 DEF Truthful, ReadAndDelivered, IsReceipt
<1> QED
    BY <1>2 DEF FreshDelivery

LEMMA OrderedStep ==
    ASSUME MailInv, WellFormed', MailStep
    PROVE  Ordered'
<1>1. ASSUME NEW v \in Users
      PROVE  InOrder(queue'[v])
  <2>1. SUFFICES ASSUME NEW i \in 1..Len(queue'[v]), NEW j \in 1..Len(queue'[v]),
                        i < j
                 PROVE  /\ SameSender(queue'[v][i], queue'[v][j])
                                => queue'[v][i].ts < queue'[v][j].ts
                        /\ ~ReadAndDelivered(queue'[v][i], queue'[v][j])
      BY DEF InOrder
  <2>2. PICK n \in 0..Len(queue[v]) : \A k \in 1..Len(queue'[v]) :
          /\ k =< n => queue'[v][k] = queue[v][k]
          /\ k > n => /\ \/ FreshMessage(v, queue'[v][k])
                         \/ FreshDelivery(v, queue'[v][k])
                         \/ FreshRead(v, queue'[v][k])
                      /\ \A l \in 1..Len(queue'[v]) :
                           l > n /\ l # k => /\ FreshDelivery(v, queue'[v][k])
                                             /\ FreshDelivery(v, queue'[v][l])
      BY DEF MailStep, Arrived
  <2>3. Len(queue[v]) \in Nat /\ Len(queue'[v]) \in Nat
      BY Parts, PartsNext DEF MailInv, WellFormed
  <2>4. CASE j =< n
    <3>1. /\ i \in 1..Len(queue[v]) /\ queue'[v][i] = queue[v][i]
          /\ j \in 1..Len(queue[v]) /\ queue'[v][j] = queue[v][j]
        BY <2>1, <2>2, <2>3, <2>4
    <3>2. InOrder(queue[v])
        BY DEF MailInv, Ordered
    <3> QED
        BY <2>1, <3>1, <3>2 DEF InOrder
  <2>5. CASE i =< n /\ j > n
    <3>1. i \in 1..Len(queue[v]) /\ queue'[v][i] = queue[v][i]
        BY <2>2, <2>3, <2>5
    <3>2. \/ FreshMessage(v, queue'[v][j])
          \/ FreshDelivery(v, queue'[v][j])
          \/ FreshRead(v, queue'[v][j])
        BY <2>2, <2>5
    <3>3. Truthful(v, queue[v][i])
        BY <3>1 DEF MailInv, Receipts
    <3>4. CASE FreshMessage(v, queue'[v][j])
      <4>1. ~ReadAndDelivered(queue'[v][i], queue'[v][j])
          BY <3>4 DEF FreshMessage, IsMessage, MessageTypes, ReadAndDelivered, IsReceipt
      <4>2. SameSender(queue'[v][i], queue'[v][j])
                => queue'[v][i].ts < queue'[v][j].ts
          BY <3>1, <3>4 DEF FreshMessage, SameSender
      <4> QED
          BY <4>1, <4>2
    <3>5. CASE FreshDelivery(v, queue'[v][j])
      <4>1. ~ReadAndDelivered(queue'[v][i], queue'[v][j])
          BY <3>1, <3>3, <3>5, NotYetRead
      <4>2. ~SameSender(queue'[v][i], queue'[v][j])
          BY <3>5 DEF FreshDelivery, IsReceipt, SameSender, IsMessage, MessageTypes
      <4> QED
          BY <4>1, <4>2
    <3>6. CASE FreshRead(v, queue'[v][j])
        BY <3>6 DEF FreshRead, IsReceipt, SameSender, IsMessage, MessageTypes,
                    ReadAndDelivered
    <3> QED
        BY <3>2, <3>4, <3>5, <3>6
  <2>6. CASE i > n
    <3>1. j > n /\ i # j
        BY <2>1, <2>3, <2>6
    <3>2. FreshDelivery(v, queue'[v][i]) /\ FreshDelivery(v, queue'[v][j])
        BY <2>2, <2>6, <3>1
    <3> QED
        BY <3>2 DEF FreshDelivery, IsReceipt, SameSender, IsMessage, MessageTypes,
                    ReadAndDelivered
  <2> QED
      BY <2>1, <2>3, <2>4, <2>5, <2>6
<1>2. ASSUME NEW v \in Users
      PROVE  InOrder(inbox'[v])
  <2>1. Len(inbox[v]) \in Nat /\ Len(inbox'[v]) \in Nat
      BY Parts, PartsNext DEF MailInv, WellFormed
  <2>2. InOrder(queue[v]) /\ InOrder(inbox[v])
      BY DEF MailInv, Ordered
  <2>3. ASSUME NEW d \in {0, 1}, Dropped(v, d)
        PROVE  InOrder(inbox'[v])
    <3>1. SUFFICES ASSUME NEW i \in 1..Len(inbox'[v]), NEW j \in 1..Len(inbox'[v]),
                          i < j
                   PROVE  /\ SameSender(inbox'[v][i], inbox'[v][j])
                                  => inbox'[v][i].ts < inbox'[v][j].ts
                          /\ ~ReadAndDelivered(inbox'[v][i], inbox'[v][j])
        BY DEF InOrder
    <3>2. /\ i + d \in 1..Len(inbox[v]) /\ inbox'[v][i] = inbox[v][i + d]
          /\ j + d \in 1..Len(inbox[v]) /\ inbox'[v][j] = inbox[v][j + d]
        BY <2>3 DEF Dropped
    <3>3. i + d < j + d
        BY <2>1, <2>3, <3>1
    <3> QED
        BY <2>2, <3>2, <3>3 DEF InOrder
  <2>4. CASE inbox'[v] = queue[v]
      BY <2>2, <2>4
  <2>5. Handed(v)
      BY DEF MailStep
  <2> QED
      BY <2>3, <2>4, <2>5 DEF Handed
<1>3. ASSUME NEW v \in Users, NEW i \in 1..Len(inbox'[v]), NEW j \in 1..Len(queue'[v])
      PROVE  ~ReadAndDelivered(inbox'[v][i], queue'[v][j])
  <2>1. CASE FreshDelivery(v, queue'[v][j])
    <3>1. Truthful(v, inbox'[v][i])
      <4>1. PICK env : env = inbox'[v][i]
          OBVIOUS
      <4>2. Truthful(v, env)
          BY <4>1, BatchFrom DEF MailInv, Receipts
      <4> QED
          BY <4>1, <4>2
    <3> QED
        BY <2>1, <3>1, NotYetRead
  <2>2. CASE FreshMessage(v, queue'[v][j]) \/ FreshRead(v, queue'[v][j])
      BY <2>2 DEF FreshMessage, FreshRead, IsReceipt, IsMessage, MessageTypes,
                  ReadAndDelivered
  <2>3. CASE /\ ~FreshDelivery(v, queue'[v][j]) /\ j \in 1..Len(queue[v])
             /\ queue'[v][j] = queue[v][j]
    <3>1. PICK k \in 1..Len(inbox[v]) : inbox'[v][i] = inbox[v][k]
        BY <2>3, BatchFrom
    <3> QED
        BY <2>3, <3>1 DEF MailInv, Ordered
  <2> QED
      BY <2>1, <2>2, <2>3, QueueFrom
<1> QED
    BY <1>1, <1>2, <1>3 DEF Ordered, InOrder, ReadAndDelivered, SameSender, IsReceipt,
                            IsMessage

LEMMA FetchedStep ==
    ASSUME MailInv, WellFormed', MailStep
    PROVE  Fetched'
<1>1. ASSUME NEW v \in Users, NEW i \in 1..Len(inbox'[v]), NEW m, m = inbox'[v][i],
             IsMessage(m)
      PROVE  /\ PassedNext(m.from, v, m.ts)
             /\ \A k \in 1..Len(shown'[v]) :
                  shown'[v][k].from = m.from => shown'[v][k].ts < m.ts
  <2>0. /\ Len(inbox[v]) \in Nat /\ Len(inbox'[v]) \in Nat /\ EnvelopeParts(m)
      BY <1>1, Parts, PartsNext DEF MailInv, WellFormed
  <2>1. m.from \in Users /\ m.ts \in Nat
      BY <2>0 DEF EnvelopeParts
  <2>2. CASE \E j \in 1..Len(inbox[v]) : m = inbox[v][j]
    <3>1. /\ Passed(m.from, v, m.ts)
          /\ \A k \in 1..Len(shown[v]) :
               shown[v][k].from = m.from => shown[v][k].ts < m.ts
        BY <1>1, <2>2 DEF MailInv, Fetched
    <3>2. PassedNext(m.from, v, m.ts)
        BY <2>1, <3>1, PassedKept
    <3>3. ASSUME NEW k \in 1..Len(shown'[v]), shown'[v][k].from = m.from
          PROVE  shown'[v][k].ts < m.ts
      <4>1. CASE k \in 1..Len(shown[v])
        <5>1. shown'[v][k] = shown[v][k]
            BY <4>1 DEF MailStep, Shows
        <5> QED
            BY <3>1, <3>3, <4>1, <5>1
      <4>2. CASE k \notin 1..Len(shown[v])
        <5>1. /\ Len(inbox[v]) > 0 /\ Dropped(v, 1) /\ IsMessage(inbox[v][1])
              /\ shown'[v][k].from = inbox[v][1].from
              /\ shown'[v][k].ts = inbox[v][1].ts
            BY <4>2 DEF MailStep, Shows
        <5>2. i + 1 \in 1..Len(inbox[v]) /\ m = inbox[v][i + 1]
            BY <1>1, <5>1 DEF Dropped
        <5>3. 1 \in 1..Len(inbox[v]) /\ 1 < i + 1
            BY <2>0, <5>1
        <5>4. SameSender(inbox[v][1], inbox[v][i + 1])
            BY <1>1, <3>3, <5>1, <5>2 DEF SameSender
        <5>5. inbox[v][1].ts < inbox[v][i + 1].ts
            BY <5>2, <5>3, <5>4 DEF MailInv, Ordered, InOrder
        <5> QED
            BY <5>1, <5>2, <5>5
      <4> QED
          BY <4>1, <4>2
    <3> QED
        BY <3>2, <3>3
  <2>3. CASE /\ i \in 1..Len(queue[v]) /\ m = queue[v][i] /\ inbox'[v] = queue[v]
             /\ \A k \in 1..Len(queue'[v]) : FreshDelivery(v, queue'[v][k])
    <3>1. \A k \in 1..Len(queue'[v]) : ~IsMessage(queue'[v][k])
        BY <2>3 DEF FreshDelivery, IsReceipt, IsMessage, MessageTypes
    <3>2. /\ m.ts =< now[m.from]
          /\ \A env \in out[m.from] : env.to = v => m.ts < env.ts
        BY <1>1, <2>3 DEF MailInv, Stamped
    <3>3. /\ now[m.from] \in Nat /\ now'[m.from] \in Nat
          /\ now[m.from] =< now'[m.from]
        BY <2>1, Parts, PartsNext DEF MailInv, WellFormed, MailStep
    <3>4. ASSUME NEW e \in out'[m.from], e.to = v PROVE m.ts < e.ts
      <4>1. e.ts \in Nat
          BY <2>1, PartsNext DEF WellFormed, EnvelopeParts
      <4>2. e \in out[m.from] \/ e.ts > now[m.from]
          BY <2>1 DEF MailStep
      <4> QED
          BY <2>1, <3>2, <3>3, <3>4, <4>1, <4>2
    <3>5. m.ts =< now'[m.from]
        BY <2>1, <3>2, <3>3
    <3>6. PassedNext(m.from, v, m.ts)
        BY <3>1, <3>4, <3>5 DEF PassedNext
    <3>7. ASSUME NEW k \in 1..Len(shown'[v]), shown'[v][k].from = m.from
          PROVE  shown'[v][k].ts < m.ts
      <4>1. PICK x : x = shown'[v][k].ts
          OBVIOUS
      <4>2. Passed(m.from, v, x)
        <5>1. CASE k \in 1..Len(shown[v])
          <6>1. shown'[v][k] = shown[v][k]
              BY <5>1 DEF MailStep, Shows
          <6> QED
              BY <3>7, <4>1, <5>1, <6>1 DEF MailInv, Displayed
        <5>2. CASE k \notin 1..Len(shown[v])
          <6>1. /\ Len(inbox[v]) > 0 /\ IsMessage(inbox[v][1])
                /\ shown'[v][k].from = inbox[v][1].from
                /\ shown'[v][k].ts = inbox[v][1].ts
              BY <5>2 DEF MailStep, Shows
          <6>2. 1 \in 1..Len(inbox[v])
              BY <2>0, <6>1
          <6> QED
              BY <3>7, <4>1, <6>1, <6>2 DEF MailInv, Fetched
        <5> QED
            BY <5>1, <5>2
      <4> QED
          BY <1>1, <2>3, <4>1, <4>2 DEF Passed
    <3> QED
        BY <3>6, <3>7
  <2> QED
      BY <1>1, <2>2, <2>3, BatchFrom
<1> QED
    BY <1>1 DEF Fetched, Passed, PassedNext, IsMessage

LEMMA DisplayedStep ==
    ASSUME MailInv, WellFormed', MailStep
    PROVE  Displayed' /\ ShownInOrder'
<1>1. ASSUME NEW v \in Users, NEW k \in 1..Len(shown'[v]), k \notin 1..Len(shown[v])
      PROVE  /\ k = Len(shown[v]) + 1 /\ 1 \in 1..Len(inbox[v])
             /\ IsMessage(inbox[v][1])
             /\ shown'[v][k].from = inbox[v][1].from
             /\ shown'[v][k].ts = inbox[v][1].ts
  <2>1. Len(inbox[v]) \in Nat
      BY Parts DEF MailInv, WellFormed
  <2> QED
      BY <1>1, <2>1 DEF MailStep, Shows
<1>2. ASSUME NEW v \in Users, NEW k \in 1..Len(shown[v])
      PROVE  shown'[v][k] = shown[v][k]
    BY DEF MailStep, Shows
<1>3. ASSUME NEW v \in Users, NEW k \in 1..Len(shown'[v])
      PROVE  PassedNext(shown'[v][k].from, v, shown'[v][k].ts)
  <2>1. PICK m : m = shown'[v][k]
      OBVIOUS
  <2>2. m.from \in Users /\ m.ts \in Nat
      BY <2>1, PartsNext DEF WellFormed, ShownParts
  <2>3. Passed(m.from, v, m.ts)
    <3>1. CASE k \in 1..Len(shown[v])
        BY <1>2, <2>1, <3>1 DEF MailInv, Displayed
    <3>2. CASE k \notin 1..Len(shown[v])
        BY <1>1, <2>1, <3>2 DEF MailInv, Fetched
    <3> QED
        BY <3>1, <3>2
  <2> QED
      BY <2>1, <2>2, <2>3, PassedKept
<1>4. Displayed'
    BY <1>3 DEF Displayed, Passed, PassedNext, IsMessage
<1>5. ASSUME NEW v \in Users, NEW i \in DOMAIN shown'[v], NEW j \in DOMAIN shown'[v],
             i < j, shown'[v][i].from = shown'[v][j].from
      PROVE  shown'[v][i].ts < shown'[v][j].ts
  <2>1. /\ DOMAIN shown'[v] = 1..Len(shown'[v]) /\ Len(shown'[v]) \in Nat
        /\ DOMAIN shown[v] = 1..Len(shown[v]) /\ Len(shown[v]) \in Nat
    <3>1. /\ shown'[v] \in Seq([from : Users, ts : Nat])
          /\ shown[v] \in Seq([from : Users, ts : Nat])
        BY DEF MailInv, WellFormed, TypeOK
    <3> QED
        BY <3>1, LenProperties
  <2>2. i \in 1..Len(shown'[v]) /\ j \in 1..Len(shown'[v])
      BY <2>1
  <2>3. CASE j \in 1..Len(shown[v])
    <3>1. i \in 1..Len(shown[v])
        BY <1>5, <2>1, <2>2, <2>3
    <3>2. shown'[v][i] = shown[v][i] /\ shown'[v][j] = shown[v][j]
        BY <1>2, <2>3, <3>1
    <3> QED
        BY <1>5, <2>1, <2>3, <3>1, <3>2 DEF MailInv, ShownInOrder
  <2>4. CASE j \notin 1..Len(shown[v])
    <3>1. /\ j = Len(shown[v]) + 1 /\ 1 \in 1..Len(inbox[v])
          /\ IsMessage(inbox[v][1])
          /\ shown'[v][j].from = inbox[v][1].from
          /\ shown'[v][j].ts = inbox[v][1].ts
        BY <1>1, <2>2, <2>4
    <3>2. i \in 1..Len(shown[v])
        BY <1>5, <2>1, <2>2, <3>1
    <3>3. shown'[v][i] = shown[v][i]
        BY <1>2, <3>2
    <3> QED
        BY <1>5, <3>1, <3>2, <3>3 DEF MailInv, Fetched
  <2> QED
      BY <2>3, <2>4
<1>6. ShownInOrder'
    BY <1>5 DEF ShownInOrder
<1> QED
    BY <1>4, <1>6

LEMMA TrackedStep ==
    ASSUME MailInv, WellFormed', MailStep, Receipts'
    PROVE  Tracked'
<1>1. ASSUME NEW u \in Users, NEW v \in Users, NEW t \in Nat, Passed(u, v, t),
             NoneWaits(u, v, t)
      PROVE  NoneWaits(u, v, t)'
  <2>1. ASSUME NEW i \in 1..Len(queue'[u])
        PROVE  ~(/\ IsReceipt(queue'[u][i], "Delivery")
                 /\ queue'[u][i].from = v /\ queue'[u][i].about = t)
    <3>1. CASE i \in 1..Len(queue[u]) /\ queue'[u][i] = queue[u][i]
        BY <1>1, <3>1 DEF NoneWaits
    <3>2. CASE FreshDelivery(u, queue'[u][i])
        BY <1>1, <3>2 DEF FreshDelivery
    <3>3. CASE FreshMessage(u, queue'[u][i]) \/ FreshRead(u, queue'[u][i])
        BY <3>3 DEF FreshMessage, FreshRead, IsReceipt, IsMessage, MessageTypes
    <3> QED
        BY <3>1, <3>2, <3>3, QueueFrom
  <2>2. ASSUME NEW i \in 1..Len(inbox'[u])
        PROVE  ~(/\ IsReceipt(inbox'[u][i], "Delivery")
                 /\ inbox'[u][i].from = v /\ inbox'[u][i].about = t)
      BY <1>1, BatchFrom DEF NoneWaits
  <2> QED
      BY <2>1, <2>2 DEF NoneWaits, IsReceipt
<1>2. ASSUME NEW u \in Users, NEW i \in 1..Len(sent'[u]), NEW m, m = sent'[u][i]
      PROVE  /\ m.status # "Sent" => PassedNext(u, m.to, m.ts)
             /\ m.status = "Read" => /\ ShownNext(m.to, u, m.ts)
                                     /\ NoneWaits(u, m.to, m.ts)'
  <2>1. m.to \in Users /\ m.ts \in Nat
      BY <1>2, PartsNext DEF WellFormed, SentParts
  <2>2. CASE m.status = "Sent"
      BY <2>2
  <2>3. CASE i \in 1..Len(sent[u]) /\ m = sent[u][i]
    <3>1. StatusTrue(u, m)
        BY <2>3 DEF MailInv, Tracked
    <3>2. m.status # "Sent" => PassedNext(u, m.to, m.ts)
        BY <2>1, <3>1, PassedKept DEF StatusTrue
    <3>3. m.status = "Read" => ShownNext(m.to, u, m.ts)
        BY <2>1, <3>1, ShownKept DEF StatusTrue, MailInv, WellFormed
    <3>4. m.status = "Read" => NoneWaits(u, m.to, m.ts)'
        BY <1>1, <2>1, <3>1 DEF StatusTrue
    <3> QED
        BY <3>2, <3>3, <3>4
  <2>4. CASE /\ Len(inbox[u]) > 0 /\ Dropped(u, 1) /\ inbox[u][1].type = "Receipt"
             /\ m.to = inbox[u][1].from /\ m.ts = inbox[u][1].about
             /\ m.status = "Read" => inbox[u][1].receipt # "Delivery"
    <3>1. Len(inbox[u]) \in Nat /\ 1 \in 1..Len(inbox[u])
        BY <2>4, Parts DEF MailInv, WellFormed
    <3>2. Truthful(u, inbox[u][1])
        BY <3>1 DEF MailInv, Receipts
    <3>3. /\ Passed(u, m.to, m.ts)
          /\ m.status = "Read" => /\ inbox[u][1].receipt = "Read"
                                  /\ ShownBy(m.to, u, m.ts)
        BY <2>4, <3>2 DEF Truthful
    <3>4. PassedNext(u, m.to, m.ts)
        BY <2>1, <3>3, PassedKept
    <3>5. m.status = "Read" => ShownNext(m.to, u, m.ts)
        BY <2>1, <3>3, ShownKept DEF MailInv, WellFormed
    <3>6. ASSUME m.status = "Read"
          PROVE  NoneWaits(u, m.to, m.ts)'
      <4>1. IsReceipt(inbox[u][1], "Read")
          BY <2>4, <3>3, <3>6 DEF IsReceipt
      <4>2. ASSUME NEW k \in 1..Len(queue'[u])
            PROVE  ~(/\ IsReceipt(queue'[u][k], "Delivery")
                     /\ queue'[u][k].from = m.to /\ queue'[u][k].about = m.ts)
        <5>1. CASE k \in 1..Len(queue[u]) /\ queue'[u][k] = queue[u][k]
          <6>1. ~ReadAndDelivered(inbox[u][1], queue[u][k])
              BY <3>1, <5>1 DEF MailInv, Ordered
          <6> QED
              BY <2>4, <4>1, <5>1, <6>1 DEF ReadAndDelivered
        <5>2. CASE FreshDelivery(u, queue'[u][k])
            BY <3>3, <5>2 DEF FreshDelivery
        <5>3. CASE FreshMessage(u, queue'[u][k]) \/ FreshRead(u, queue'[u][k])
            BY <5>3 DEF FreshMessage, FreshRead, IsReceipt, IsMessage, MessageTypes
        <5> QED
            BY <5>1, <5>2, <5>3, QueueFrom
      <4>3. ASSUME NEW k \in 1..Len(inbox'[u])
            PROVE  ~(/\ IsReceipt(inbox'[u][k], "Delivery")
                     /\ inbox'[u][k].from = m.to /\ inbox'[u][k].about = m.ts)
        <5>1. k + 1 \in 1..Len(inbox[u]) /\ inbox'[u][k] = inbox[u][k + 1]
            BY <2>4 DEF Dropped
        <5>2. 1 < k + 1
            BY <3>1, <5>1
        <5>3. ~ReadAndDelivered(inbox[u][1], inbox[u][k + 1])
            BY <3>1, <5>1, <5>2 DEF MailInv, Ordered, InOrder
        <5> QED
            BY <2>4, <4>1, <5>1, <5>3 DEF ReadAndDelivered
      <4> QED
          BY <4>2, <4>3 DEF NoneWaits, IsReceipt
    <3> QED
        BY <3>4, <3>5, <3>6
  <2> QED
      BY <1>2, <2>2, <2>3, <2>4 DEF MailStep, Marks
<1>3. ASSUME NEW v \in Users, NEW u \in Users, NEW t, ShownNext(v, u, t)
      PROVE  [from |-> u, ts |-> t] \in Elements(shown'[v])
    BY <1>3, ShownIs
<1>4. ASSUME NEW u \in Users, NEW i \in 1..Len(sent'[u])
      PROVE  StatusTrue(u, sent[u][i])'
  <2>1. sent'[u][i].to \in Users
      BY PartsNext DEF WellFormed, SentParts
  <2>2. sent'[u][i].status # "Sent" => Passed(u, sent[u][i].to, sent[u][i].ts)'
      BY <1>2 DEF Passed, PassedNext, IsMessage
  <2>3. sent'[u][i].status = "Read" => ShownBy(sent[u][i].to, u, sent[u][i].ts)'
      BY <1>2, <1>3, <2>1 DEF ShownBy
  <2>4. sent'[u][i].status = "Read" => NoneWaits(u, sent[u][i].to, sent[u][i].ts)'
      BY <1>2 DEF NoneWaits, IsReceipt
  <2> QED
      BY <2>2, <2>3, <2>4 DEF StatusTrue
<1> QED
    BY <1>4 DEF Tracked

LEMMA MailStepKeeps ==
    ASSUME MailInv, WellFormed', MailStep
    PROVE  MailInv'
BY StampedStep, OrderedStep, FetchedStep, DisplayedStep, ReceiptsStep, TrackedStep
   DEF MailInv

(***************************************************************************)
(* Every step is a MailStep: what the actions do to each variable.         *)
(***************************************************************************)
LEMMA SameQueue ==
    ASSUME TypeOK, NEW v \in Users, queue'[v] = queue[v]
    PROVE  Arrived(v)
<1>1. Len(queue[v]) \in Nat
    BY Parts
<1>2. Len(queue[v]) \in 0..Len(queue[v])
    BY <1>1
<1>3. \A i \in 1..Len(queue'[v]) :
        ~(i > Len(queue[v])) /\ queue'[v][i] = queue[v][i]
    BY <1>1
<1> QED
    BY <1>2, <1>3, Zenon DEF Arrived

LEMMA SameBatch ==
    ASSUME TypeOK, NEW v \in Users, inbox'[v] = inbox[v] \/ inbox'[v] = <<>>
    PROVE  Handed(v)
<1>1. CASE inbox'[v] = inbox[v]
  <2>1. \A i \in 1..Len(inbox[v]) : i + 0 = i
      BY Parts
  <2> QED
      BY <1>1, <2>1 DEF Handed, Dropped
<1>2. CASE inbox'[v] = <<>>
  <2>1. Len(<<>>) = 0
      OBVIOUS
  <2>2. Len(inbox'[v]) = 0
      BY <1>2, <2>1, Zenon
  <2> QED
      BY <2>2 DEF Handed, Dropped
<1> QED
    BY <1>1, <1>2

LEMMA SameShown ==
    ASSUME NEW v \in Users, shown'[v] = shown[v]
    PROVE  Shows(v)
BY DEF Shows

LEMMA SameSent ==
    ASSUME NEW v \in Users, sent'[v] = sent[v]
    PROVE  Marks(v)
BY DEF Marks

LEMMA PostArrives ==
    ASSUME WellFormed, NEW env \in Envelopes, Posted(env),
           FreshMessage(env.to, env) \/ FreshRead(env.to, env)
    PROVE  \A v \in Users : Arrived(v)
<1>1. SUFFICES ASSUME NEW v \in Users PROVE Arrived(v)
    OBVIOUS
<1>2. CASE v # env.to
  <2>1. queue'[v] = queue[v]
      BY <1>2 DEF Posted
  <2> QED
      BY <2>1, SameQueue DEF WellFormed
<1>3. CASE v = env.to
  <2>1. /\ Len(queue[v]) \in Nat /\ Len(queue'[v]) = Len(queue[v]) + 1
        /\ \A i \in 1..Len(queue[v]) : queue'[v][i] = queue[v][i]
        /\ queue'[v][Len(queue[v]) + 1] = env
      BY <1>3 DEF Posted
  <2>2. PICK n : n = Len(queue[v])
      OBVIOUS
  <2>3. n \in 0..Len(queue[v])
      BY <2>1, <2>2
  <2>4. ASSUME NEW i \in 1..Len(queue'[v])
        PROVE  /\ i =< n => queue'[v][i] = queue[v][i]
               /\ i > n => i = n + 1
      BY <2>1, <2>2
  <2>5. ASSUME NEW i \in 1..Len(queue'[v]), i > n
        PROVE  /\ FreshMessage(v, queue'[v][i]) \/ FreshRead(v, queue'[v][i])
               /\ \A j \in 1..Len(queue'[v]) : ~(j > n /\ j # i)
    <3>1. i = n + 1 /\ queue'[v][i] = env
        BY <2>1, <2>2, <2>4, <2>5
    <3>2. \A j \in 1..Len(queue'[v]) : ~(j > n /\ j # i)
        BY <2>4, <3>1
    <3> QED
        BY <1>3, <3>1, <3>2
  <2> QED
      BY <2>3, <2>4, <2>5, Zenon DEF Arrived
<1> QED
    BY <1>2, <1>3

LEMMA FetchArrives ==
    ASSUME MailInv, WellFormed', NEW u \in Users, FetchedBy(u),
           now' = now, out' = out
    PROVE  /\ \A v \in Users : Arrived(v)
           /\ \A i \in 1..Len(queue'[u]) : FreshDelivery(u, queue'[u][i])
<1>1. ASSUME NEW v \in Users, NEW r, NewReceipt(u, v, r)
      PROVE  FreshDelivery(v, r)
  <2>1. PICK j \in 1..Len(queue[u]) : /\ IsMessage(queue[u][j])
                                      /\ queue[u][j].from = v
                                      /\ r.about = queue[u][j].ts
      BY <1>1 DEF NewReceipt
  <2>2. IsReceipt(r, "Delivery") /\ r.from = u
      BY <1>1 DEF NewReceipt
  <2>3. PICK t \in Nat : t = queue[u][j].ts
      BY Parts DEF MailInv, WellFormed, EnvelopeParts
  <2>4. ~Passed(v, u, t)
    <3>1. Passed(v, u, t) => t < t
        BY <2>1, <2>3 DEF Passed
    <3> QED
        BY <3>1
  <2>5. \A i \in 1..Len(queue'[u]) : ~IsMessage(queue'[u][i])
    <3>1. \A i \in 1..Len(queue'[u]) : NewReceipt(u, u, queue'[u][i])
        BY DEF FetchedBy
    <3> QED
        BY <3>1 DEF NewReceipt, IsReceipt, IsMessage, MessageTypes
  <2>6. t =< now[v] /\ \A env \in out[v] : env.to = u => t < env.ts
      BY <2>1, <2>3 DEF MailInv, Stamped
  <2>7. PassedNext(v, u, t)
      BY <2>5, <2>6 DEF PassedNext
  <2> QED
      BY <2>1, <2>2, <2>3, <2>4, <2>7 DEF FreshDelivery
<1>2. \A i \in 1..Len(queue'[u]) : FreshDelivery(u, queue'[u][i])
    BY <1>1 DEF FetchedBy
<1>3. ASSUME NEW v \in Users
      PROVE  Arrived(v)
  <2>1. Len(queue[v]) \in Nat /\ Len(queue'[v]) \in Nat
      BY Parts, PartsNext DEF MailInv, WellFormed
  <2>2. CASE v = u
    <3>1. 0 \in 0..Len(queue[v]) /\ \A i \in 1..Len(queue'[v]) : ~(i =< 0)
        BY <2>1
    <3> QED
        BY <1>2, <2>2, <3>1, Zenon DEF Arrived
  <2>3. CASE v # u
    <3>1. PICK n : n = Len(queue[v])
        OBVIOUS
    <3>2. n \in 0..Len(queue[v])
        BY <2>1, <3>1
    <3>3. ASSUME NEW i \in 1..Len(queue'[v])
          PROVE  /\ i =< n => queue'[v][i] = queue[v][i]
                 /\ i > n => FreshDelivery(v, queue'[v][i])
      <4>1. \/ i \in 1..Len(queue[v]) /\ queue'[v][i] = queue[v][i]
            \/ i > Len(queue[v]) /\ NewReceipt(u, v, queue'[v][i])
          BY <2>3 DEF FetchedBy
      <4>2. CASE i \in 1..Len(queue[v]) /\ queue'[v][i] = queue[v][i]
        <5>1. ~(i > n)
            BY <2>1, <3>1, <4>2
        <5> QED
            BY <4>2, <5>1
      <4>3. CASE i > Len(queue[v]) /\ NewReceipt(u, v, queue'[v][i])
        <5>1. ~(i =< n)
            BY <2>1, <3>1, <4>3
        <5> QED
            BY <1>1, <4>3, <5>1
      <4> QED
          BY <4>1, <4>2, <4>3
    <3> QED
        BY <3>2, <3>3, Zenon DEF Arrived
  <2> QED
      BY <2>2, <2>3
<1> QED
    BY <1>2, <1>3

\* The head of the batch is handled: the rest of the batch remains, and what
\* is displayed is the head.
LEMMA TookHands ==
    ASSUME MailInv, NEW u \in Users, Took(u)
    PROVE  /\ Dropped(u, 1) /\ Len(inbox[u]) > 0 /\ Current(u) = inbox[u][1]
           /\ \A v \in Users : Handed(v)
<1>1. Dropped(u, 1) /\ Len(inbox[u]) > 0 /\ Current(u) = inbox[u][1]
    BY DEF Took, Dropped
<1>2. ASSUME NEW v \in Users, v # u PROVE Handed(v)
  <2>1. inbox'[v] = inbox[v]
      BY <1>2 DEF Took
  <2> QED
      BY <2>1, SameBatch DEF MailInv, WellFormed
<1>3. Handed(u)
    BY <1>1 DEF Handed
<1> QED
    BY <1>1, <1>2, <1>3

LEMMA ShowIs ==
    ASSUME MailInv, NEW u \in Users, Took(u), Show(u), IsMessage(Current(u))
    PROVE  /\ \A v \in Users : Shows(v)
           /\ ShownNext(u, Current(u).from, Current(u).ts)
<1>1. PICK m : m = [from |-> Current(u).from, ts |-> Current(u).ts]
    OBVIOUS
<1>2. m.from = Current(u).from /\ m.ts = Current(u).ts
    BY <1>1
<1>3. m \in [from : Users, ts : Nat]
    BY <1>1 DEF Took, Envelopes
<1>4. PICK R : R = [from : Users, ts : Nat]
    OBVIOUS
<1>5. shown[u] \in Seq(R) /\ shown \in [Users -> Seq(R)] /\ m \in R
    BY <1>3, <1>4 DEF MailInv, WellFormed, TypeOK
<1>6. shown' = [shown EXCEPT ![u] = Append(shown[u], m)]
    BY <1>1 DEF Show
<1>7. shown'[u] = Append(shown[u], m) /\ \A v \in Users \ {u} : shown'[v] = shown[v]
    BY <1>5, <1>6
<1>8. /\ Len(shown[u]) \in Nat /\ Len(shown'[u]) = Len(shown[u]) + 1
      /\ \A k \in 1..Len(shown[u]) : shown'[u][k] = shown[u][k]
      /\ shown'[u][Len(shown[u]) + 1] = m
    BY <1>5, <1>7, AppendProperties, LenProperties
<1>9. Dropped(u, 1) /\ Len(inbox[u]) > 0 /\ Current(u) = inbox[u][1]
    BY TookHands
<1>10. Shows(u)
  <2>1. ASSUME NEW k \in 1..Len(shown'[u])
        PROVE  \/ k \in 1..Len(shown[u])
               \/ /\ k = Len(shown[u]) + 1 /\ shown'[u][k].from = inbox[u][1].from
                  /\ shown'[u][k].ts = inbox[u][1].ts
    <3>1. k \in 1..Len(shown[u]) \/ k = Len(shown[u]) + 1
        BY <1>8
    <3> QED
        BY <1>2, <1>8, <1>9, <3>1
  <2>2. \A k \in 1..Len(shown[u]) : k \in 1..Len(shown'[u])
      BY <1>8
  <2> QED
      BY <1>8, <1>9, <2>1, <2>2 DEF Shows
<1>11. ShownNext(u, Current(u).from, Current(u).ts)
  <2>1. Len(shown[u]) + 1 \in 1..Len(shown'[u])
      BY <1>8
  <2> QED
      BY <1>2, <1>8, <2>1 DEF ShownNext
<1> QED
    BY <1>7, <1>10, <1>11, SameShown

\* An envelope under way is a fresh message when it is posted.
LEMMA FreshFromOut ==
    ASSUME MailInv, NEW u \in Users, NEW env \in out[u],
           now'[u] = now[u], out'[u] = {}
    PROVE  FreshMessage(env.to, env) /\ env \in Envelopes /\ env.to \in Users
<1>1. /\ env.from = u /\ IsMessage(env) /\ env.ts = now[u]
      /\ env \in Envelopes /\ env.to \in Users /\ now[u] \in Nat
    BY Parts DEF MailInv, WellFormed, Filled, EnvelopeParts
<1>2. \A t \in Nat : Passed(u, env.to, t) => t < env.ts
    BY DEF Passed
<1>3. \A i \in 1..Len(queue[env.to]) :
        IsMessage(queue[env.to][i]) /\ queue[env.to][i].from = u
            => queue[env.to][i].ts < env.ts
    BY <1>1 DEF MailInv, Stamped
<1> QED
    BY <1>1, <1>2, <1>3 DEF FreshMessage

\* So is one that is stamped and posted in one step.
LEMMA FreshFromNow ==
    ASSUME MailInv, NEW u \in Users, NEW env \in Envelopes, env.from = u,
           IsMessage(env), env.ts = now[u] + 1, now'[u] = now[u] + 1, out'[u] = {}
    PROVE  FreshMessage(env.to, env)
<1>1. now[u] \in Nat /\ env.to \in Users
    BY Parts DEF MailInv, WellFormed, Envelopes
<1>2. \A t \in Nat : Passed(u, env.to, t) => t < env.ts
    BY <1>1 DEF Passed
<1>3. ASSUME NEW i \in 1..Len(queue[env.to]), IsMessage(queue[env.to][i]),
             queue[env.to][i].from = u
      PROVE  queue[env.to][i].ts < env.ts
  <2>1. queue[env.to][i].ts \in Nat /\ queue[env.to][i].ts =< now[u]
      BY <1>1, <1>3, Parts DEF MailInv, WellFormed, EnvelopeParts, Stamped
  <2> QED
      BY <1>1, <2>1
<1>4. env.ts =< now'[u]
    BY <1>1
<1> QED
    BY <1>2, <1>3, <1>4 DEF FreshMessage

\* Posting a receipt leaves what has passed as it is.
LEMMA PassedPost ==
    ASSUME MailInv, NEW u \in Users, NEW v \in Users, NEW t, Passed(u, v, t),
           NEW env, Posted(env), ~IsMessage(env), now' = now, out' = out
    PROVE  PassedNext(u, v, t)
<1>1. ASSUME NEW i \in 1..Len(queue'[v]), IsMessage(queue'[v][i]),
             queue'[v][i].from = u
      PROVE  t < queue'[v][i].ts
  <2>1. i \in 1..Len(queue[v]) /\ queue'[v][i] = queue[v][i]
    <3>1. CASE v # env.to
        BY <3>1 DEF Posted
    <3>2. CASE v = env.to
      <4>1. i \in 1..Len(queue[v]) \/ i = Len(queue[v]) + 1
          BY <3>2 DEF Posted
      <4> QED
          BY <1>1, <3>2, <4>1 DEF Posted
    <3> QED
        BY <3>1, <3>2
  <2> QED
      BY <1>1, <2>1 DEF Passed
<1> QED
    BY <1>1 DEF Passed, PassedNext

\* A read receipt for the head of the batch is fresh.
LEMMA AcceptArrives ==
    ASSUME MailInv, NEW u \in Users, NEW ok \in BOOLEAN, Took(u), Accept(u, ok),
           IsMessage(Current(u)), now' = now, out' = out
    PROVE  \A v \in Users : Arrived(v) /\ Shows(v)
<1>1. \A v \in Users : Shows(v)
    BY ShowIs DEF Accept
<1>2. CASE ~ok
  <2>1. queue' = queue
      BY <1>2 DEF Accept
  <2> QED
      BY <1>1, <2>1, SameQueue DEF MailInv, WellFormed
<1>3. CASE ok
  <2>1. PICK env : env = read_receipt(u, Current(u))
      OBVIOUS
  <2>2. PICK m : m = Current(u)
      OBVIOUS
  <2>3. m.from \in Users /\ m.ts \in Nat
      BY <2>2 DEF Took, Envelopes
  <2>4. /\ env.type = "Receipt" /\ env.receipt = "Read" /\ env.from = u
        /\ env.to = m.from /\ env.about = m.ts
      BY <2>1, <2>2 DEF read_receipt, ReceiptEnvelope
  <2>5. env \in Envelopes
      BY <2>1, <2>2, <2>3 DEF read_receipt, ReceiptEnvelope, Envelopes, ReceiptTypes,
                              Contents
  <2>6. Posted(env)
    <3>1. queue' = post(queue, env)
        BY <1>3, <2>1 DEF Accept
    <3> QED
        BY <2>5, <3>1, PostIs DEF MailInv, WellFormed
  <2>7. Passed(m.from, u, m.ts)
    <3>1. 1 \in 1..Len(inbox[u]) /\ m = inbox[u][1]
        BY <2>2 DEF Took
    <3> QED
        BY <2>2, <3>1 DEF MailInv, Fetched
  <2>8. PassedNext(m.from, u, m.ts)
    <3>1. ~IsMessage(env)
        BY <2>4 DEF IsMessage, MessageTypes
    <3> QED
        BY <2>3, <2>6, <2>7, <3>1, PassedPost
  <2>9. ShownNext(u, m.from, m.ts)
      BY <2>2, ShowIs DEF Accept
  <2>10. FreshRead(env.to, env)
      BY <2>4, <2>8, <2>9 DEF FreshRead, IsReceipt
  <2> QED
      BY <1>1, <2>5, <2>6, <2>10, PostArrives DEF MailInv
<1> QED
    BY <1>2, <1>3

LEMMA IsMailStep ==
    ASSUME MailInv, [Next]_vars
    PROVE  MailStep
<1> DEFINE Goal == MailStep
<1>0. WellFormed /\ TypeOK /\ WellFormed'
    BY WellFormedStep DEF MailInv, WellFormed
<1>00. \A w \in Users : now[w] \in Nat /\ now'[w] \in Nat
    BY <1>0, Parts, PartsNext DEF WellFormed
\* What every step of a kind has in common.
<1>1. ASSUME queue' = queue, shown' = shown, sent' = sent,
             \A v \in Users : inbox'[v] = inbox[v] \/ inbox'[v] = <<>>,
             \A w \in Users : now[w] =< now'[w],
             \A w \in Users : \A e \in out'[w] : e \in out[w] \/ e.ts > now[w]
      PROVE  Goal
    BY <1>0, <1>1, SameQueue, SameBatch, SameShown, SameSent DEF MailStep
<1>2. ASSUME NEW u \in Users, NEW env \in Envelopes, queue' = post(queue, env),
             FreshMessage(env.to, env), shown' = shown, \A v \in Users : Marks(v),
             \A v \in Users : inbox'[v] = inbox[v] \/ inbox'[v] = <<>>,
             \A w \in Users : now[w] =< now'[w],
             \A w \in Users : \A e \in out'[w] : e \in out[w] \/ e.ts > now[w]
      PROVE  Goal
  <2>1. Posted(env)
      BY <1>0, <1>2, PostIs
  <2>2. \A v \in Users : Arrived(v)
      BY <1>0, <1>2, <2>1, PostArrives
  <2> QED
      BY <1>0, <1>2, <2>2, SameBatch, SameShown DEF MailStep
<1>3. ASSUME NEW u \in Users, Took(u), now' = now, out' = out,
             \A v \in Users : Arrived(v) /\ Shows(v) /\ Marks(v)
      PROVE  Goal
  <2>1. \A v \in Users : Handed(v)
      BY <1>3, TookHands
  <2>2. \A w \in Users : now[w] =< now'[w]
      BY <1>00, <1>3
  <2> QED
      BY <1>3, <2>1, <2>2 DEF MailStep
<1>4. ASSUME NEW u \in Users, new(u)
      PROVE  Goal
  <2>1. UNCHANGED <<queue, shown, sent, inbox, now, out>>
      BY <1>4 DEF new, serverVars, histVars
  <2> QED
      BY <1>00, <1>1, <2>1
<1>5. ASSUME NEW u \in Users, register(u)
      PROVE  Goal
  <2>1. UNCHANGED <<queue, shown, sent, inbox, now, out>>
      BY <1>5 DEF register, countVars, histVars
  <2> QED
      BY <1>00, <1>1, <2>1
<1>6. ASSUME NEW u \in Users, Kill(u)
      PROVE  Goal
  <2>1. /\ shown' = shown /\ sent' = sent /\ now' = now
        /\ \A v \in Users : inbox'[v] = inbox[v] \/ inbox'[v] = <<>>
        /\ out'[u] = {} /\ \A w \in Users \ {u} : out'[w] = out[w]
      BY <1>0, <1>6 DEF Kill, TypeOK
  <2>2. /\ \A w \in Users : now[w] =< now'[w]
        /\ \A w \in Users : \A e \in out'[w] : e \in out[w]
      BY <1>00, <2>1
  <2>3. CASE queue' = queue
      BY <1>1, <2>1, <2>2, <2>3
  <2>4. CASE queue' # queue
    <3>1. PICK env \in out[u] : queue' = post(queue, env)
        BY <1>6, <2>4 DEF Kill
    <3>2. FreshMessage(env.to, env) /\ env \in Envelopes
        BY <2>1, FreshFromOut
    <3>3. \A v \in Users : Marks(v)
        BY <2>1, SameSent
    <3> QED
        BY <1>2, <2>1, <2>2, <3>1, <3>2, <3>3
  <2> QED
      BY <2>3, <2>4
<1>7. ASSUME NEW u \in Users, NEW env, Stamp(u, env),
             UNCHANGED <<queue, shown, sent, inbox>>
      PROVE  Goal
  <2>1. /\ now'[u] = now[u] + 1 /\ \A w \in Users \ {u} : now'[w] = now[w]
        /\ out'[u] = {env} /\ \A w \in Users \ {u} : out'[w] = out[w]
        /\ env.ts = now[u] + 1
      BY <1>0, <1>7 DEF Stamp, TypeOK
  <2>2. \A w \in Users : now[w] =< now'[w]
      BY <1>00, <2>1
  <2>3. ASSUME NEW w \in Users, NEW e \in out'[w]
        PROVE  e \in out[w] \/ e.ts > now[w]
      BY <1>00, <2>1
  <2> QED
      BY <1>1, <1>7, <2>2, <2>3
<1>8. ASSUME NEW u \in Users, send_to_self(u)
      PROVE  Goal
  <2>1. SendWith(u, u, "Normal", Nothing) /\ UNCHANGED <<queue, shown, sent, inbox>>
      BY <1>8 DEF send_to_self, serverVars, histVars
  <2>2. PICK env : Stamp(u, env)
      BY <1>0, <2>1, StampIs DEF Contents, MessageTypes
  <2> QED
      BY <1>7, <2>1, <2>2
<1>9. ASSUME NEW u \in Users, NEW v \in Users, send_first(u, v)
      PROVE  Goal
  <2>1. PICK s : s = new_initiator(<<u, keys[u] + 1>>, bundle[v])
      OBVIOUS
  <2>2. s \in Sessions
    <3>1. keys[u] + 1 \in Nat /\ <<u, keys[u] + 1>> \in Keys
        BY <1>0 DEF TypeOK, Keys
    <3>2. bundle[v] \in Keys
        BY <1>0, <1>9 DEF TypeOK, send_first
    <3> QED
        BY <2>1, <3>1, <3>2, NewSessions
  <2>3. ciphertext(s) \in Ciphertexts
      BY <2>2, Encrypting
  <2>4. /\ SendWith(u, v, "PreKeyBundle", ciphertext(s)) /\ v # u
        /\ UNCHANGED <<queue, shown, sent, inbox>>
      BY <1>9, <2>1 DEF send_first, serverVars
  <2>5. ciphertext(s) \in Contents /\ "PreKeyBundle" \in MessageTypes
      BY <2>3 DEF Contents, Ciphertexts, MessageTypes
  <2>6. PICK env : Stamp(u, env)
      BY <1>0, <2>3, <2>4, <2>5, StampIs
  <2> QED
      BY <1>7, <2>4, <2>6
<1>10. ASSUME NEW u \in Users, NEW v \in Users, send_next(u, v)
       PROVE  Goal
  <2>1. PICK s : s = sessions[u][v]
      OBVIOUS
  <2>2. s \in Sessions
      BY <1>0, <1>10, <2>1 DEF TypeOK, send_next
  <2>3. ciphertext(s) \in Ciphertexts
      BY <2>2, Encrypting
  <2>4. /\ SendWith(u, v, "Normal", ciphertext(s)) /\ v # u
        /\ UNCHANGED <<queue, shown, sent, inbox>>
      BY <1>10, <2>1 DEF send_next, serverVars, histVars
  <2>5. ciphertext(s) \in Contents /\ "Normal" \in MessageTypes
      BY <2>3 DEF Contents, Ciphertexts, MessageTypes
  <2>6. PICK env : Stamp(u, env)
      BY <1>0, <2>3, <2>4, <2>5, StampIs
  <2> QED
      BY <1>7, <2>4, <2>6
<1>11. ASSUME NEW u \in Users, NEW ok \in BOOLEAN, send_answered(u, ok)
       PROVE  Goal
  <2>1. PICK env \in out[u] :
          /\ ok => /\ queue' = post(queue, env)
                   /\ sent' = [sent EXCEPT ![u] = Append(@,
                          [to |-> env.to, ts |-> env.ts, status |-> "Sent"])]
          /\ ~ok => UNCHANGED <<queue, sent>>
      BY <1>11 DEF send_answered
  <2>2. /\ shown' = shown /\ now' = now /\ inbox' = inbox
        /\ out'[u] = {} /\ \A w \in Users \ {u} : out'[w] = out[w]
      BY <1>0, <1>11 DEF send_answered, TypeOK
  <2>3. /\ \A w \in Users : now[w] =< now'[w]
        /\ \A w \in Users : \A e \in out'[w] : e \in out[w]
      BY <1>00, <2>2
  <2>4. CASE ~ok
      BY <1>1, <2>1, <2>2, <2>3, <2>4
  <2>5. CASE ok
    <3>1. FreshMessage(env.to, env) /\ env \in Envelopes
        BY <2>2, FreshFromOut
    <3>2. ASSUME NEW v \in Users PROVE Marks(v)
      <4>1. PICK m : m = [to |-> env.to, ts |-> env.ts, status |-> "Sent"]
          OBVIOUS
      <4>2. m.status = "Sent"
          BY <4>1
      <4>3. PICK R : R = [to : Users, ts : Nat, status : Statuses]
          OBVIOUS
      <4>4. sent \in [Users -> Seq(R)] /\ sent[u] \in Seq(R)
          BY <1>0, <4>3 DEF TypeOK
      <4>5. m \in R
          BY <3>1, <4>1, <4>3 DEF Envelopes, Statuses
      <4>6. sent' = [sent EXCEPT ![u] = Append(sent[u], m)]
          BY <2>1, <2>5, <4>1
      <4>7. CASE v # u
        <5>1. sent'[v] = sent[v]
            BY <4>4, <4>6, <4>7
        <5> QED
            BY <5>1, SameSent
      <4>8. CASE v = u
        <5>1. sent'[u] = Append(sent[u], m)
            BY <4>4, <4>6
        <5>2. /\ Len(sent[u]) \in Nat /\ Len(sent'[u]) = Len(sent[u]) + 1
              /\ \A k \in 1..Len(sent[u]) : sent'[u][k] = sent[u][k]
              /\ sent'[u][Len(sent[u]) + 1] = m
            BY <4>4, <4>5, <5>1, AppendProperties, LenProperties
        <5>3. \A k \in 1..Len(sent'[u]) : k \in 1..Len(sent[u])
                                            \/ k = Len(sent[u]) + 1
            BY <5>2
        <5> QED
            BY <4>2, <4>8, <5>2, <5>3 DEF Marks
      <4> QED
          BY <4>7, <4>8
    <3> QED
        BY <1>2, <2>1, <2>2, <2>3, <2>5, <3>1, <3>2
  <2> QED
      BY <2>4, <2>5
<1>12. ASSUME NEW u \in Users, NEW i, NEW ok \in BOOLEAN, edit_message(u, i, ok)
       PROVE  Goal
  <2>1. Edited(u)
      BY <1>0, <1>12, EditIs
  <2>2. UNCHANGED <<shown, inbox, sent, out>>
      BY <1>12 DEF edit_message
  <2>3. /\ now'[u] = now[u] + 1 /\ \A w \in Users \ {u} : now'[w] = now[w]
        /\ out'[u] = {}
      BY <1>0, <2>1, <2>2 DEF Edited, TypeOK, WellFormed, Busy
  <2>4. /\ \A w \in Users : now[w] =< now'[w]
        /\ \A w \in Users : \A e \in out'[w] : e \in out[w]
      BY <1>00, <2>2, <2>3
  <2>5. CASE queue' = queue
      BY <1>1, <2>2, <2>4, <2>5
  <2>6. CASE queue' # queue
    <3>1. PICK env \in Envelopes :
            /\ env.from = u /\ IsMessage(env)
            /\ env.ts = now[u] + 1 /\ queue' = post(queue, env)
        BY <2>1, <2>6 DEF Edited
    <3>2. FreshMessage(env.to, env)
        BY <2>3, <3>1, FreshFromNow
    <3>3. \A v \in Users : Marks(v)
        BY <2>2, SameSent
    <3> QED
        BY <1>2, <2>2, <2>4, <3>1, <3>2, <3>3
  <2> QED
      BY <2>5, <2>6
<1>13. ASSUME NEW u \in Users, receive_messages(u)
       PROVE  Goal
  <2>1. Len(queue[u]) \in 0..Len(queue[u])
      BY <1>0, Parts
  <2>2. FetchedBy(u)
      BY <1>0, <1>13, <2>1, FetchIs DEF receive_messages
  <2>3. /\ UNCHANGED <<out, sent, now, shown>> /\ inbox'[u] = queue[u]
        /\ \A v \in Users \ {u} : inbox'[v] = inbox[v]
      BY <1>0, <1>13 DEF receive_messages, TypeOK, countVars, histVars
  <2>4. /\ \A v \in Users : Arrived(v)
        /\ \A i \in 1..Len(queue'[u]) : FreshDelivery(u, queue'[u][i])
      BY <1>0, <2>2, <2>3, FetchArrives
  <2>5. Handed(u)
      BY <2>3, <2>4 DEF Handed
  <2>6. \A v \in Users : Handed(v)
      BY <1>0, <2>3, <2>5, SameBatch
  <2>7. \A w \in Users : now[w] =< now'[w]
      BY <1>00, <2>3
  <2> QED
      BY <2>3, <2>4, <2>6, <2>7, SameShown, SameSent DEF MailStep
<1>14. ASSUME NEW u \in Users, receive_error(u)
       PROVE  Goal
  <2>1. PICK n \in 0..(Len(queue[u]) - 1) : queue' = fetch_messages(queue, u, n)
      BY <1>14 DEF receive_error
  <2>2. n \in 0..Len(queue[u])
      BY <1>0, Parts
  <2>3. FetchedBy(u)
      BY <1>0, <2>1, <2>2, FetchIs
  <2>4. UNCHANGED <<out, sent, now, shown, inbox>>
      BY <1>14 DEF receive_error, procVars
  <2>5. \A v \in Users : Arrived(v)
      BY <1>0, <2>3, <2>4, FetchArrives
  <2>6. \A w \in Users : now[w] =< now'[w]
      BY <1>00, <2>4
  <2> QED
      BY <1>0, <2>4, <2>5, <2>6, SameBatch, SameShown, SameSent DEF MailStep
<1>15. ASSUME NEW u \in Users, NEW ok \in BOOLEAN, receive_prekey(u, ok)
       PROVE  Goal
  <2>1. Took(u) /\ Current(u).type = "PreKeyBundle"
      BY <1>0, <1>15, TookIs DEF receive_prekey
  <2>2. UNCHANGED <<out, sent, now>> /\ (Accept(u, ok) \/ Reject(u))
      BY <1>15 DEF receive_prekey
  <2>3. IsMessage(Current(u))
      BY <2>1 DEF IsMessage, MessageTypes
  <2>4. \A v \in Users : Arrived(v) /\ Shows(v)
    <3>1. CASE Accept(u, ok)
        BY <2>1, <2>2, <2>3, <3>1, AcceptArrives
    <3>2. CASE Reject(u)
        BY <1>0, <3>2, SameQueue, SameShown DEF Reject
    <3> QED
        BY <2>2, <3>1, <3>2
  <2>5. \A v \in Users : Marks(v)
      BY <2>2, SameSent
  <2> QED
      BY <1>3, <2>1, <2>2, <2>4, <2>5
<1>16. ASSUME NEW u \in Users, NEW ok \in BOOLEAN, receive_normal(u, ok)
       PROVE  Goal
  <2>1. Took(u) /\ Current(u).type = "Normal"
      BY <1>0, <1>16, TookIs DEF receive_normal
  <2>2. UNCHANGED <<out, sent, now>> /\ (Accept(u, ok) \/ Reject(u))
      BY <1>16 DEF receive_normal
  <2>3. IsMessage(Current(u))
      BY <2>1 DEF IsMessage, MessageTypes
  <2>4. \A v \in Users : Arrived(v) /\ Shows(v)
    <3>1. CASE Accept(u, ok)
        BY <2>1, <2>2, <2>3, <3>1, AcceptArrives
    <3>2. CASE Reject(u)
        BY <1>0, <3>2, SameQueue, SameShown DEF Reject
    <3> QED
        BY <2>2, <3>1, <3>2
  <2>5. \A v \in Users : Marks(v)
      BY <2>2, SameSent
  <2> QED
      BY <1>3, <2>1, <2>2, <2>4, <2>5
<1>17. ASSUME NEW u \in Users, receive_saved(u)
       PROVE  Goal
  <2>1. Took(u) /\ Current(u).type = "Normal"
      BY <1>0, <1>17, TookIs DEF receive_saved
  <2>2. UNCHANGED <<out, sent, now, queue>> /\ Show(u)
      BY <1>17 DEF receive_saved, serverVars, countVars
  <2>3. \A v \in Users : Shows(v)
      BY <2>1, <2>2, ShowIs DEF IsMessage, MessageTypes
  <2>4. \A v \in Users : Arrived(v) /\ Marks(v)
      BY <1>0, <2>2, SameQueue, SameSent
  <2> QED
      BY <1>3, <2>1, <2>2, <2>3, <2>4
<1>18. ASSUME NEW u \in Users, receive_missing(u)
       PROVE  Goal
  <2>1. Took(u)
      BY <1>0, <1>18, TookIs DEF receive_missing
  <2>2. UNCHANGED <<out, sent, now, queue, shown>>
      BY <1>18 DEF receive_missing, serverVars, countVars
  <2>3. \A v \in Users : Arrived(v) /\ Shows(v) /\ Marks(v)
      BY <1>0, <2>2, SameQueue, SameShown, SameSent
  <2> QED
      BY <1>3, <2>1, <2>2, <2>3
<1>19. ASSUME NEW u \in Users, receive_receipt(u)
       PROVE  Goal
  <2>1. Took(u) /\ Current(u).type = "Receipt"
      BY <1>0, <1>19, TookIs DEF receive_receipt
  <2>2. UNCHANGED <<out, now, queue, shown>>
      BY <1>19 DEF receive_receipt, serverVars, countVars, histVars
  <2>3. Applied(u)
      BY <1>0, <1>19, AppliedIs
  <2>4. /\ Dropped(u, 1) /\ Len(inbox[u]) > 0 /\ Current(u) = inbox[u][1]
      BY <2>1, TookHands
  <2>5. ASSUME NEW v \in Users PROVE Marks(v)
    <3>1. CASE sent'[v] = sent[v]
        BY <3>1, SameSent
    <3>2. CASE sent'[v] # sent[v]
      <4>1. v = u /\ sent' # sent
          BY <2>3, <3>2 DEF Applied
      <4>2. PICK k \in 1..Len(sent[u]), status \in {"Delivered", "Read"} :
              /\ sent[u][k].to = Current(u).from /\ sent[u][k].ts = Current(u).about
              /\ (status = "Delivered") <=> (Current(u).receipt = "Delivery")
              /\ Len(sent'[u]) = Len(sent[u])
              /\ \A j \in 1..Len(sent[u]) :
                   /\ sent'[u][j].to = sent[u][j].to /\ sent'[u][j].ts = sent[u][j].ts
                   /\ sent'[u][j].status = IF j = k THEN status
                                                    ELSE sent[u][j].status
          BY <2>3, <4>1 DEF Applied
      <4>3. ASSUME NEW j \in 1..Len(sent'[u])
            PROVE  \/ j \in 1..Len(sent[u]) /\ sent'[u][j] = sent[u][j]
                   \/ /\ sent'[u][j].to = inbox[u][1].from
                      /\ sent'[u][j].ts = inbox[u][1].about
                      /\ sent'[u][j].status = "Read" => inbox[u][1].receipt # "Delivery"
        <5>1. CASE j = k
            BY <2>4, <4>2, <5>1
        <5>2. CASE j # k
          <6>1. PICK R : R = [to : Users, ts : Nat, status : Statuses]
              OBVIOUS
          <6>2. sent[u] \in Seq(R) /\ sent'[u] \in Seq(R)
              BY <1>0, <6>1 DEF TypeOK, WellFormed
          <6>3. j \in 1..Len(sent[u])
              BY <4>2
          <6>4. sent[u][j] \in R /\ sent'[u][j] \in R
              BY <6>2, <6>3, ElementOfSeq
          <6>5. /\ sent'[u][j].to = sent[u][j].to /\ sent'[u][j].ts = sent[u][j].ts
                /\ sent'[u][j].status = sent[u][j].status
              BY <4>2, <5>2, <6>3
          <6>6. sent'[u][j] = sent[u][j]
              BY <6>1, <6>4, <6>5
          <6> QED
              BY <6>3, <6>6
        <5> QED
            BY <5>1, <5>2
      <4> QED
          BY <2>1, <2>4, <4>1, <4>3 DEF Marks
    <3> QED
        BY <3>1, <3>2
  <2>6. \A v \in Users : Arrived(v) /\ Shows(v)
      BY <1>0, <2>2, SameQueue, SameShown
  <2> QED
      BY <1>3, <2>1, <2>2, <2>5, <2>6
<1>20. ASSUME UNCHANGED vars PROVE Goal
  <2>1. UNCHANGED <<queue, shown, sent, inbox, now, out>>
      BY <1>20 DEF vars
  <2> QED
      BY <1>00, <1>1, <2>1
<1> QED
    BY <1>4, <1>5, <1>6, <1>8, <1>9, <1>10, <1>11, <1>12, <1>13, <1>14, <1>15,
       <1>16, <1>17, <1>18, <1>19, <1>20 DEF Next, Command, Handle

LEMMA MailInit == Init => MailInv
<1> SUFFICES ASSUME Init PROVE MailInv
    OBVIOUS
<1>1. WellFormed
    BY WellFormedInit
<1>2. Len(<<>>) = 0
    OBVIOUS
<1>3. \A u \in Users : /\ Len(queue[u]) = 0 /\ Len(inbox[u]) = 0
                       /\ Len(shown[u]) = 0 /\ Len(sent[u]) = 0
    BY <1>2 DEF Init
<1>4. Stamped /\ Fetched /\ Displayed /\ Receipts /\ Tracked
    BY <1>3 DEF Stamped, Fetched, Displayed, Receipts, Tracked
<1>5. Ordered
    BY <1>3 DEF Ordered, InOrder
<1>6. ShownInOrder
    BY DEF Init, ShownInOrder
<1> QED
    BY <1>1, <1>4, <1>5, <1>6 DEF MailInv

LEMMA AlwaysMail == Spec => []MailInv
<1>1. Init => MailInv
    BY MailInit
<1>2. ASSUME MailInv, [Next]_vars PROVE MailInv'
  <2>1. WellFormed'
      BY <1>2, WellFormedStep DEF MailInv
  <2>2. MailStep
      BY <1>2, IsMailStep
  <2> QED
      BY <1>2, <2>1, <2>2, MailStepKeeps
<1> QED
    BY <1>1, <1>2, PTL DEF Spec

(***************************************************************************)
(* TypeCorrect: every variable keeps its type, the sessions of the ratchet *)
(* and the envelopes under way included.                                   *)
(***************************************************************************)
THEOREM TypeCorrect == Spec => []TypeOK
<1>1. WellFormed => TypeOK
    BY DEF WellFormed
<1> QED
    BY <1>1, AlwaysWellFormed, PTL

(***************************************************************************)
(* ReadIsShown: the status Read, which a client sets when a read receipt   *)
(* comes, means that this very message was displayed, whatever ends of     *)
(* processes and errors came in between.                                   *)
(***************************************************************************)
THEOREM ReadIsShown == Spec => []ReadMeansShown
<1>1. ASSUME MailInv PROVE ReadMeansShown
  <2>1. ASSUME NEW u \in Users, NEW m \in Elements(sent[u]), m.status = "Read"
        PROVE  [from |-> u, ts |-> m.ts] \in Elements(shown[m.to])
    <3>1. PICK i \in DOMAIN sent[u] : m = sent[u][i]
        BY <2>1 DEF Elements
    <3>2. sent[u] \in Seq([to : Users, ts : Nat, status : Statuses])
        BY <1>1 DEF MailInv, WellFormed, TypeOK
    <3>3. i \in 1..Len(sent[u])
        BY <3>2, LenProperties
    <3> QED
        BY <1>1, <2>1, <3>1, <3>3 DEF MailInv, Tracked, StatusTrue, ShownBy
  <2> QED
      BY <2>1 DEF ReadMeansShown
<1> QED
    BY <1>1, AlwaysMail, PTL

(***************************************************************************)
(* DeliveredIsFetched: a message whose status is beyond Sent is no longer  *)
(* in the queue of the relay.                                              *)
(***************************************************************************)
THEOREM DeliveredIsFetched == Spec => []DeliveredMeansFetched
<1>1. ASSUME MailInv PROVE DeliveredMeansFetched
  <2>1. ASSUME NEW u \in Users, NEW m \in Elements(sent[u]), m.status # "Sent",
               NEW env \in Elements(queue[m.to]), IsMessage(env), env.from = u,
               env.ts = m.ts
        PROVE  FALSE
    <3>1. PICK i \in DOMAIN sent[u] : m = sent[u][i]
        BY <2>1 DEF Elements
    <3>2. sent[u] \in Seq([to : Users, ts : Nat, status : Statuses])
        BY <1>1 DEF MailInv, WellFormed, TypeOK
    <3>3. i \in 1..Len(sent[u])
        BY <3>2, LenProperties
    <3>4. Passed(u, m.to, m.ts) /\ m.to \in Users /\ m.ts \in Nat
        BY <1>1, <2>1, <3>1, <3>3, Parts
           DEF MailInv, WellFormed, Tracked, StatusTrue, SentParts
    <3>5. PICK j \in DOMAIN queue[m.to] : env = queue[m.to][j]
        BY <2>1 DEF Elements
    <3>6. queue[m.to] \in Seq(Envelopes)
        BY <1>1, <3>4 DEF MailInv, WellFormed, TypeOK
    <3>7. j \in 1..Len(queue[m.to])
        BY <3>6, LenProperties
    <3>8. m.ts < m.ts
        BY <2>1, <3>4, <3>5, <3>7 DEF Passed
    <3> QED
        BY <3>4, <3>8
  <2> QED
      BY <2>1 DEF DeliveredMeansFetched
<1> QED
    BY <1>1, AlwaysMail, PTL

(***************************************************************************)
(* DisplayOrder: the messages of one sender are displayed in the order of  *)
(* sending, each at most once.                                             *)
(***************************************************************************)
THEOREM DisplayOrder == Spec => []ShownInOrder
<1>1. MailInv => ShownInOrder
    BY DEF MailInv
<1> QED
    BY <1>1, AlwaysMail, PTL

\* Only the answer to a send and a receipt change the tracked messages.
LEMMA SentStep ==
    ASSUME [Next]_vars
    PROVE  \/ sent' = sent
           \/ \E u \in Users : \/ \E ok \in BOOLEAN : send_answered(u, ok)
                               \/ receive_receipt(u)
<1>1. CASE UNCHANGED vars
    BY <1>1 DEF vars
<1>2. CASE Next
  <2>1. PICK u \in Users :
          \/ new(u) \/ register(u) \/ Kill(u)
          \/ Command(u) \/ Handle(u)
          \/ \E ok \in BOOLEAN : send_answered(u, ok)
      BY <1>2 DEF Next
  <2>2. CASE new(u) \/ register(u) \/ Kill(u)
      BY <2>2 DEF new, register, Kill
  <2>3. CASE Command(u)
      BY <2>3 DEF Command, send_to_self, send_first, send_next, edit_message,
                  receive_messages, receive_error
  <2>4. CASE Handle(u)
      BY <2>4 DEF Handle, receive_prekey, receive_normal, receive_saved,
                  receive_missing
  <2> QED
      BY <2>1, <2>2, <2>3, <2>4
<1> QED
    BY <1>1, <1>2

(***************************************************************************)
(* StatusOnlyRises: a receipt overwrites the status without a look at the  *)
(* old one, and still no message falls back from Read to Delivered; and no *)
(* tracked message is ever forgotten.                                      *)
(***************************************************************************)
THEOREM StatusOnlyRises == Spec => StatusNeverFallsBack
<1> DEFINE Rises == \A u \in Users : \A i \in DOMAIN sent[u] :
                      /\ i \in DOMAIN sent'[u]
                      /\ Rank(sent[u][i].status) =< Rank(sent'[u][i].status)
<1>1. ASSUME MailInv, [Next]_vars PROVE Rises
  <2>1. SUFFICES ASSUME NEW v \in Users, NEW i \in DOMAIN sent[v]
                 PROVE  /\ i \in DOMAIN sent'[v]
                        /\ Rank(sent[v][i].status) =< Rank(sent'[v][i].status)
      OBVIOUS
  <2>2. PICK R : R = [to : Users, ts : Nat, status : Statuses]
      OBVIOUS
  <2>3. TypeOK /\ TypeOK'
      BY <1>1, WellFormedStep DEF MailInv, WellFormed
  <2>4. sent \in [Users -> Seq(R)] /\ sent' \in [Users -> Seq(R)]
      BY <2>2, <2>3 DEF TypeOK
  <2>5. /\ Len(sent[v]) \in Nat /\ DOMAIN sent[v] = 1..Len(sent[v])
        /\ Len(sent'[v]) \in Nat /\ DOMAIN sent'[v] = 1..Len(sent'[v])
      BY <2>4, LenProperties
  <2>6. i \in 1..Len(sent[v])
      BY <2>5
  <2>7. sent[v][i].status \in Statuses
      BY <2>3, <2>6, Parts DEF SentParts
  <2>8. \A s \in Statuses : Rank(s) \in 0..2
      BY DEF Statuses, Rank
  <2>9. CASE sent'[v] = sent[v]
    <3>1. Rank(sent[v][i].status) =< Rank(sent[v][i].status)
        BY <2>7, <2>8
    <3> QED
        BY <2>9, <3>1, Zenon
  <2>10. ASSUME NEW u \in Users, NEW ok \in BOOLEAN, send_answered(u, ok),
                sent'[v] # sent[v]
         PROVE  /\ i \in DOMAIN sent'[v]
                /\ Rank(sent[v][i].status) =< Rank(sent'[v][i].status)
    <3>1. PICK env \in out[u] :
            \/ sent' = sent
            \/ sent' = [sent EXCEPT ![u] = Append(sent[u],
                          [to |-> env.to, ts |-> env.ts, status |-> "Sent"])]
        BY <2>10 DEF send_answered
    <3>2. PICK m : m = [to |-> env.to, ts |-> env.ts, status |-> "Sent"]
        OBVIOUS
    <3>3. m \in R
      <4>1. env.to \in Users /\ env.ts \in Nat
          BY <2>3, <3>1, Parts DEF EnvelopeParts
      <4> QED
          BY <2>2, <3>2, <4>1 DEF Statuses
    <3>4. sent' = [sent EXCEPT ![u] = Append(sent[u], m)]
        BY <2>10, <3>1, <3>2
    <3>5. v = u /\ sent'[v] = Append(sent[v], m)
        BY <2>4, <2>10, <3>4
    <3>6. /\ Len(sent'[v]) = Len(sent[v]) + 1
          /\ \A k \in 1..Len(sent[v]) : sent'[v][k] = sent[v][k]
        BY <2>4, <3>3, <3>5, AppendProperties
    <3>7. i \in 1..Len(sent'[v]) /\ sent'[v][i] = sent[v][i]
        BY <2>5, <2>6, <3>6
    <3>8. Rank(sent[v][i].status) =< Rank(sent[v][i].status)
        BY <2>7, <2>8
    <3> QED
        BY <2>5, <3>7, <3>8
  <2>11. ASSUME NEW u \in Users, receive_receipt(u), sent'[v] # sent[v]
         PROVE  /\ i \in DOMAIN sent'[v]
                /\ Rank(sent[v][i].status) =< Rank(sent'[v][i].status)
    <3>1. Applied(u)
        BY <2>3, <2>11, AppliedIs
    <3>2. v = u /\ sent' # sent
        BY <2>11, <3>1 DEF Applied
    <3>3. PICK k \in 1..Len(sent[u]), status \in {"Delivered", "Read"} :
            /\ sent[u][k].to = Current(u).from /\ sent[u][k].ts = Current(u).about
            /\ (status = "Delivered") <=> (Current(u).receipt = "Delivery")
            /\ Len(sent'[u]) = Len(sent[u])
            /\ \A j \in 1..Len(sent[u]) :
                 sent'[u][j].status = IF j = k THEN status ELSE sent[u][j].status
        BY <3>1, <3>2 DEF Applied
    <3>4. i \in DOMAIN sent'[v]
        BY <2>5, <2>6, <3>2, <3>3
    <3>5. CASE i # k
      <4>1. sent'[v][i].status = sent[v][i].status
          BY <2>6, <3>2, <3>3, <3>5
      <4> QED
          BY <2>7, <2>8, <3>4, <4>1
    <3>6. CASE i = k
      <4>1. sent'[v][i].status = status
          BY <2>6, <3>2, <3>3, <3>6
      <4>2. CASE status = "Read"
          BY <2>7, <3>4, <4>1, <4>2 DEF Statuses, Rank
      <4>3. CASE status = "Delivered"
        <5>1. sent[v][i].status # "Read"
          <6>1. SUFFICES ASSUME sent[v][i].status = "Read" PROVE FALSE
              OBVIOUS
          <6>2. NoneWaits(u, sent[u][k].to, sent[u][k].ts)
              BY <1>1, <2>6, <3>2, <3>6, <6>1 DEF MailInv, Tracked, StatusTrue
          <6>3. Took(u) /\ Current(u).type = "Receipt"
              BY <1>1, <2>11, TookIs DEF MailInv, receive_receipt
          <6>4. 1 \in 1..Len(inbox[u]) /\ Current(u) = inbox[u][1]
              BY <6>3 DEF Took
          <6>5. IsReceipt(inbox[u][1], "Delivery")
              BY <3>3, <4>3, <6>3, <6>4 DEF IsReceipt
          <6> QED
              BY <3>3, <6>2, <6>4, <6>5 DEF NoneWaits
        <5>2. sent[v][i].status \in {"Sent", "Delivered"}
            BY <2>7, <5>1 DEF Statuses
        <5> QED
            BY <3>4, <4>1, <4>3, <5>2 DEF Rank
      <4> QED
          BY <4>2, <4>3
    <3> QED
        BY <3>5, <3>6
  <2>12. sent' = sent => sent'[v] = sent[v]
      OBVIOUS
  <2> QED
      BY <1>1, <2>9, <2>10, <2>11, <2>12, SentStep
<1>2. ASSUME MailInv, [Next]_vars PROVE [Rises]_vars
    BY <1>1, <1>2
<1>3. StatusNeverFallsBack <=> [][Rises]_vars
    BY DEF StatusNeverFallsBack
<1> HIDE DEF Rises
<1> QED
    BY <1>2, <1>3, AlwaysMail, PTL DEF Spec
-----------------------------------------------------------------------------
(***************************************************************************)
(* The ratchets.  Between two users whose pair is undisturbed and of whom  *)
(* one began, u say, the sessions of the two match and what is on its way  *)
(* fills exactly the gap between them: the steps of u's sending chain that *)
(* v's receiving chain has not taken yet, in order and each once, and      *)
(* likewise back.  The first step of u's chain is the PreKeyBundle.        *)
(***************************************************************************)
\* What waits for v, in the order in which v will handle it.
Line(v) == inbox[v] \o queue[v]

By(m, u) == IsMessage(m) /\ m.from = u
StepOf(m) == m.content.key.step

\* Message m is encrypted with ratchet key k in the chain of root r.
Fits(m, k, r) ==
    /\ m.content \in Ciphertexts
    /\ m.content.ratchet_key = k /\ m.content.key.root = r
    /\ m.type = "PreKeyBundle" <=> r # <<>> /\ StepOf(m) = 0

\* The messages of u in x are the steps of the chain from a up to b.
Carries(x, u, k, r, a, b) ==
    /\ a \in Nat /\ b \in Nat /\ a =< b
    /\ \A i \in 1..Len(x) : By(x[i], u) =>
         Fits(x[i], k, r) /\ a =< StepOf(x[i]) /\ StepOf(x[i]) < b
    /\ \A i, j \in 1..Len(x) :
         i < j /\ By(x[i], u) /\ By(x[j], u) => StepOf(x[i]) < StepOf(x[j])
    /\ \A n \in a..(b - 1) : \E i \in 1..Len(x) : By(x[i], u) /\ StepOf(x[i]) = n

\* So are those on their way to v, with the one being sent: o is u's envelope
\* under way, x what waits for v.
Way(o, x, u, v, k, r, a, b) ==
    \/ (\A e \in o : e.to # v) /\ Carries(x, u, k, r, a, b)
    \/ \E e \in o : /\ \A f \in o : f = e
                    /\ e.to = v /\ By(e, u) /\ Fits(e, k, r)
                    /\ b \in Nat /\ StepOf(e) = b - 1
                    /\ Carries(x, u, k, r, a, b - 1)

\* Nothing of u is on its way to v.
Quiet(o, x, u, v) ==
    (\A e \in o : e.to # v) /\ \A i \in 1..Len(x) : ~By(x[i], u)

\* The session s of the initiator and w of the responder, who has the pre-key p.
Root(e, p) == Append(<<{e, p}>>, {e})
Match(s, w, p) ==
    /\ s \in Sessions /\ p \in Keys /\ s.their = p
    /\ s.send.root = Root(s.dh, p) /\ s.send.step # 0 /\ s.recv.root = <<>>
    /\ w # NoSession => /\ w \in Sessions /\ w.dh = p /\ w.their = s.dh
                        /\ w.recv.root = s.send.root /\ w.recv.step # 0
                        /\ w.send.root = <<>>

Taken(w) == IF w = NoSession THEN 0 ELSE w.recv.step
Given(w) == IF w = NoSession THEN 0 ELSE w.send.step

Registered(v) == pc[v] \notin {"down", "connecting"}

\* What is on its way between them: o and q are the envelopes under way of u
\* and v, x and z what waits for v and u.
Link(u, v, s, w, p, o, x, q, z) ==
    /\ Match(s, w, p)
    /\ Way(o, x, u, v, s.dh, s.send.root, Taken(w), s.send.step)
    /\ Way(q, z, v, u, p, <<>>, s.recv.step, Given(w))

Linked(u, v) ==
    /\ Registered(v)
    /\ Link(u, v, sessions[u][v], sessions[v][u], spk[v], out[u], Line(v),
            out[v], Line(u))

Strangers(u, v) ==
    /\ sessions[u][v] = NoSession /\ sessions[v][u] = NoSession
    /\ Quiet(out[u], Line(v), u, v) /\ Quiet(out[v], Line(u), v, u)

\* A batch is there only while it is handled; one envelope is sent at a time.
Single ==
    \A u \in Users : /\ pc[u] # "receiving" => inbox[u] = <<>>
                     /\ \A e, f \in out[u] : e = f

\* The relay has the pre-key of a process that did not end.
Published(v) == bundle[v] = IF Registered(v) THEN spk[v] ELSE NoKey

Paired(u, v) ==
    \/ Glare(u, v)
    \/ /\ <<u, v>> \notin initiated /\ <<v, u>> \notin initiated
       /\ Strangers(u, v)
    \/ <<u, v>> \in initiated /\ <<v, u>> \notin initiated /\ Linked(u, v)
    \/ <<v, u>> \in initiated /\ <<u, v>> \notin initiated /\ Linked(v, u)

RatchetInv ==
    /\ WellFormed /\ Single
    /\ \A u, v \in Users : {u, v} \notin disturbed =>
         Published(v) /\ (u # v => Paired(u, v))
    /\ UndisturbedDecrypts
-----------------------------------------------------------------------------
(***************************************************************************)
(* What waits, as it moves on.                                             *)
(***************************************************************************)
\* y is x without its first d envelopes and with more behind, none of them a
\* message of u.
Follows(x, y, d, u) ==
    /\ Len(x) \in Nat /\ Len(y) \in Nat /\ d \in {0, 1}
    /\ d =< Len(x) /\ Len(x) - d =< Len(y)
    /\ \A i \in 1..(Len(x) - d) : y[i] = x[i + d]
    /\ \A i \in 1..Len(y) : i > Len(x) - d => ~By(y[i], u)

\* The messages of u in y are those in x.
Keeps(x, y, u) ==
    \E d : Follows(x, y, d, u) /\ (d = 1 => ~By(x[1], u))

\* y is x with m behind.
Adds(x, y, m) ==
    /\ Len(x) \in Nat /\ Len(y) = Len(x) + 1 /\ y[Len(x) + 1] = m
    /\ \A i \in 1..Len(x) : y[i] = x[i]

\* Steps are numbers.
LEMMA StepIs ==
    ASSUME NEW m, NEW k, NEW r, Fits(m, k, r)
    PROVE  StepOf(m) \in Nat
BY DEF Fits, StepOf, Ciphertexts, Chains

LEMMA FollowsBack ==
    ASSUME NEW x, NEW y, NEW d, NEW u, Follows(x, y, d, u), NEW i \in 1..Len(y),
           By(y[i], u)
    PROVE  i + d \in 1..Len(x) /\ i \in 1..(Len(x) - d) /\ y[i] = x[i + d]
<1>1. /\ Len(x) \in Nat /\ Len(y) \in Nat /\ d \in Nat /\ d =< Len(x)
      /\ i > Len(x) - d => ~By(y[i], u)
      /\ \A j \in 1..(Len(x) - d) : y[j] = x[j + d]
    BY DEF Follows
<1>2. i \in 1..(Len(x) - d)
    BY <1>1
<1> QED
    BY <1>1, <1>2

LEMMA FollowsOn ==
    ASSUME NEW x, NEW y, NEW d, NEW u, Follows(x, y, d, u), NEW i \in 1..Len(x),
           i > d
    PROVE  i - d \in 1..Len(y) /\ y[i - d] = x[i]
<1>1. /\ Len(x) \in Nat /\ Len(y) \in Nat /\ d \in Nat /\ d =< Len(x)
      /\ Len(x) - d =< Len(y)
      /\ \A j \in 1..(Len(x) - d) : y[j] = x[j + d]
    BY DEF Follows
<1>2. i - d \in 1..(Len(x) - d) /\ (i - d) + d = i
    BY <1>1
<1>3. y[i - d] = x[(i - d) + d]
    BY <1>1, <1>2
<1> QED
    BY <1>1, <1>2, <1>3

LEMMA CarriesKeeps ==
    ASSUME NEW x, NEW y, NEW u, Keeps(x, y, u), NEW k, NEW r, NEW a, NEW b,
           Carries(x, u, k, r, a, b)
    PROVE  Carries(y, u, k, r, a, b)
<1>1. PICK d : Follows(x, y, d, u) /\ (d = 1 => ~By(x[1], u))
    BY DEF Keeps
<1>2. d \in {0, 1}
    BY <1>1 DEF Follows
<1>3. ASSUME NEW i \in 1..Len(y), By(y[i], u)
      PROVE  Fits(y[i], k, r) /\ a =< StepOf(y[i]) /\ StepOf(y[i]) < b
  <2>1. i + d \in 1..Len(x) /\ y[i] = x[i + d]
      BY <1>1, <1>3, FollowsBack
  <2> QED
      BY <1>3, <2>1 DEF Carries
<1>4. ASSUME NEW i \in 1..Len(y), NEW j \in 1..Len(y), i < j, By(y[i], u), By(y[j], u)
      PROVE  StepOf(y[i]) < StepOf(y[j])
  <2>1. i + d \in 1..Len(x) /\ y[i] = x[i + d]
      BY <1>1, <1>4, FollowsBack
  <2>2. j + d \in 1..Len(x) /\ y[j] = x[j + d]
      BY <1>1, <1>4, FollowsBack
  <2>3. i + d < j + d
      BY <1>2, <1>4
  <2>4. StepOf(x[i + d]) < StepOf(x[j + d])
      BY <1>4, <2>1, <2>2, <2>3 DEF Carries
  <2> QED
      BY <2>1, <2>2, <2>4
<1>5. ASSUME NEW n \in a..(b - 1)
      PROVE  \E i \in 1..Len(y) : By(y[i], u) /\ StepOf(y[i]) = n
  <2>1. PICK i \in 1..Len(x) : By(x[i], u) /\ StepOf(x[i]) = n
      BY DEF Carries
  <2>2. i > d
      BY <1>1, <1>2, <2>1
  <2>3. i - d \in 1..Len(y) /\ y[i - d] = x[i]
      BY <1>1, <2>2, FollowsOn
  <2> QED
      BY <2>1, <2>3
<1>6. a \in Nat /\ b \in Nat /\ a =< b
    BY DEF Carries
<1> QED
    BY <1>3, <1>4, <1>5, <1>6 DEF Carries

LEMMA QuietKeeps ==
    ASSUME NEW x, NEW y, NEW u, Keeps(x, y, u), \A i \in 1..Len(x) : ~By(x[i], u)
    PROVE  \A i \in 1..Len(y) : ~By(y[i], u)
<1>1. PICK d : Follows(x, y, d, u)
    BY DEF Keeps
<1>2. ASSUME NEW i \in 1..Len(y), By(y[i], u) PROVE FALSE
  <2>1. i + d \in 1..Len(x) /\ y[i] = x[i + d]
      BY <1>1, <1>2, FollowsBack
  <2> QED
      BY <1>2, <2>1
<1> QED
    BY <1>2

\* The first that is handled is the next step of the chain.
LEMMA CarriesTake ==
    ASSUME NEW x, NEW y, NEW u, Follows(x, y, 1, u), By(x[1], u), NEW k, NEW r,
           NEW a, NEW b, Carries(x, u, k, r, a, b)
    PROVE  Fits(x[1], k, r) /\ StepOf(x[1]) = a /\ Carries(y, u, k, r, a + 1, b)
<1>0. /\ Len(x) \in Nat /\ Len(y) \in Nat /\ 1 =< Len(x) /\ 1 \in 1..Len(x)
    BY DEF Follows
<1>1. /\ a \in Nat /\ b \in Nat /\ a =< b
      /\ Fits(x[1], k, r) /\ a =< StepOf(x[1]) /\ StepOf(x[1]) < b
    BY <1>0 DEF Carries
<1>2. StepOf(x[1]) \in Nat
    BY <1>1, StepIs
<1>3. a \in a..(b - 1)
    BY <1>1, <1>2
<1>4. PICK i \in 1..Len(x) : By(x[i], u) /\ StepOf(x[i]) = a
    BY <1>3 DEF Carries
<1>5. ASSUME NEW j \in 1..Len(x), By(x[j], u), j # 1
      PROVE  StepOf(x[1]) < StepOf(x[j]) /\ StepOf(x[j]) \in Nat
  <2>1. 1 < j
      BY <1>0, <1>5
  <2>2. StepOf(x[1]) < StepOf(x[j]) /\ Fits(x[j], k, r)
      BY <1>0, <1>5, <2>1 DEF Carries
  <2> QED
      BY <2>2, StepIs
<1>6. i = 1
    BY <1>1, <1>2, <1>4, <1>5
<1>7. StepOf(x[1]) = a
    BY <1>4, <1>6
<1>8. ASSUME NEW j \in 1..Len(y), By(y[j], u)
      PROVE  Fits(y[j], k, r) /\ a + 1 =< StepOf(y[j]) /\ StepOf(y[j]) < b
  <2>1. j + 1 \in 1..Len(x) /\ y[j] = x[j + 1] /\ j + 1 # 1
      BY <1>8, FollowsBack
  <2>2. StepOf(x[1]) < StepOf(y[j]) /\ StepOf(y[j]) \in Nat
      BY <1>5, <1>8, <2>1
  <2>3. Fits(y[j], k, r) /\ StepOf(y[j]) < b
      BY <1>8, <2>1 DEF Carries
  <2> QED
      BY <1>1, <1>7, <2>2, <2>3
<1>9. ASSUME NEW i1 \in 1..Len(y), NEW j \in 1..Len(y), i1 < j, By(y[i1], u), By(y[j], u)
      PROVE  StepOf(y[i1]) < StepOf(y[j])
  <2>1. i1 + 1 \in 1..Len(x) /\ y[i1] = x[i1 + 1]
      BY <1>9, FollowsBack
  <2>2. j + 1 \in 1..Len(x) /\ y[j] = x[j + 1] /\ i1 + 1 < j + 1
      BY <1>9, FollowsBack
  <2>3. StepOf(x[i1 + 1]) < StepOf(x[j + 1])
      BY <1>9, <2>1, <2>2 DEF Carries
  <2> QED
      BY <2>1, <2>2, <2>3
<1>10. ASSUME NEW n \in (a + 1)..(b - 1)
       PROVE  \E j \in 1..Len(y) : By(y[j], u) /\ StepOf(y[j]) = n
  <2>1. n \in a..(b - 1) /\ n # a
      BY <1>1
  <2>2. PICK j \in 1..Len(x) : By(x[j], u) /\ StepOf(x[j]) = n
      BY <2>1 DEF Carries
  <2>3. j > 1
      BY <1>0, <1>7, <2>1, <2>2
  <2>4. j - 1 \in 1..Len(y) /\ y[j - 1] = x[j]
      BY <2>3, FollowsOn
  <2> QED
      BY <2>2, <2>4
<1>11. a + 1 \in Nat /\ a + 1 =< b
    BY <1>1, <1>2, <1>7
<1> QED
    BY <1>1, <1>7, <1>8, <1>9, <1>10, <1>11 DEF Carries

\* The next step of the chain is added.
LEMMA CarriesAdds ==
    ASSUME NEW x, NEW y, NEW m, Adds(x, y, m), NEW u, By(m, u), NEW k, NEW r, NEW a,
           NEW b, Carries(x, u, k, r, a, b), Fits(m, k, r), StepOf(m) = b
    PROVE  Carries(y, u, k, r, a, b + 1)
<1>0. /\ Len(x) \in Nat /\ Len(y) = Len(x) + 1 /\ y[Len(x) + 1] = m
      /\ \A i \in 1..Len(x) : y[i] = x[i]
      /\ a \in Nat /\ b \in Nat /\ a =< b
    BY DEF Adds, Carries
<1>1. ASSUME NEW i \in 1..Len(x), By(y[i], u)
      PROVE  /\ Fits(y[i], k, r) /\ a =< StepOf(y[i]) /\ StepOf(y[i]) < b
             /\ StepOf(y[i]) \in Nat
  <2>1. Fits(y[i], k, r) /\ a =< StepOf(y[i]) /\ StepOf(y[i]) < b
      BY <1>0, <1>1 DEF Carries
  <2> QED
      BY <2>1, StepIs
<1>2. \A i \in 1..Len(y) : i \in 1..Len(x) \/ i = Len(x) + 1
    BY <1>0
<1>3. ASSUME NEW i \in 1..Len(y), By(y[i], u)
      PROVE  Fits(y[i], k, r) /\ a =< StepOf(y[i]) /\ StepOf(y[i]) < b + 1
  <2>1. CASE i \in 1..Len(x)
      BY <1>0, <1>1, <1>3, <2>1
  <2>2. CASE i = Len(x) + 1
      BY <1>0, <2>2
  <2> QED
      BY <1>2, <2>1, <2>2
<1>4. ASSUME NEW i \in 1..Len(y), NEW j \in 1..Len(y), i < j, By(y[i], u), By(y[j], u)
      PROVE  StepOf(y[i]) < StepOf(y[j])
  <2>1. i \in 1..Len(x)
      BY <1>0, <1>4
  <2>2. CASE j \in 1..Len(x)
      BY <1>0, <1>4, <2>1, <2>2 DEF Carries
  <2>3. CASE j = Len(x) + 1
      BY <1>0, <1>1, <1>4, <2>1, <2>3
  <2> QED
      BY <1>2, <2>2, <2>3
<1>5. ASSUME NEW n \in a..b
      PROVE  \E i \in 1..Len(y) : By(y[i], u) /\ StepOf(y[i]) = n
  <2>1. CASE n = b
    <3>1. Len(x) + 1 \in 1..Len(y) /\ By(y[Len(x) + 1], u) /\ StepOf(y[Len(x) + 1]) = n
        BY <1>0, <2>1
    <3> QED
        BY <3>1
  <2>2. CASE n # b
    <3>1. n \in a..(b - 1)
        BY <1>0, <2>2
    <3>2. PICK i \in 1..Len(x) : By(x[i], u) /\ StepOf(x[i]) = n
        BY <3>1 DEF Carries
    <3> QED
        BY <1>0, <3>2
  <2> QED
      BY <2>1, <2>2
<1>6. (b + 1) - 1 = b /\ b + 1 \in Nat /\ a =< b + 1
    BY <1>0
<1> QED
    BY <1>0, <1>3, <1>4, <1>5, <1>6 DEF Carries

\* The same is on its way.
LEMMA WayKeeps ==
    ASSUME NEW o, NEW q, NEW x, NEW y, NEW u, NEW v, NEW k, NEW r, NEW a, NEW b,
           Way(o, x, u, v, k, r, a, b), Keeps(x, y, u),
           q = o \/ ((\A e \in o : e.to # v) /\ (\A e \in q : e.to # v))
    PROVE  Way(q, y, u, v, k, r, a, b)
<1>1. \A n : Carries(x, u, k, r, a, n) => Carries(y, u, k, r, a, n)
    BY CarriesKeeps
<1> QED
    BY <1>1 DEF Way

\* A message is sent: it is under way or waits already.
LEMMA WaySends ==
    ASSUME NEW o, NEW q, NEW x, NEW y, NEW u, NEW v, NEW k, NEW r, NEW a, NEW b,
           Way(o, x, u, v, k, r, a, b), \A e \in o : e.to # v,
           NEW m, m.to = v, By(m, u), Fits(m, k, r), StepOf(m) = b,
           \/ q = {m} /\ Keeps(x, y, u)
           \/ (\A e \in q : e.to # v) /\ Adds(x, y, m)
    PROVE  Way(q, y, u, v, k, r, a, b + 1)
<1>1. Carries(x, u, k, r, a, b) /\ b \in Nat
    BY DEF Way, Carries
<1>2. (b + 1) - 1 = b /\ b + 1 \in Nat
    BY <1>1
<1>3. CASE q = {m} /\ Keeps(x, y, u)
  <2>1. Carries(y, u, k, r, a, b)
      BY <1>1, <1>3, CarriesKeeps
  <2>2. m \in q /\ \A f \in q : f = m
      BY <1>3
  <2> QED
      BY <1>2, <2>1, <2>2 DEF Way
<1>4. CASE (\A e \in q : e.to # v) /\ Adds(x, y, m)
  <2>1. Carries(y, u, k, r, a, b + 1)
      BY <1>1, <1>4, CarriesAdds
  <2> QED
      BY <1>4, <2>1 DEF Way
<1> QED
    BY <1>3, <1>4

\* The envelope that is under way reaches the relay.
LEMMA WayPosts ==
    ASSUME NEW o, NEW x, NEW y, NEW u, NEW v, NEW k, NEW r, NEW a, NEW b,
           Way(o, x, u, v, k, r, a, b), NEW m \in o, m.to = v, Adds(x, y, m)
    PROVE  Way({}, y, u, v, k, r, a, b)
<1>1. /\ By(m, u) /\ Fits(m, k, r) /\ b \in Nat /\ StepOf(m) = b - 1
      /\ Carries(x, u, k, r, a, b - 1)
    BY DEF Way
<1>2. Carries(y, u, k, r, a, (b - 1) + 1)
    BY <1>1, CarriesAdds
<1>3. (b - 1) + 1 = b
    BY <1>1
<1> QED
    BY <1>2, <1>3 DEF Way

\* The next step is handled.
LEMMA WayTakes ==
    ASSUME NEW o, NEW x, NEW y, NEW u, NEW v, NEW k, NEW r, NEW a, NEW b,
           Way(o, x, u, v, k, r, a, b), Follows(x, y, 1, u), By(x[1], u)
    PROVE  Fits(x[1], k, r) /\ StepOf(x[1]) = a /\ Way(o, y, u, v, k, r, a + 1, b)
<1>1. \A n : Carries(x, u, k, r, a, n) =>
          Fits(x[1], k, r) /\ StepOf(x[1]) = a /\ Carries(y, u, k, r, a + 1, n)
    BY CarriesTake
<1> QED
    BY <1>1 DEF Way

\* Silence is a chain without steps.
LEMMA QuietWay ==
    ASSUME NEW o, NEW x, NEW u, NEW v, NEW k, NEW r, Quiet(o, x, u, v)
    PROVE  Way(o, x, u, v, k, r, 0, 0)
<1>1. \A n : n \notin 0..(0 - 1)
    OBVIOUS
<1>2. Carries(x, u, k, r, 0, 0)
    BY <1>1 DEF Carries, Quiet
<1> QED
    BY <1>2 DEF Way, Quiet
-----------------------------------------------------------------------------
(***************************************************************************)
(* What the steps do to what waits.                                        *)
(***************************************************************************)
LEMMA LineIs ==
    ASSUME NEW s \in Seq(Envelopes), NEW t \in Seq(Envelopes)
    PROVE  /\ s \o t \in Seq(Envelopes)
           /\ Len(s) \in Nat /\ Len(t) \in Nat /\ Len(s \o t) = Len(s) + Len(t)
           /\ \A i \in 1..(Len(s) + Len(t)) :
                (s \o t)[i] = IF i =< Len(s) THEN s[i] ELSE t[i - Len(s)]
BY ConcatProperties, LenProperties

LEMMA SameKeeps ==
    ASSUME NEW x \in Seq(Envelopes), NEW u
    PROVE  Keeps(x, x, u) /\ Follows(x, x, 0, u)
<1>1. Len(x) \in Nat
    BY LenProperties
<1>2. Follows(x, x, 0, u)
    BY <1>1 DEF Follows
<1> QED
    BY <1>2 DEF Keeps

\* The envelope m is queued behind t.
LEMMA LineAdds ==
    ASSUME NEW s \in Seq(Envelopes), NEW t \in Seq(Envelopes),
           NEW w \in Seq(Envelopes), NEW m, Adds(t, w, m)
    PROVE  Adds(s \o t, s \o w, m)
<1>1. PICK x : x = s \o t
    OBVIOUS
<1>2. PICK y : y = s \o w
    OBVIOUS
<1>3. /\ Len(s) \in Nat /\ Len(t) \in Nat /\ Len(x) = Len(s) + Len(t)
      /\ \A i \in 1..(Len(s) + Len(t)) :
           x[i] = IF i =< Len(s) THEN s[i] ELSE t[i - Len(s)]
    BY <1>1, LineIs
<1>4. /\ Len(w) \in Nat /\ Len(y) = Len(s) + Len(w)
      /\ \A i \in 1..(Len(s) + Len(w)) :
           y[i] = IF i =< Len(s) THEN s[i] ELSE w[i - Len(s)]
    BY <1>2, LineIs
<1>5. /\ Len(w) = Len(t) + 1 /\ w[Len(t) + 1] = m
      /\ \A i \in 1..Len(t) : w[i] = t[i]
    BY DEF Adds
<1>6. y[Len(x) + 1] = m
  <2>1. y[Len(x) + 1] = w[Len(x) + 1 - Len(s)] /\ Len(x) + 1 - Len(s) = Len(t) + 1
      BY <1>3, <1>4, <1>5
  <2> QED
      BY <1>5, <2>1
<1>7. ASSUME NEW i \in 1..Len(x) PROVE y[i] = x[i]
  <2>1. CASE i =< Len(s)
      BY <1>3, <1>4, <1>5, <2>1
  <2>2. CASE ~(i =< Len(s))
    <3>1. /\ i - Len(s) \in 1..Len(t) /\ x[i] = t[i - Len(s)]
          /\ y[i] = w[i - Len(s)]
        BY <1>3, <1>4, <1>5, <2>2
    <3> QED
        BY <1>5, <3>1
  <2> QED
      BY <2>1, <2>2
<1>8. Len(x) \in Nat /\ Len(y) = Len(x) + 1
    BY <1>3, <1>4, <1>5
<1> QED
    BY <1>1, <1>2, <1>6, <1>7, <1>8 DEF Adds

\* What is added is no message of u.
LEMMA AddsKeeps ==
    ASSUME NEW x, NEW y, NEW m, Adds(x, y, m), NEW u, ~By(m, u)
    PROVE  Keeps(x, y, u)
<1>1. /\ Len(x) \in Nat /\ Len(y) = Len(x) + 1 /\ y[Len(x) + 1] = m
      /\ \A i \in 1..Len(x) : y[i] = x[i]
    BY DEF Adds
<1>2. \A i \in 1..Len(y) : i > Len(x) - 0 => i = Len(x) + 1
    BY <1>1
<1>3. Follows(x, y, 0, u)
    BY <1>1, <1>2 DEF Follows
<1> QED
    BY <1>3 DEF Keeps

\* Envelopes that are no messages of u are queued behind t, and the first d
\* envelopes of s are gone.
LEMMA LineFollows ==
    ASSUME NEW s \in Seq(Envelopes), NEW t \in Seq(Envelopes),
           NEW z \in Seq(Envelopes), NEW w \in Seq(Envelopes), NEW u, NEW d \in {0, 1},
           Len(z) = Len(s) - d, d =< Len(s), \A i \in 1..Len(z) : z[i] = s[i + d],
           Follows(t, w, 0, u)
    PROVE  Follows(s \o t, z \o w, d, u)
<1>1. PICK x : x = s \o t
    OBVIOUS
<1>2. PICK y : y = z \o w
    OBVIOUS
<1>3. /\ Len(s) \in Nat /\ Len(t) \in Nat /\ Len(x) = Len(s) + Len(t)
      /\ \A i \in 1..(Len(s) + Len(t)) :
           x[i] = IF i =< Len(s) THEN s[i] ELSE t[i - Len(s)]
    BY <1>1, LineIs
<1>4. /\ Len(w) \in Nat /\ Len(z) \in Nat /\ Len(y) = Len(z) + Len(w)
      /\ \A i \in 1..(Len(z) + Len(w)) :
           y[i] = IF i =< Len(z) THEN z[i] ELSE w[i - Len(z)]
    BY <1>2, LineIs
<1>5. /\ Len(t) =< Len(w) /\ \A i \in 1..Len(t) : w[i] = t[i]
      /\ \A i \in 1..Len(w) : i > Len(t) => ~By(w[i], u)
  <2>1. /\ Len(t) - 0 =< Len(w) /\ \A i \in 1..(Len(t) - 0) : w[i] = t[i + 0]
        /\ \A i \in 1..Len(w) : i > Len(t) - 0 => ~By(w[i], u)
      BY DEF Follows
  <2> QED
      BY <1>3, <2>1
<1>6. ASSUME NEW i \in 1..(Len(x) - d) PROVE y[i] = x[i + d]
  <2>1. CASE i =< Len(z)
    <3>0. i \in 1..Len(z) /\ i \in 1..(Len(z) + Len(w))
        BY <1>4, <2>1
    <3>1. y[i] = z[i]
        BY <1>4, <2>1, <3>0
    <3>2. i + d \in 1..(Len(s) + Len(t)) /\ i + d =< Len(s)
        BY <1>3, <2>1
    <3>3. x[i + d] = s[i + d]
        BY <1>3, <3>2
    <3> QED
        BY <3>0, <3>1, <3>3
  <2>2. CASE ~(i =< Len(z))
    <3>1. /\ i - Len(z) \in 1..Len(t) /\ y[i] = w[i - Len(z)]
        BY <1>3, <1>4, <1>5, <2>2
    <3>2. i + d \in 1..(Len(s) + Len(t)) /\ ~(i + d =< Len(s))
          /\ (i + d) - Len(s) = i - Len(z)
        BY <1>3, <1>4, <2>2
    <3>3. x[i + d] = t[i - Len(z)]
        BY <1>3, <3>2
    <3> QED
        BY <1>5, <3>1, <3>3
  <2> QED
      BY <2>1, <2>2
<1>7. ASSUME NEW i \in 1..Len(y), i > Len(x) - d PROVE ~By(y[i], u)
  <2>1. /\ i - Len(z) \in 1..Len(w) /\ i - Len(z) > Len(t)
        /\ y[i] = w[i - Len(z)]
      BY <1>3, <1>4, <1>5, <1>7
  <2> QED
      BY <1>5, <2>1
<1>8. /\ Len(x) \in Nat /\ Len(y) \in Nat /\ d =< Len(x) /\ Len(x) - d =< Len(y)
    BY <1>3, <1>4, <1>5
<1>9. Follows(x, y, d, u)
    BY <1>6, <1>7, <1>8 DEF Follows
<1> QED
    BY <1>1, <1>2, <1>9
-----------------------------------------------------------------------------
(***************************************************************************)
(* What the ratchet does.                                                  *)
(***************************************************************************)
LEMMA EncryptIs ==
    ASSUME NEW s \in Sessions
    PROVE  /\ after_encrypt(s) \in Sessions /\ ciphertext(s) \in Ciphertexts
           /\ after_encrypt(s).dh = s.dh /\ after_encrypt(s).their = s.their
           /\ after_encrypt(s).recv = s.recv
           /\ after_encrypt(s).send.root = s.send.root
           /\ after_encrypt(s).send.step = s.send.step + 1
           /\ ciphertext(s).ratchet_key = s.dh /\ ciphertext(s).key = s.send
           /\ s.send.step \in Nat
<1>1. s.send \in Chains
    BY DEF Sessions
<1>2. /\ ratchet_chain_key(s.send).root = s.send.root
      /\ ratchet_chain_key(s.send).step = s.send.step + 1 /\ s.send.step \in Nat
    BY <1>1 DEF Chains, ratchet_chain_key
<1>3. after_encrypt(s) = [s EXCEPT !.send = ratchet_chain_key(s.send)]
    BY DEF after_encrypt
<1>4. /\ after_encrypt(s).dh = s.dh /\ after_encrypt(s).their = s.their
      /\ after_encrypt(s).recv = s.recv
      /\ after_encrypt(s).send = ratchet_chain_key(s.send)
    BY <1>3 DEF Sessions
<1>5. ciphertext(s).ratchet_key = s.dh /\ ciphertext(s).key = s.send
    BY DEF ciphertext
<1> QED
    BY <1>2, <1>4, <1>5, Encrypting

LEMMA ChainIs ==
    ASSUME NEW c \in Chains, NEW d \in Chains, c.root = d.root, c.step = d.step
    PROVE  c = d
BY DEF Chains

LEMMA DecryptIs ==
    ASSUME NEW s \in Sessions, NEW m \in Ciphertexts, m.ratchet_key = s.their,
           m.key.root = s.recv.root, m.key.step = s.recv.step
    PROVE  /\ decrypts(s, m) /\ after_decrypt(s, m) \in Sessions
           /\ after_decrypt(s, m).dh = s.dh /\ after_decrypt(s, m).their = s.their
           /\ after_decrypt(s, m).send = s.send
           /\ after_decrypt(s, m).recv.root = s.recv.root
           /\ after_decrypt(s, m).recv.step = s.recv.step + 1
           /\ s.recv.step \in Nat
<1>1. s.recv \in Chains /\ m.key \in Chains
    BY DEF Sessions, Ciphertexts
<1>2. m.key = s.recv
    BY <1>1, ChainIs
<1>3. follow_ratchet_key(s, m) = s
    BY DEF follow_ratchet_key, NewRatchetKey
<1>4. decrypts(s, m)
    BY <1>2, <1>3 DEF decrypts
<1>5. after_decrypt(s, m) = [s EXCEPT !.recv = ratchet_chain_key(s.recv)]
    BY <1>3 DEF after_decrypt
<1>6. /\ ratchet_chain_key(s.recv).root = s.recv.root
      /\ ratchet_chain_key(s.recv).step = s.recv.step + 1 /\ s.recv.step \in Nat
    BY <1>1 DEF Chains, ratchet_chain_key
<1>7. /\ after_decrypt(s, m).dh = s.dh /\ after_decrypt(s, m).their = s.their
      /\ after_decrypt(s, m).send = s.send
      /\ after_decrypt(s, m).recv = ratchet_chain_key(s.recv)
    BY <1>5 DEF Sessions
<1> QED
    BY <1>4, <1>6, <1>7, Decrypting

LEMMA BeginIs ==
    ASSUME NEW a \in Keys, NEW p \in Keys
    PROVE  /\ new_initiator(a, p) \in Sessions
           /\ new_initiator(a, p).dh = a /\ new_initiator(a, p).their = p
           /\ new_initiator(a, p).send.root = Root(a, p)
           /\ new_initiator(a, p).send.step = 0
           /\ new_initiator(a, p).recv.root = <<>>
           /\ new_initiator(a, p).recv.step = 0
           /\ new_responder(a, p) \in Sessions
           /\ new_responder(a, p).dh = p /\ new_responder(a, p).their = a
           /\ new_responder(a, p).recv.root = Root(a, p)
           /\ new_responder(a, p).recv.step = 0
           /\ new_responder(a, p).send.root = <<>>
           /\ new_responder(a, p).send.step = 0
           /\ Root(a, p) # <<>>
<1>1. {p, a} = {a, p}
    OBVIOUS
<1>2. PICK r : r = Root(a, p)
    OBVIOUS
<1>3. /\ derive_chain_keys(<<DH(a, p)>>, {a}) = r
      /\ derive_chain_keys(<<DH(p, a)>>, {a}) = r
    BY <1>1, <1>2, Zenon DEF derive_chain_keys, DH, Root
<1>4. new_initiator(a, p) = [dh |-> a, their |-> p, root |-> r,
                             send |-> ChainOf(r), recv |-> ZeroKey,
                             initiator |-> TRUE]
    BY <1>3, Zenon DEF new_initiator
<1>5. new_responder(a, p) = [dh |-> p, their |-> a, root |-> r,
                             send |-> ZeroKey, recv |-> ChainOf(r),
                             initiator |-> FALSE]
    BY <1>3, Zenon DEF new_responder
<1>6. /\ ChainOf(r).root = r /\ ChainOf(r).step = 0
      /\ ZeroKey.root = <<>> /\ ZeroKey.step = 0
    BY DEF ChainOf, ZeroKey
<1>7. r # <<>>
  <2> DEFINE K == SUBSET Keys
  <2>1. <<{a, p}>> \in Seq(K) /\ {a} \in K
      OBVIOUS
  <2> HIDE DEF K
  <2> QED
      BY <1>2, <2>1, AppendProperties DEF Root
<1>8. PICK s : s = new_initiator(a, p)
    OBVIOUS
<1>9. PICK w : w = new_responder(a, p)
    OBVIOUS
<1>10. /\ s.dh = a /\ s.their = p /\ s.send = ChainOf(r) /\ s.recv = ZeroKey
    BY <1>4, <1>8
<1>11. /\ w.dh = p /\ w.their = a /\ w.send = ZeroKey /\ w.recv = ChainOf(r)
    BY <1>5, <1>9
<1>12. s \in Sessions /\ w \in Sessions
    BY <1>8, <1>9, NewSessions
<1> QED
    BY <1>2, <1>6, <1>7, <1>8, <1>9, <1>10, <1>11, <1>12, Zenon
-----------------------------------------------------------------------------
(***************************************************************************)
(* What is on its way between two users, as they send and receive.         *)
(***************************************************************************)
\* The same of u's envelopes to v is under way.
Held(o, e, v) ==
    e = o \/ ((\A m \in o : m.to # v) /\ (\A m \in e : m.to # v))

\* m is the next message of u to v: under way, or behind those that wait.
Sends(o, x, e, y, m, u, v) ==
    /\ m.to = v /\ By(m, u) /\ \A f \in o : f.to # v
    /\ \/ e = {m} /\ Keeps(x, y, u)
       \/ (\A f \in e : f.to # v) /\ Adds(x, y, m)

LEMMA LinkKeeps ==
    ASSUME NEW u, NEW v, NEW s, NEW w, NEW p, NEW o, NEW x, NEW q, NEW z,
           Link(u, v, s, w, p, o, x, q, z), NEW o1, NEW x1, NEW q1, NEW z1,
           Keeps(x, x1, u), Keeps(z, z1, v), Held(o, o1, v), Held(q, q1, u)
    PROVE  Link(u, v, s, w, p, o1, x1, q1, z1)
<1>1. Way(o1, x1, u, v, s.dh, s.send.root, Taken(w), s.send.step)
    BY WayKeeps DEF Link, Held
<1>2. Way(q1, z1, v, u, p, <<>>, s.recv.step, Given(w))
    BY WayKeeps DEF Link, Held
<1> QED
    BY <1>1, <1>2 DEF Link

\* The first message of u.
LEMMA LinkBegins ==
    ASSUME NEW u, NEW v, NEW a \in Keys, NEW p \in Keys, NEW s,
           s = new_initiator(a, p),
           NEW o, NEW x, NEW q, NEW z, Quiet(o, x, u, v), Quiet(q, z, v, u),
           NEW m, m.type = "PreKeyBundle", m.content = ciphertext(s),
           NEW o1, NEW x1, NEW z1, Sends(o, x, o1, x1, m, u, v), Keeps(z, z1, v)
    PROVE  Link(u, v, after_encrypt(s), NoSession, p, o1, x1, q, z1)
<1>1. /\ s \in Sessions /\ s.dh = a /\ s.their = p
      /\ s.send.root = Root(a, p) /\ s.send.step = 0
      /\ s.recv.root = <<>> /\ s.recv.step = 0 /\ Root(a, p) # <<>>
    BY BeginIs
<1>2. PICK t : t = after_encrypt(s)
    OBVIOUS
<1>3. /\ t \in Sessions /\ t.dh = s.dh /\ t.their = s.their /\ t.recv = s.recv
      /\ t.send.root = s.send.root /\ t.send.step = s.send.step + 1
      /\ ciphertext(s) \in Ciphertexts
      /\ ciphertext(s).ratchet_key = s.dh /\ ciphertext(s).key = s.send
    BY <1>1, <1>2, EncryptIs
<1>4. Fits(m, a, Root(a, p)) /\ StepOf(m) = 0
    BY <1>1, <1>3 DEF Fits, StepOf
<1>5. Way(o, x, u, v, a, Root(a, p), 0, 0)
    BY QuietWay
<1>6. Way(o1, x1, u, v, a, Root(a, p), 0, 0 + 1)
    BY <1>4, <1>5, WaySends DEF Sends
<1>7. Way(q, z, v, u, p, <<>>, 0, 0)
    BY QuietWay
<1>8. Way(q, z1, v, u, p, <<>>, 0, 0)
    BY <1>7, WayKeeps
<1>9. Match(t, NoSession, p)
    BY <1>1, <1>3 DEF Match
<1>10. Taken(NoSession) = 0 /\ Given(NoSession) = 0
    BY DEF Taken, Given
<1>11. t.dh = a /\ t.send.root = Root(a, p) /\ t.send.step = 0 + 1 /\ t.recv.step = 0
    BY <1>1, <1>3
<1>12. /\ Way(o1, x1, u, v, t.dh, t.send.root, Taken(NoSession), t.send.step)
       /\ Way(q, z1, v, u, p, <<>>, t.recv.step, Given(NoSession))
    BY <1>6, <1>8, <1>10, <1>11, Zenon
<1> QED
    BY <1>2, <1>9, <1>12 DEF Link

\* The next message of u.
LEMMA LinkSends ==
    ASSUME NEW u, NEW v, NEW s, NEW w, NEW p, NEW o, NEW x, NEW q, NEW z,
           Link(u, v, s, w, p, o, x, q, z),
           NEW m, m.type = "Normal", m.content = ciphertext(s),
           NEW o1, NEW x1, NEW z1, Sends(o, x, o1, x1, m, u, v), Keeps(z, z1, v)
    PROVE  Link(u, v, after_encrypt(s), w, p, o1, x1, q, z1)
<1>1. s \in Sessions /\ s.send.step # 0 /\ Match(s, w, p)
    BY DEF Link, Match
<1>2. PICK t : t = after_encrypt(s)
    OBVIOUS
<1>3. /\ t \in Sessions /\ t.dh = s.dh /\ t.their = s.their /\ t.recv = s.recv
      /\ t.send.root = s.send.root /\ t.send.step = s.send.step + 1
      /\ ciphertext(s) \in Ciphertexts
      /\ ciphertext(s).ratchet_key = s.dh /\ ciphertext(s).key = s.send
      /\ s.send.step \in Nat
    BY <1>1, <1>2, EncryptIs
<1>4. Fits(m, s.dh, s.send.root) /\ StepOf(m) = s.send.step
    BY <1>1, <1>3 DEF Fits, StepOf
<1>5. Way(o1, x1, u, v, s.dh, s.send.root, Taken(w), s.send.step + 1)
    BY <1>4, WaySends DEF Sends, Link
<1>6. Way(q, z1, v, u, p, <<>>, s.recv.step, Given(w))
    BY WayKeeps DEF Link
<1>7. Match(t, w, p)
  <2>1. t.send.step # 0
      BY <1>3
  <2> QED
      BY <1>1, <1>3, <2>1 DEF Match
<1>8. /\ Way(o1, x1, u, v, t.dh, t.send.root, Taken(w), t.send.step)
      /\ Way(q, z1, v, u, p, <<>>, t.recv.step, Given(w))
    BY <1>3, <1>5, <1>6, Zenon
<1> QED
    BY <1>2, <1>7, <1>8 DEF Link

\* The next message of v.
LEMMA LinkReplies ==
    ASSUME NEW u, NEW v, NEW s, NEW w, NEW p, NEW o, NEW x, NEW q, NEW z,
           Link(u, v, s, w, p, o, x, q, z), w # NoSession,
           NEW m, m.type = "Normal", m.content = ciphertext(w),
           NEW q1, NEW x1, NEW z1, Sends(q, z, q1, z1, m, v, u), Keeps(x, x1, u)
    PROVE  Link(u, v, s, after_encrypt(w), p, o, x1, q1, z1)
<1>1. /\ w \in Sessions /\ w.dh = p /\ w.send.root = <<>> /\ Match(s, w, p)
      /\ Taken(w) = w.recv.step /\ Given(w) = w.send.step
    BY DEF Link, Match, Taken, Given
<1>2. PICK t : t = after_encrypt(w)
    OBVIOUS
<1>3. /\ t \in Sessions /\ t.dh = w.dh /\ t.their = w.their /\ t.recv = w.recv
      /\ t.send.root = w.send.root /\ t.send.step = w.send.step + 1
      /\ ciphertext(w) \in Ciphertexts
      /\ ciphertext(w).ratchet_key = w.dh /\ ciphertext(w).key = w.send
      /\ w.send.step \in Nat /\ t # NoSession
    BY <1>1, <1>2, EncryptIs, NoSessionAssumption
<1>4. Fits(m, p, <<>>) /\ StepOf(m) = w.send.step
    BY <1>1, <1>3 DEF Fits, StepOf
<1>5. Way(q1, z1, v, u, p, <<>>, s.recv.step, w.send.step + 1)
    BY <1>1, <1>4, WaySends DEF Sends, Link
<1>6. Way(o, x1, u, v, s.dh, s.send.root, w.recv.step, s.send.step)
    BY <1>1, WayKeeps DEF Link
<1>7. Match(s, t, p)
    BY <1>1, <1>3 DEF Match
<1>8. Taken(t) = w.recv.step /\ Given(t) = w.send.step + 1
    BY <1>3 DEF Taken, Given
<1>9. /\ Way(o, x1, u, v, s.dh, s.send.root, Taken(t), s.send.step)
      /\ Way(q1, z1, v, u, p, <<>>, s.recv.step, Given(t))
    BY <1>5, <1>6, <1>8, Zenon
<1> QED
    BY <1>2, <1>7, <1>9 DEF Link

\* The relay has the envelope under way, of u or of v.
LEMMA LinkPosts ==
    ASSUME NEW u, NEW v, NEW s, NEW w, NEW p, NEW o, NEW x, NEW q, NEW z,
           Link(u, v, s, w, p, o, x, q, z), NEW x1, NEW z1, NEW m
    PROVE  /\ m \in o /\ m.to = v /\ Adds(x, x1, m) /\ Keeps(z, z1, v)
                => Link(u, v, s, w, p, {}, x1, q, z1)
           /\ m \in q /\ m.to = u /\ Adds(z, z1, m) /\ Keeps(x, x1, u)
                => Link(u, v, s, w, p, o, x1, {}, z1)
<1>1. ASSUME m \in o, m.to = v, Adds(x, x1, m), Keeps(z, z1, v)
      PROVE  Link(u, v, s, w, p, {}, x1, q, z1)
  <2>1. Way({}, x1, u, v, s.dh, s.send.root, Taken(w), s.send.step)
      BY <1>1, WayPosts DEF Link
  <2>2. Way(q, z1, v, u, p, <<>>, s.recv.step, Given(w))
      BY <1>1, WayKeeps DEF Link
  <2> QED
      BY <2>1, <2>2 DEF Link
<1>2. ASSUME m \in q, m.to = u, Adds(z, z1, m), Keeps(x, x1, u)
      PROVE  Link(u, v, s, w, p, o, x1, {}, z1)
  <2>1. Way({}, z1, v, u, p, <<>>, s.recv.step, Given(w))
      BY <1>2, WayPosts DEF Link
  <2>2. Way(o, x1, u, v, s.dh, s.send.root, Taken(w), s.send.step)
      BY <1>2, WayKeeps DEF Link
  <2> QED
      BY <2>1, <2>2 DEF Link
<1> QED
    BY <1>1, <1>2

\* u handles the next message of v: it is Normal, decrypts, and the chain of u
\* follows.
LEMMA LinkReceives ==
    ASSUME NEW u, NEW v, NEW s, NEW w, NEW p, NEW o, NEW x, NEW q, NEW z,
           Link(u, v, s, w, p, o, x, q, z), NEW x1, NEW z1,
           Follows(z, z1, 1, v), By(z[1], v), Keeps(x, x1, u), NEW m, m = z[1].content
    PROVE  /\ z[1].type # "PreKeyBundle" /\ s # NoSession /\ decrypts(s, m)
           /\ Link(u, v, after_decrypt(s, m), w, p, o, x1, q, z1)
<1>1. /\ s \in Sessions /\ s.their = p /\ s.recv.root = <<>> /\ Match(s, w, p)
      /\ s # NoSession
    BY NoSessionAssumption DEF Link, Match
<1>2. /\ Fits(z[1], p, <<>>) /\ StepOf(z[1]) = s.recv.step
      /\ Way(q, z1, v, u, p, <<>>, s.recv.step + 1, Given(w))
    BY WayTakes DEF Link
<1>3. /\ m \in Ciphertexts /\ m.ratchet_key = p /\ m.key.root = <<>>
      /\ m.key.step = s.recv.step /\ z[1].type # "PreKeyBundle"
    BY <1>2 DEF Fits, StepOf
<1>4. PICK t : t = after_decrypt(s, m)
    OBVIOUS
<1>5. /\ decrypts(s, m) /\ t \in Sessions /\ t.dh = s.dh /\ t.their = s.their
      /\ t.send = s.send /\ t.recv.root = s.recv.root
      /\ t.recv.step = s.recv.step + 1
    BY <1>1, <1>3, <1>4, DecryptIs
<1>6. Match(t, w, p)
    BY <1>1, <1>5 DEF Match
<1>7. Way(o, x1, u, v, s.dh, s.send.root, Taken(w), s.send.step)
    BY WayKeeps DEF Link
<1>8. /\ Way(o, x1, u, v, t.dh, t.send.root, Taken(w), t.send.step)
      /\ Way(q, z1, v, u, p, <<>>, t.recv.step, Given(w))
    BY <1>2, <1>5, <1>7, Zenon
<1>9. Link(u, v, t, w, p, o, x1, q, z1)
    BY <1>6, <1>8 DEF Link
<1> QED
    BY <1>1, <1>3, <1>4, <1>5, <1>9

\* v handles the first message of u, which starts its session.
LEMMA LinkAnswers ==
    ASSUME NEW u, NEW v, NEW s, NEW w, NEW p, NEW o, NEW x, NEW q, NEW z,
           Link(u, v, s, w, p, o, x, q, z), NEW x1, NEW z1,
           Follows(x, x1, 1, u), By(x[1], u), Keeps(z, z1, v), NEW m, m = x[1].content,
           x[1].type = "PreKeyBundle" \/ w = NoSession,
           NEW b, b = new_responder(m.ratchet_key, p)
    PROVE  /\ x[1].type = "PreKeyBundle" /\ decrypts(b, m)
           /\ Link(u, v, s, after_decrypt(b, m), p, o, x1, q, z1)
<1>1. /\ s \in Sessions /\ p \in Keys /\ s.their = p /\ s.dh \in Keys
      /\ s.send.root = Root(s.dh, p) /\ Match(s, w, p)
      /\ w # NoSession => w.recv.step # 0
    BY DEF Link, Match, Sessions
<1>2. /\ Fits(x[1], s.dh, s.send.root) /\ StepOf(x[1]) = Taken(w)
      /\ Way(o, x1, u, v, s.dh, s.send.root, Taken(w) + 1, s.send.step)
    BY WayTakes DEF Link
<1>3. /\ m \in Ciphertexts /\ m.ratchet_key = s.dh /\ m.key.root = s.send.root
      /\ m.key.step = Taken(w)
      /\ x[1].type = "PreKeyBundle" <=> s.send.root # <<>> /\ Taken(w) = 0
    BY <1>2 DEF Fits, StepOf
<1>4. /\ b \in Sessions /\ b.dh = p /\ b.their = s.dh
      /\ b.recv.root = s.send.root /\ b.recv.step = 0
      /\ b.send.root = <<>> /\ b.send.step = 0 /\ s.send.root # <<>>
    BY <1>1, <1>3, BeginIs
<1>5. w = NoSession /\ x[1].type = "PreKeyBundle" /\ Taken(w) = 0 /\ Given(w) = 0
    BY <1>1, <1>3, <1>4 DEF Taken, Given
<1>6. PICK t : t = after_decrypt(b, m)
    OBVIOUS
<1>7. /\ decrypts(b, m) /\ t \in Sessions /\ t.dh = b.dh /\ t.their = b.their
      /\ t.send = b.send /\ t.recv.root = b.recv.root
      /\ t.recv.step = b.recv.step + 1
    BY <1>3, <1>4, <1>5, <1>6, DecryptIs
<1>8. t # NoSession /\ t.recv.step = 0 + 1 /\ t.send.step = 0
    BY <1>4, <1>7, NoSessionAssumption
<1>9. Match(s, t, p)
    BY <1>1, <1>4, <1>7, <1>8 DEF Match
<1>10. Taken(t) = 0 + 1 /\ Given(t) = 0
    BY <1>8 DEF Taken, Given
<1>11. Way(q, z1, v, u, p, <<>>, s.recv.step, Given(w))
    BY WayKeeps DEF Link
<1>12. /\ Way(o, x1, u, v, s.dh, s.send.root, Taken(t), s.send.step)
       /\ Way(q, z1, v, u, p, <<>>, s.recv.step, Given(t))
    BY <1>2, <1>5, <1>10, <1>11, Zenon
<1>13. Link(u, v, s, t, p, o, x1, q, z1)
    BY <1>9, <1>12 DEF Link
<1> QED
    BY <1>5, <1>6, <1>7, <1>13

\* v handles a later message of u.
LEMMA LinkFollows ==
    ASSUME NEW u, NEW v, NEW s, NEW w, NEW p, NEW o, NEW x, NEW q, NEW z,
           Link(u, v, s, w, p, o, x, q, z), NEW x1, NEW z1, w # NoSession,
           Follows(x, x1, 1, u), By(x[1], u), Keeps(z, z1, v), NEW m, m = x[1].content
    PROVE  /\ decrypts(w, m)
           /\ Link(u, v, s, after_decrypt(w, m), p, o, x1, q, z1)
<1>1. /\ w \in Sessions /\ w.their = s.dh /\ w.recv.root = s.send.root
      /\ Match(s, w, p) /\ Taken(w) = w.recv.step /\ Given(w) = w.send.step
    BY DEF Link, Match, Taken, Given
<1>2. /\ Fits(x[1], s.dh, s.send.root) /\ StepOf(x[1]) = Taken(w)
      /\ Way(o, x1, u, v, s.dh, s.send.root, Taken(w) + 1, s.send.step)
    BY WayTakes DEF Link
<1>3. /\ m \in Ciphertexts /\ m.ratchet_key = w.their
      /\ m.key.root = w.recv.root /\ m.key.step = w.recv.step
    BY <1>1, <1>2 DEF Fits, StepOf
<1>4. PICK t : t = after_decrypt(w, m)
    OBVIOUS
<1>5. /\ decrypts(w, m) /\ t \in Sessions /\ t.dh = w.dh /\ t.their = w.their
      /\ t.send = w.send /\ t.recv.root = w.recv.root
      /\ t.recv.step = w.recv.step + 1 /\ w.recv.step \in Nat
    BY <1>1, <1>3, <1>4, DecryptIs
<1>6. t # NoSession /\ t.recv.step # 0
    BY <1>5, NoSessionAssumption
<1>7. Match(s, t, p)
    BY <1>1, <1>5, <1>6 DEF Match
<1>8. Taken(t) = Taken(w) + 1 /\ Given(t) = Given(w)
    BY <1>1, <1>5, <1>6 DEF Taken, Given
<1>9. Way(q, z1, v, u, p, <<>>, s.recv.step, Given(w))
    BY WayKeeps DEF Link
<1>10. /\ Way(o, x1, u, v, s.dh, s.send.root, Taken(t), s.send.step)
       /\ Way(q, z1, v, u, p, <<>>, s.recv.step, Given(t))
    BY <1>2, <1>8, <1>9, Zenon
<1>11. Link(u, v, s, t, p, o, x1, q, z1)
    BY <1>7, <1>10 DEF Link
<1> QED
    BY <1>4, <1>5, <1>11
-----------------------------------------------------------------------------
(***************************************************************************)
(* What the steps do to the lines.                                         *)
(***************************************************************************)
LEMMA PostFollows ==
    ASSUME TypeOK, NEW env, Posted(env), env.to \in Users, NEW u, NEW v \in Users,
           ~(env.to = v /\ By(env, u))
    PROVE  Follows(queue[v], queue'[v], 0, u)
<1>1. queue[v] \in Seq(Envelopes) /\ Len(queue[v]) \in Nat
    BY LenProperties DEF TypeOK
<1>2. CASE env.to # v
  <2>1. queue'[v] = queue[v]
      BY <1>2 DEF Posted
  <2> QED
      BY <1>1, <2>1, SameKeeps
<1>3. CASE env.to = v
  <2>1. /\ Len(queue'[v]) = Len(queue[v]) + 1 /\ queue'[v][Len(queue[v]) + 1] = env
        /\ \A i \in 1..Len(queue[v]) : queue'[v][i] = queue[v][i]
      BY <1>3 DEF Posted
  <2>2. \A i \in 1..Len(queue'[v]) : i > Len(queue[v]) - 0 => ~By(queue'[v][i], u)
    <3>1. \A i \in 1..Len(queue'[v]) : i > Len(queue[v]) - 0 => i = Len(queue[v]) + 1
        BY <1>1, <2>1
    <3> QED
        BY <1>3, <2>1, <3>1
  <2>3. /\ Len(queue'[v]) \in Nat /\ 0 =< Len(queue[v])
        /\ Len(queue[v]) - 0 =< Len(queue'[v])
        /\ \A i \in 1..(Len(queue[v]) - 0) : queue'[v][i] = queue[v][i + 0]
      BY <1>1, <2>1
  <2> QED
      BY <1>1, <2>2, <2>3 DEF Follows
<1> QED
    BY <1>2, <1>3

\* A receipt is no message.
LEMMA ReceiptIsNone ==
    ASSUME NEW m, m.type = "Receipt", NEW u
    PROVE  ~By(m, u)
BY DEF By, IsMessage, MessageTypes

LEMMA FetchFollows ==
    ASSUME TypeOK, NEW x \in Users, FetchedBy(x), NEW u, NEW v \in Users
    PROVE  /\ v # x => Follows(queue[v], queue'[v], 0, u)
           /\ \A i \in 1..Len(queue'[x]) : ~By(queue'[x][i], u)
           /\ Len(queue'[v]) \in Nat
<1>1. \A w \in Users : \A i \in 1..Len(queue'[w]) :
        NewReceipt(x, w, queue'[w][i]) => ~By(queue'[w][i], u)
    BY ReceiptIsNone DEF NewReceipt, IsReceipt
<1>2. \A w \in Users : Len(queue[w]) \in Nat /\ Len(queue'[w]) \in Nat
    BY LenProperties DEF FetchedBy
<1>3. ASSUME v # x PROVE Follows(queue[v], queue'[v], 0, u)
  <2>1. Len(queue[v]) =< Len(queue'[v])
      BY <1>3 DEF FetchedBy
  <2>2. ASSUME NEW i \in 1..(Len(queue[v]) - 0) PROVE queue'[v][i] = queue[v][i + 0]
    <3>1. i \in 1..Len(queue'[v]) /\ ~(i > Len(queue[v])) /\ i + 0 = i
        BY <1>2, <2>1
    <3>2. queue'[v][i] = queue[v][i]
        BY <1>3, <3>1 DEF FetchedBy
    <3> QED
        BY <3>1, <3>2
  <2>3. ASSUME NEW i \in 1..Len(queue'[v]), i > Len(queue[v]) - 0
        PROVE  ~By(queue'[v][i], u)
    <3>1. i \notin 1..Len(queue[v])
        BY <1>2, <2>3
    <3>2. NewReceipt(x, v, queue'[v][i])
        BY <1>3, <3>1 DEF FetchedBy
    <3> QED
        BY <1>1, <3>2
  <2>4. 0 =< Len(queue[v]) /\ Len(queue[v]) - 0 =< Len(queue'[v]) /\ 0 \in {0, 1}
      BY <1>2, <2>1
  <2> QED
      BY <1>2, <2>2, <2>3, <2>4 DEF Follows
<1>4. ASSUME NEW i \in 1..Len(queue'[x]) PROVE ~By(queue'[x][i], u)
  <2>1. NewReceipt(x, x, queue'[x][i])
      BY DEF FetchedBy
  <2> QED
      BY <1>1, <2>1
<1> QED
    BY <1>2, <1>3, <1>4

\* The batch stays as it is.
LEMMA LineRests ==
    ASSUME TypeOK, NEW u, NEW v \in Users, queue' \in [Users -> Seq(Envelopes)],
           inbox'[v] = inbox[v], Follows(queue[v], queue'[v], 0, u)
    PROVE  Keeps(Line(v), Line(v)', u)
<1>1. /\ inbox[v] \in Seq(Envelopes) /\ queue[v] \in Seq(Envelopes)
      /\ queue'[v] \in Seq(Envelopes) /\ Len(inbox[v]) \in Nat
    BY LenProperties DEF TypeOK
<1>2. /\ 0 \in {0, 1} /\ Len(inbox[v]) = Len(inbox[v]) - 0 /\ 0 =< Len(inbox[v])
      /\ \A i \in 1..Len(inbox[v]) : inbox[v][i] = inbox[v][i + 0]
    BY <1>1
<1>3. Follows(inbox[v] \o queue[v], inbox[v] \o queue'[v], 0, u)
    BY <1>1, <1>2, LineFollows
<1>4. Follows(Line(v), Line(v)', 0, u)
    BY <1>3 DEF Line
<1> QED
    BY <1>4 DEF Keeps

\* x takes the first of its batch.
LEMMA LineTakes ==
    ASSUME TypeOK, NEW u, NEW x \in Users, queue' \in [Users -> Seq(Envelopes)],
           Took(x), Follows(queue[x], queue'[x], 0, u)
    PROVE  Follows(Line(x), Line(x)', 1, u) /\ Line(x)[1] = Current(x)
<1>1. /\ inbox[x] \in Seq(Envelopes) /\ queue[x] \in Seq(Envelopes)
      /\ inbox'[x] \in Seq(Envelopes) /\ queue'[x] \in Seq(Envelopes)
    BY DEF TypeOK, Took
<1>2. /\ Len(inbox[x]) \in Nat /\ Len(inbox[x]) > 0 /\ Current(x) = inbox[x][1]
      /\ Len(inbox'[x]) = Len(inbox[x]) - 1
      /\ \A i \in 1..Len(inbox'[x]) : inbox'[x][i] = inbox[x][i + 1]
    BY DEF Took
<1>3. 1 \in {0, 1} /\ 1 =< Len(inbox[x])
    BY <1>2
<1>4. Follows(inbox[x] \o queue[x], inbox'[x] \o queue'[x], 1, u)
    BY <1>1, <1>2, <1>3, LineFollows
<1>5. (inbox[x] \o queue[x])[1] = inbox[x][1]
  <2>1. /\ Len(queue[x]) \in Nat
        /\ \A i \in 1..(Len(inbox[x]) + Len(queue[x])) : (inbox[x] \o queue[x])[i] =
             IF i =< Len(inbox[x]) THEN inbox[x][i] ELSE queue[x][i - Len(inbox[x])]
      BY <1>1, LineIs
  <2>0. Len(inbox[x]) \in Nat /\ Len(queue[x]) \in Nat /\ 1 =< Len(inbox[x])
      BY <1>2, <1>3, <2>1
  <2>2. 1 \in 1..(Len(inbox[x]) + Len(queue[x])) /\ 1 =< Len(inbox[x])
    <3>1. \A n, k \in Nat : 1 =< n => 1 \in 1..(n + k)
        OBVIOUS
    <3> QED
        BY <2>0, <3>1, Zenon
  <2> QED
      BY <2>1, <2>2
<1> QED
    BY <1>2, <1>4, <1>5 DEF Line

\* x fetches its batch.
LEMMA LineFetched ==
    ASSUME TypeOK, NEW u, NEW x \in Users, FetchedBy(x), inbox[x] = <<>>,
           inbox'[x] = queue[x]
    PROVE  Keeps(Line(x), Line(x)', u)
<1>1. PICK e : e = <<>>
    OBVIOUS
<1>2. PICK s \in Seq(Envelopes) : s = queue[x]
    BY DEF TypeOK
<1>3. PICK t \in Seq(Envelopes) : t = queue'[x]
    BY DEF FetchedBy
<1>4. e \in Seq(Envelopes) /\ Len(e) = 0
    BY <1>1, EmptySeq
<1>5. e \o s = s /\ s \o e = s
    BY <1>1, <1>2, ConcatEmptySeq
<1>6. Len(s) \in Nat /\ Len(t) \in Nat /\ \A i \in 1..Len(t) : ~By(t[i], u)
    BY <1>3, FetchFollows, LenProperties
<1>7. Follows(e, t, 0, u)
  <2>1. /\ Len(e) \in Nat /\ 0 \in {0, 1} /\ 0 =< Len(e) /\ Len(e) - 0 =< Len(t)
        /\ \A i : i \notin 1..(Len(e) - 0)
      BY <1>4, <1>6
  <2> QED
      BY <1>6, <2>1 DEF Follows
<1>8. /\ 0 \in {0, 1} /\ Len(s) = Len(s) - 0 /\ 0 =< Len(s)
      /\ \A i \in 1..Len(s) : s[i] = s[i + 0]
    BY <1>6
<1>9. Follows(s \o e, s \o t, 0, u)
    BY <1>4, <1>7, <1>8, LineFollows
<1>10. Follows(s, s \o t, 0, u)
    BY <1>5, <1>9
<1>11. Line(x) = s /\ Line(x)' = s \o t
    BY <1>1, <1>2, <1>3, <1>5 DEF Line
<1>12. Follows(Line(x), Line(x)', 0, u)
    BY <1>10, <1>11
<1> QED
    BY <1>12 DEF Keeps

\* An envelope is queued for v.
LEMMA LinePosts ==
    ASSUME TypeOK, NEW env, Posted(env), env.to \in Users,
           inbox'[env.to] = inbox[env.to]
    PROVE  Adds(Line(env.to), Line(env.to)', env)
<1>1. /\ inbox[env.to] \in Seq(Envelopes) /\ queue[env.to] \in Seq(Envelopes)
      /\ queue'[env.to] \in Seq(Envelopes)
    BY DEF TypeOK, Posted
<1>2. Adds(queue[env.to], queue'[env.to], env)
    BY DEF Posted, Adds
<1>3. Adds(inbox[env.to] \o queue[env.to], inbox[env.to] \o queue'[env.to], env)
    BY <1>1, <1>2, LineAdds
<1> QED
    BY <1>3 DEF Line
-----------------------------------------------------------------------------
(***************************************************************************)
(* Pairs of users that a step leaves as they are.                          *)
(***************************************************************************)
Still(u, v) ==
    /\ sessions'[u][v] = sessions[u][v]
    /\ Registered(v) => Registered(v)' /\ spk'[v] = spk[v]
    /\ <<u, v>> \in initiated' <=> <<u, v>> \in initiated
    /\ Held(out[u], out'[u], v) /\ Keeps(Line(v), Line(v)', u)

LEMMA StillLinked ==
    ASSUME NEW u, NEW v, Still(u, v), Still(v, u), Linked(u, v)
    PROVE  Linked(u, v)'
<1>1. Registered(v)' /\ spk'[v] = spk[v]
    BY DEF Still, Linked
<1>2. Link(u, v, sessions[u][v], sessions[v][u], spk[v], out'[u], Line(v)',
           out'[v], Line(u)')
    BY LinkKeeps DEF Still, Linked
<1>3. Link(u, v, sessions'[u][v], sessions'[v][u], spk'[v], out'[u], Line(v)',
           out'[v], Line(u)')
    BY <1>1, <1>2, Zenon DEF Still
<1> QED
    BY <1>1, <1>3 DEF Linked

LEMMA StillQuiet ==
    ASSUME NEW u, NEW v, Still(u, v), Quiet(out[u], Line(v), u, v)
    PROVE  Quiet(out'[u], Line(v)', u, v)
<1>1. \A i \in 1..Len(Line(v)') : ~By(Line(v)'[i], u)
    BY QuietKeeps DEF Still, Quiet
<1>2. \A e \in out'[u] : e.to # v
    BY DEF Still, Quiet, Held
<1> QED
    BY <1>1, <1>2 DEF Quiet

LEMMA StillPaired ==
    ASSUME NEW u, NEW v, Still(u, v), Still(v, u), Paired(u, v)
    PROVE  Paired(u, v)'
<1>1. /\ <<u, v>> \in initiated' <=> <<u, v>> \in initiated
      /\ <<v, u>> \in initiated' <=> <<v, u>> \in initiated
    BY DEF Still
<1>2. CASE Glare(u, v)
  <2>1. Glare(u, v)'
      BY <1>1, <1>2 DEF Glare
  <2> QED
      BY <2>1 DEF Paired
<1>3. CASE <<u, v>> \notin initiated /\ <<v, u>> \notin initiated /\ Strangers(u, v)
  <2>1. Quiet(out'[u], Line(v)', u, v) /\ Quiet(out'[v], Line(u)', v, u)
      BY <1>3, StillQuiet DEF Strangers
  <2>2. sessions'[u][v] = NoSession /\ sessions'[v][u] = NoSession
      BY <1>3 DEF Strangers, Still
  <2>3. Strangers(u, v)'
      BY <2>1, <2>2 DEF Strangers
  <2> QED
      BY <1>1, <1>3, <2>3 DEF Paired
<1>4. CASE <<u, v>> \in initiated /\ <<v, u>> \notin initiated /\ Linked(u, v)
  <2>1. Linked(u, v)'
      BY <1>4, StillLinked
  <2> QED
      BY <1>1, <1>4, <2>1 DEF Paired
<1>5. CASE <<v, u>> \in initiated /\ <<u, v>> \notin initiated /\ Linked(v, u)
  <2>1. Linked(v, u)'
      BY <1>5, StillLinked
  <2> QED
      BY <1>1, <1>5, <2>1 DEF Paired
<1> QED
    BY <1>2, <1>3, <1>4, <1>5, Zenon DEF Paired

LEMMA PairedSame ==
    ASSUME NEW u, NEW v, Paired(u, v)'
    PROVE  Paired(v, u)'
BY Zenon DEF Paired, Glare, Strangers

\* Only x acts: the other processes stay as they are, and so do the messages
\* between them.
Actor(x) ==
    /\ \A v \in Users \ {x} :
         /\ sessions'[v] = sessions[v] /\ pc'[v] = pc[v] /\ spk'[v] = spk[v]
         /\ bundle'[v] = bundle[v] /\ out'[v] = out[v] /\ inbox'[v] = inbox[v]
    /\ initiated \subseteq initiated' /\ disturbed \subseteq disturbed'
    /\ \A u, v \in Users : u # x /\ <<u, v>> \in initiated' => <<u, v>> \in initiated
    /\ \A u, v \in Users \ {x} : Follows(queue[v], queue'[v], 0, u)

LEMMA OthersStill ==
    ASSUME WellFormed, WellFormed', NEW x \in Users, Actor(x),
           NEW u \in Users \ {x}, NEW v \in Users \ {x}
    PROVE  Still(u, v)
<1>1. queue' \in [Users -> Seq(Envelopes)] /\ TypeOK
    BY DEF WellFormed, TypeOK
<1>2. Keeps(Line(v), Line(v)', u)
    BY <1>1, LineRests DEF Actor
<1>3. Held(out[u], out'[u], v)
    BY DEF Held, Actor
<1>4. Registered(v) => Registered(v)' /\ spk'[v] = spk[v]
    BY DEF Registered, Actor
<1>5. <<u, v>> \in initiated' <=> <<u, v>> \in initiated
    BY DEF Actor
<1> QED
    BY <1>2, <1>3, <1>4, <1>5 DEF Still, Actor

\* x and v, when x does nothing to them.
LEMMA OwnStill ==
    ASSUME NEW x \in Users, Actor(x), NEW v \in Users \ {x},
           sessions'[x][v] = sessions[x][v],
           Registered(x) => Registered(x)' /\ spk'[x] = spk[x],
           <<x, v>> \in initiated' => <<x, v>> \in initiated,
           Held(out[x], out'[x], v),
           Keeps(Line(v), Line(v)', x), Keeps(Line(x), Line(x)', v), Paired(x, v)
    PROVE  Paired(x, v)'
<1>1. Still(x, v)
  <2>1. Registered(v) => Registered(v)' /\ spk'[v] = spk[v]
      BY DEF Registered, Actor
  <2>2. <<x, v>> \in initiated' <=> <<x, v>> \in initiated
      BY DEF Actor
  <2> QED
      BY <2>1, <2>2 DEF Still
<1>2. Still(v, x)
  <2>1. sessions'[v][x] = sessions[v][x] /\ Held(out[v], out'[v], x)
      BY DEF Actor, Held
  <2>2. <<v, x>> \in initiated' <=> <<v, x>> \in initiated
      BY DEF Actor
  <2> QED
      BY <2>1, <2>2 DEF Still
<1> QED
    BY <1>1, <1>2, StillPaired

\* What is left to show of a step of x.
LEMMA RatchetSplit ==
    ASSUME RatchetInv, WellFormed', NEW x \in Users, Actor(x),
           pc'[x] # "receiving" => inbox'[x] = <<>>,
           \A e, f \in out'[x] : e = f,
           \A u \in Users : {u, x} \notin disturbed' => Published(x)',
           \A v \in Users \ {x} : {x, v} \notin disturbed' => Paired(x, v)',
           \A t \in failed' \cup missing' :
             \/ t \in failed \cup missing
             \/ {t.at, t.from} \in disturbed' \/ Glare(t.at, t.from)'
    PROVE  RatchetInv'
<1>1. Single'
  <2>1. ASSUME NEW u \in Users
        PROVE  /\ pc'[u] # "receiving" => inbox'[u] = <<>>
               /\ \A e, f \in out'[u] : e = f
    <3>1. CASE u = x
        BY <3>1
    <3>2. CASE u # x
        BY <3>2 DEF Actor, RatchetInv, Single
    <3> QED
        BY <3>1, <3>2
  <2> QED
      BY <2>1 DEF Single
<1>2. ASSUME NEW u \in Users, NEW v \in Users, {u, v} \notin disturbed'
      PROVE  Published(v)'
  <2>1. CASE v = x
      BY <1>2, <2>1
  <2>2. CASE v # x
    <3>1. {u, v} \notin disturbed
        BY <1>2 DEF Actor
    <3>2. Published(v)
        BY <3>1 DEF RatchetInv
    <3> QED
        BY <2>2, <3>2 DEF Published, Registered, Actor
  <2> QED
      BY <2>1, <2>2
<1>3. ASSUME NEW u \in Users, NEW v \in Users, {u, v} \notin disturbed', u # v
      PROVE  Paired(u, v)'
  <2>1. CASE u = x
      BY <1>3, <2>1
  <2>2. CASE v = x
    <3>1. {x, u} \notin disturbed' /\ u # x
      <4>1. {x, u} = {u, x}
          OBVIOUS
      <4> QED
          BY <1>3, <2>2, <4>1
    <3>2. Paired(x, u)'
        BY <3>1
    <3> QED
        BY <2>2, <3>2, PairedSame
  <2>3. CASE u # x /\ v # x
    <3>1. {u, v} \notin disturbed
        BY <1>3 DEF Actor
    <3>2. Paired(u, v) /\ WellFormed
        BY <1>3, <3>1 DEF RatchetInv
    <3>3. Still(u, v) /\ Still(v, u)
        BY <2>3, <3>2, OthersStill
    <3> QED
        BY <3>2, <3>3, StillPaired
  <2> QED
      BY <2>1, <2>2, <2>3
<1>4. ASSUME NEW t \in failed' \cup missing'
      PROVE  {t.at, t.from} \in disturbed' \/ Glare(t.at, t.from)'
  <2>1. CASE t \in failed \cup missing
    <3>1. {t.at, t.from} \in disturbed \/ Glare(t.at, t.from)
        BY <2>1 DEF RatchetInv, UndisturbedDecrypts
    <3> QED
        BY <3>1 DEF Glare, Actor
  <2>2. CASE t \notin failed \cup missing
      BY <1>4, <2>2
  <2> QED
      BY <2>1, <2>2
<1>5. UndisturbedDecrypts'
    BY <1>4 DEF UndisturbedDecrypts
<1> QED
    BY <1>1, <1>2, <1>3, <1>5 DEF RatchetInv

\* A client that is at work and stays so.
AtWork(x) ==
    /\ Registered(x) /\ Registered(x)'
    /\ spk'[x] = spk[x] /\ bundle'[x] = bundle[x]

LEMMA AtWorkPublished ==
    ASSUME RatchetInv, NEW x \in Users, Actor(x), AtWork(x)
    PROVE  \A u \in Users : {u, x} \notin disturbed' => Published(x)'
<1>1. ASSUME NEW u \in Users, {u, x} \notin disturbed'
      PROVE  Published(x)'
  <2>1. Published(x)
      BY <1>1 DEF RatchetInv, Actor
  <2> QED
      BY <2>1 DEF Published, AtWork
<1> QED
    BY <1>1
-----------------------------------------------------------------------------
(***************************************************************************)
(* The ratchets stay matched: steps that leave them alone.                 *)
(***************************************************************************)
LEMMA QueueRests ==
    ASSUME TypeOK, queue' = queue
    PROVE  \A u, v \in Users : Follows(queue[v], queue'[v], 0, u)
BY SameKeeps DEF TypeOK

\* The batches stay too.
LEMMA LinesRest ==
    ASSUME WellFormed, WellFormed', queue' = queue, inbox' = inbox,
           NEW u \in Users, NEW v \in Users
    PROVE  Keeps(Line(v), Line(v)', u)
<1>1. TypeOK /\ queue' \in [Users -> Seq(Envelopes)]
    BY DEF WellFormed, TypeOK
<1>2. Follows(queue[v], queue'[v], 0, u)
    BY <1>1, QueueRests
<1> QED
    BY <1>1, <1>2, LineRests

LEMMA RatchetNew ==
    ASSUME RatchetInv, WellFormed', NEW x \in Users, new(x)
    PROVE  RatchetInv'
<1>1. /\ WellFormed /\ TypeOK /\ Single
      /\ \A u \in Users : {u, x} \notin disturbed => Published(x)
      /\ \A v \in Users \ {x} : {x, v} \notin disturbed => Paired(x, v)
    BY DEF RatchetInv, WellFormed
<1>2. /\ queue' = queue /\ bundle' = bundle /\ sessions' = sessions /\ out' = out
      /\ inbox' = inbox /\ failed' = failed /\ missing' = missing
      /\ initiated' = initiated /\ disturbed' = disturbed
      /\ pc[x] = "down" /\ pc' = [pc EXCEPT ![x] = "connecting"]
      /\ spk' = [spk EXCEPT ![x] = <<x, keys[x] + 1>>]
    BY DEF new, serverVars, histVars
<1>3. /\ pc'[x] = "connecting"
      /\ \A v \in Users \ {x} : pc'[v] = pc[v] /\ spk'[v] = spk[v]
    BY <1>1, <1>2 DEF TypeOK
<1>4. Actor(x)
    BY <1>1, <1>2, <1>3, QueueRests DEF Actor
<1>5. ~Registered(x) /\ ~Registered(x)'
    BY <1>2, <1>3 DEF Registered
<1>6. \A v \in Users \ {x} : {x, v} \notin disturbed' => Paired(x, v)'
    BY <1>1, <1>2, <1>4, <1>5, LinesRest, OwnStill DEF Held
<1>7. \A u \in Users : {u, x} \notin disturbed' => Published(x)'
    BY <1>1, <1>2, <1>5 DEF Published
<1>8. inbox'[x] = <<>> /\ \A e, f \in out'[x] : e = f
    BY <1>1, <1>2 DEF Single
<1> QED
    BY <1>2, <1>4, <1>6, <1>7, <1>8, RatchetSplit

LEMMA RatchetRegister ==
    ASSUME RatchetInv, WellFormed', NEW x \in Users, register(x)
    PROVE  RatchetInv'
<1>1. /\ WellFormed /\ TypeOK /\ Single
      /\ \A v \in Users \ {x} : {x, v} \notin disturbed => Paired(x, v)
    BY DEF RatchetInv, WellFormed
<1>2. /\ queue' = queue /\ spk' = spk /\ sessions' = sessions /\ out' = out
      /\ inbox' = inbox /\ failed' = failed /\ missing' = missing
      /\ initiated' = initiated /\ disturbed' = disturbed
      /\ pc[x] = "connecting" /\ pc' = [pc EXCEPT ![x] = "idle"]
      /\ bundle' = [bundle EXCEPT ![x] = spk[x]]
    BY DEF register, countVars, histVars
<1>3. /\ pc'[x] = "idle" /\ bundle'[x] = spk[x]
      /\ \A v \in Users \ {x} : pc'[v] = pc[v] /\ bundle'[v] = bundle[v]
    BY <1>1, <1>2 DEF TypeOK
<1>4. Actor(x)
    BY <1>1, <1>2, <1>3, QueueRests DEF Actor
<1>5. ~Registered(x) /\ Registered(x)'
    BY <1>2, <1>3 DEF Registered
<1>6. \A v \in Users \ {x} : {x, v} \notin disturbed' => Paired(x, v)'
    BY <1>1, <1>2, <1>4, <1>5, LinesRest, OwnStill DEF Held
<1>7. \A u \in Users : {u, x} \notin disturbed' => Published(x)'
    BY <1>2, <1>3, <1>5 DEF Published
<1>8. inbox'[x] = <<>> /\ \A e, f \in out'[x] : e = f
    BY <1>1, <1>2 DEF Single
<1> QED
    BY <1>2, <1>4, <1>6, <1>7, <1>8, RatchetSplit

\* An envelope of x queued, or none, is no message between the others.
LEMMA PostAside ==
    ASSUME TypeOK, NEW x \in Users, NEW env \in Envelopes, env.from = x,
           queue' = queue \/ Posted(env)
    PROVE  \A u \in Users \ {x}, v \in Users : Follows(queue[v], queue'[v], 0, u)
<1>1. env.to \in Users
    BY DEF Envelopes
<1>2. CASE queue' = queue
    BY <1>2, QueueRests
<1>3. CASE Posted(env)
    BY <1>1, <1>3, PostFollows DEF By
<1> QED
    BY <1>2, <1>3

LEMMA RatchetKill ==
    ASSUME RatchetInv, WellFormed', NEW x \in Users, Kill(x)
    PROVE  RatchetInv'
<1>1. WellFormed /\ TypeOK
    BY DEF RatchetInv, WellFormed
<1>2. /\ pc' = [pc EXCEPT ![x] = "down"] /\ spk' = [spk EXCEPT ![x] = NoKey]
      /\ sessions' = [sessions EXCEPT ![x] = NoSessions]
      /\ out' = [out EXCEPT ![x] = {}] /\ inbox' = [inbox EXCEPT ![x] = <<>>]
      /\ disturbed' = disturbed \cup {{x, v} : v \in Users}
      /\ bundle' = bundle /\ failed' = failed /\ missing' = missing
      /\ initiated' = initiated
      /\ queue' = queue \/ \E env \in out[x] : queue' = post(queue, env)
    BY DEF Kill
<1>3. /\ out'[x] = {} /\ inbox'[x] = <<>>
      /\ \A v \in Users \ {x} :
           /\ pc'[v] = pc[v] /\ spk'[v] = spk[v] /\ sessions'[v] = sessions[v]
           /\ out'[v] = out[v] /\ inbox'[v] = inbox[v]
    BY <1>1, <1>2 DEF TypeOK
<1>4. \A u, v \in Users \ {x} : Follows(queue[v], queue'[v], 0, u)
  <2>1. CASE queue' = queue
      BY <1>1, <2>1, QueueRests
  <2>2. CASE queue' # queue
    <3>1. PICK env \in out[x] : queue' = post(queue, env)
        BY <1>2, <2>2
    <3>2. env \in Envelopes /\ env.from = x
        BY <1>1 DEF WellFormed, TypeOK, Filled
    <3>3. Posted(env)
        BY <1>1, <3>1, <3>2, PostIs
    <3> QED
        BY <1>1, <3>2, <3>3, PostAside
  <2> QED
      BY <2>1, <2>2
<1>5. Actor(x)
    BY <1>2, <1>3, <1>4 DEF Actor
<1>6. \A v \in Users : {x, v} \in disturbed' /\ {v, x} \in disturbed'
  <2>1. ASSUME NEW v \in Users PROVE {x, v} \in disturbed' /\ {v, x} = {x, v}
      BY <1>2
  <2> QED
      BY <2>1
<1> QED
    BY <1>2, <1>3, <1>5, <1>6, RatchetSplit

LEMMA RatchetError ==
    ASSUME RatchetInv, WellFormed', NEW x \in Users, receive_error(x)
    PROVE  RatchetInv'
<1>1. WellFormed /\ TypeOK /\ Single
    BY DEF RatchetInv, WellFormed
<1>2. /\ pc' = pc /\ spk' = spk /\ sessions' = sessions /\ out' = out
      /\ inbox' = inbox /\ bundle' = bundle /\ failed' = failed
      /\ missing' = missing /\ initiated' = initiated
      /\ disturbed' = disturbed \cup {{x, v} : v \in Users}
    BY DEF receive_error, procVars
<1>3. FetchedBy(x)
  <2>1. PICK n \in 0..(Len(queue[x]) - 1) : queue' = fetch_messages(queue, x, n)
      BY DEF receive_error
  <2>2. Len(queue[x]) \in Nat
      BY <1>1, LenProperties DEF TypeOK
  <2>3. n \in 0..Len(queue[x])
      BY <2>2
  <2> QED
      BY <1>1, <2>1, <2>3, FetchIs
<1>4. \A u, v \in Users \ {x} : Follows(queue[v], queue'[v], 0, u)
    BY <1>1, <1>3, FetchFollows
<1>5. Actor(x)
    BY <1>2, <1>4 DEF Actor
<1>6. \A v \in Users : {x, v} \in disturbed' /\ {v, x} \in disturbed'
  <2>1. ASSUME NEW v \in Users PROVE {x, v} \in disturbed' /\ {v, x} = {x, v}
      BY <1>2
  <2> QED
      BY <2>1
<1>7. (pc'[x] # "receiving" => inbox'[x] = <<>>) /\ \A e, f \in out'[x] : e = f
    BY <1>1, <1>2 DEF Single
<1> QED
    BY <1>2, <1>5, <1>6, <1>7, RatchetSplit

LEMMA RatchetFetch ==
    ASSUME RatchetInv, WellFormed', NEW x \in Users, receive_messages(x)
    PROVE  RatchetInv'
<1>1. /\ WellFormed /\ TypeOK /\ Single
      /\ \A v \in Users \ {x} : {x, v} \notin disturbed => Paired(x, v)
    BY DEF RatchetInv, WellFormed
<1>2. /\ spk' = spk /\ sessions' = sessions /\ out' = out /\ bundle' = bundle
      /\ failed' = failed /\ missing' = missing
      /\ initiated' = initiated /\ disturbed' = disturbed
      /\ pc[x] = "idle" /\ pc' = [pc EXCEPT ![x] = "receiving"]
      /\ inbox' = [inbox EXCEPT ![x] = queue[x]]
      /\ queue' = fetch_messages(queue, x, Len(queue[x]))
    BY DEF receive_messages, histVars
<1>3. /\ pc'[x] = "receiving" /\ inbox'[x] = queue[x]
      /\ \A v \in Users \ {x} : pc'[v] = pc[v] /\ inbox'[v] = inbox[v]
    BY <1>1, <1>2 DEF TypeOK
<1>4. FetchedBy(x)
  <2>1. Len(queue[x]) \in Nat
      BY <1>1, LenProperties DEF TypeOK
  <2>2. Len(queue[x]) \in 0..Len(queue[x])
      BY <2>1
  <2> QED
      BY <1>1, <1>2, <2>2, FetchIs
<1>5. \A u \in Users, v \in Users \ {x} : Follows(queue[v], queue'[v], 0, u)
    BY <1>1, <1>4, FetchFollows
<1>6. Actor(x)
    BY <1>2, <1>3, <1>5 DEF Actor
<1>7. inbox[x] = <<>> /\ \A e, f \in out'[x] : e = f
    BY <1>1, <1>2 DEF Single
<1>8. AtWork(x)
    BY <1>2, <1>3 DEF AtWork, Registered
<1>9. ASSUME NEW v \in Users \ {x}, {x, v} \notin disturbed'
      PROVE  Paired(x, v)'
  <2>1. Keeps(Line(v), Line(v)', x)
      BY <1>1, <1>3, <1>4, <1>5, LineRests DEF FetchedBy
  <2>2. Keeps(Line(x), Line(x)', v)
      BY <1>1, <1>3, <1>4, <1>7, LineFetched
  <2>3. Paired(x, v) /\ Held(out[x], out'[x], v)
      BY <1>1, <1>2, <1>9 DEF Held
  <2> QED
      BY <1>2, <1>6, <1>8, <2>1, <2>2, <2>3, OwnStill DEF AtWork
<1> QED
    BY <1>2, <1>3, <1>6, <1>7, <1>8, <1>9, RatchetSplit, AtWorkPublished
-----------------------------------------------------------------------------
(***************************************************************************)
(* The ratchets stay matched: sending.                                     *)
(***************************************************************************)
\* What SendWith does: m is under way to y.
LEMMA SendIs ==
    ASSUME RatchetInv, WellFormed', NEW x \in Users, NEW y \in Users, pc[x] = "idle",
           NEW type \in MessageTypes, NEW c, SendWith(x, y, type, c),
           queue' = queue, bundle' = bundle, spk' = spk, inbox' = inbox,
           disturbed' = disturbed,
           initiated' \in {initiated, initiated \cup {<<x, y>>}},
           \A v \in Users \ {x} : sessions'[v] = sessions[v]
    PROVE  /\ Actor(x) /\ AtWork(x) /\ inbox'[x] = <<>>
           /\ \A e, f \in out'[x] : e = f
           /\ \A v \in Users : Keeps(Line(v), Line(v)', x) /\ Keeps(Line(x), Line(x)', v)
           /\ \A v \in Users \ {y} : Held(out[x], out'[x], v)
           /\ \E m : /\ m.type = type /\ m.content = c
                     /\ Sends(out[x], Line(y), out'[x], Line(y)', m, x, y)
<1>1. WellFormed /\ TypeOK /\ Single
    BY DEF RatchetInv, WellFormed
<1>2. PICK m : m = MessageEnvelope(x, y, type, now[x] + 1, c)
    OBVIOUS
<1>3. m.from = x /\ m.to = y /\ m.type = type /\ m.content = c
    BY <1>2 DEF MessageEnvelope
<1>4. out' = [out EXCEPT ![x] = {m}] /\ pc' = [pc EXCEPT ![x] = "sending"]
    BY <1>2 DEF SendWith
<1>5. /\ out'[x] = {m} /\ pc'[x] = "sending"
      /\ \A v \in Users \ {x} : out'[v] = out[v] /\ pc'[v] = pc[v]
    BY <1>1, <1>4 DEF TypeOK
<1>6. out[x] = {}
    BY <1>1 DEF WellFormed, Busy
<1>7. \A u, v \in Users : Follows(queue[v], queue'[v], 0, u)
    BY <1>1, QueueRests
<1>8. \A u, v \in Users : Keeps(Line(v), Line(v)', u)
    BY <1>1, LinesRest
<1>9. Actor(x)
    BY <1>5, <1>7 DEF Actor
<1>10. AtWork(x)
    BY <1>5 DEF AtWork, Registered
<1>11. inbox'[x] = <<>>
    BY <1>1 DEF Single
<1>12. \A v \in Users \ {y} : Held(out[x], out'[x], v)
    BY <1>3, <1>5, <1>6 DEF Held
<1>13. By(m, x)
    BY <1>3 DEF By, IsMessage
<1>14. Sends(out[x], Line(y), out'[x], Line(y)', m, x, y)
    BY <1>3, <1>5, <1>6, <1>8, <1>13 DEF Sends
<1>15. \A e, f \in out'[x] : e = f
    BY <1>5
<1> QED
    BY <1>3, <1>8, <1>9, <1>10, <1>11, <1>12, <1>14, <1>15

LEMMA RatchetSelf ==
    ASSUME RatchetInv, WellFormed', NEW x \in Users, send_to_self(x)
    PROVE  RatchetInv'
<1>1. \A v \in Users \ {x} : {x, v} \notin disturbed => Paired(x, v)
    BY DEF RatchetInv
<1>2. /\ pc[x] = "idle" /\ SendWith(x, x, "Normal", Nothing)
      /\ queue' = queue /\ bundle' = bundle /\ spk' = spk /\ inbox' = inbox
      /\ sessions' = sessions /\ failed' = failed /\ missing' = missing
      /\ initiated' = initiated /\ disturbed' = disturbed
    BY DEF send_to_self, serverVars, histVars
<1>3. "Normal" \in MessageTypes
    BY DEF MessageTypes
<1>4. /\ Actor(x) /\ AtWork(x) /\ inbox'[x] = <<>>
      /\ \A e, f \in out'[x] : e = f
      /\ \A v \in Users : Keeps(Line(v), Line(v)', x) /\ Keeps(Line(x), Line(x)', v)
      /\ \A v \in Users \ {x} : Held(out[x], out'[x], v)
    BY <1>2, <1>3, SendIs
<1>5. \A v \in Users \ {x} : {x, v} \notin disturbed' => Paired(x, v)'
    BY <1>1, <1>2, <1>4, OwnStill DEF AtWork
<1> QED
    BY <1>2, <1>4, <1>5, RatchetSplit, AtWorkPublished

LEMMA RatchetFirst ==
    ASSUME RatchetInv, WellFormed', NEW x \in Users, NEW y \in Users,
           send_first(x, y)
    PROVE  RatchetInv'
<1>1. /\ TypeOK /\ \A v \in Users \ {x} : {x, v} \notin disturbed =>
                     Paired(x, v) /\ Published(v)
    BY DEF RatchetInv, WellFormed
<1>2. PICK s : s = new_initiator(<<x, keys[x] + 1>>, bundle[y])
    OBVIOUS
<1>3. /\ pc[x] = "idle" /\ SendWith(x, y, "PreKeyBundle", ciphertext(s))
      /\ y # x /\ sessions[x][y] = NoSession /\ bundle[y] # NoKey
      /\ queue' = queue /\ bundle' = bundle /\ spk' = spk /\ inbox' = inbox
      /\ sessions' = [sessions EXCEPT ![x][y] = after_encrypt(s)]
      /\ failed' = failed /\ missing' = missing
      /\ initiated' = initiated \cup {<<x, y>>} /\ disturbed' = disturbed
    BY <1>2 DEF send_first, serverVars
<1>4. "PreKeyBundle" \in MessageTypes
    BY DEF MessageTypes
<1>5. /\ sessions'[x][y] = after_encrypt(s)
      /\ \A v \in Users \ {x} : sessions'[v] = sessions[v]
      /\ \A v \in Users \ {y} : sessions'[x][v] = sessions[x][v]
    BY <1>1, <1>3 DEF TypeOK
<1>6. /\ Actor(x) /\ AtWork(x) /\ inbox'[x] = <<>>
      /\ \A e, f \in out'[x] : e = f
      /\ \A v \in Users : Keeps(Line(v), Line(v)', x) /\ Keeps(Line(x), Line(x)', v)
      /\ \A v \in Users \ {y} : Held(out[x], out'[x], v)
      /\ \E m : /\ m.type = "PreKeyBundle" /\ m.content = ciphertext(s)
                /\ Sends(out[x], Line(y), out'[x], Line(y)', m, x, y)
    BY <1>3, <1>4, <1>5, SendIs
<1>7. ASSUME {x, y} \notin disturbed
      PROVE  Paired(x, y)'
  <2>1. Paired(x, y) /\ Published(y)
      BY <1>1, <1>3, <1>7
  <2>2. <<x, y>> \in initiated'
      BY <1>3
  <2>3. CASE <<y, x>> \in initiated
      BY <1>3, <2>2, <2>3 DEF Paired, Glare
  <2>4. CASE <<y, x>> \notin initiated /\ Linked(x, y)
    <3>1. sessions[x][y] \in Sessions
        BY <2>4 DEF Linked, Link, Match
    <3> QED
        BY <1>3, <3>1, NoSessionAssumption
  <2>5. CASE <<y, x>> \notin initiated /\ Strangers(x, y)
    <3>1. Registered(y) /\ bundle[y] = spk[y]
        BY <1>3, <2>1 DEF Published
    <3>2. bundle[y] \in Keys /\ <<x, keys[x] + 1>> \in Keys
      <4>1. keys[x] + 1 \in Nat
          BY <1>1 DEF TypeOK
      <4> QED
          BY <1>1, <1>3, <4>1 DEF TypeOK, Keys
    <3>3. PICK m : /\ m.type = "PreKeyBundle" /\ m.content = ciphertext(s)
                   /\ Sends(out[x], Line(y), out'[x], Line(y)', m, x, y)
        BY <1>6
    <3>4. Link(x, y, after_encrypt(s), NoSession, bundle[y], out'[x], Line(y)',
               out[y], Line(x)')
        BY <1>2, <1>6, <2>5, <3>2, <3>3, LinkBegins DEF Strangers
    <3>5. /\ Registered(y)' /\ spk'[y] = bundle[y] /\ out'[y] = out[y]
          /\ sessions'[y][x] = NoSession
        BY <1>3, <1>6, <2>5, <3>1 DEF Actor, Registered, Strangers
    <3>6. Linked(x, y)'
        BY <1>5, <3>4, <3>5 DEF Linked
    <3>7. <<y, x>> \notin initiated'
        BY <1>3, <2>5
    <3> QED
        BY <2>2, <3>6, <3>7 DEF Paired
  <2> QED
      BY <2>1, <2>3, <2>4, <2>5 DEF Paired, Glare
<1>8. ASSUME NEW v \in Users \ {x}, {x, v} \notin disturbed'
      PROVE  Paired(x, v)'
  <2>1. CASE v = y
      BY <1>3, <1>7, <1>8, <2>1
  <2>2. CASE v # y
    <3>1. <<x, v>> \in initiated' => <<x, v>> \in initiated
        BY <1>3, <2>2
    <3> QED
        BY <1>1, <1>3, <1>5, <1>6, <1>8, <2>2, <3>1, OwnStill DEF AtWork
  <2> QED
      BY <2>1, <2>2
<1> QED
    BY <1>3, <1>6, <1>8, RatchetSplit, AtWorkPublished

\* x sends y the next message of their session.
LEMMA PairSends ==
    ASSUME NEW x \in Users, NEW y \in Users \ {x}, Actor(x), AtWork(x), Paired(x, y),
           sessions[x][y] # NoSession, initiated' = initiated,
           sessions'[x][y] = after_encrypt(sessions[x][y]),
           NEW m, m.type = "Normal", m.content = ciphertext(sessions[x][y]),
           Sends(out[x], Line(y), out'[x], Line(y)', m, x, y),
           Keeps(Line(x), Line(x)', y)
    PROVE  Paired(x, y)'
<1>1. /\ Registered(y) => Registered(y)' /\ spk'[y] = spk[y]
      /\ sessions'[y] = sessions[y] /\ out'[y] = out[y]
    BY DEF Actor, Registered
<1>2. CASE Glare(x, y)
    BY <1>2 DEF Paired, Glare
<1>3. CASE Strangers(x, y)
    BY <1>3 DEF Strangers
<1>4. CASE <<x, y>> \in initiated /\ <<y, x>> \notin initiated /\ Linked(x, y)
  <2>1. Link(x, y, after_encrypt(sessions[x][y]), sessions[y][x], spk[y], out'[x],
             Line(y)', out[y], Line(x)')
      BY <1>4, LinkSends DEF Linked
  <2>2. Registered(y)' /\ spk'[y] = spk[y]
      BY <1>1, <1>4 DEF Linked
  <2>3. Linked(x, y)'
      BY <1>1, <2>1, <2>2 DEF Linked
  <2> QED
      BY <1>4, <2>3 DEF Paired
<1>5. CASE <<y, x>> \in initiated /\ <<x, y>> \notin initiated /\ Linked(y, x)
  <2>1. Link(y, x, sessions[y][x], after_encrypt(sessions[x][y]), spk[x], out[y],
             Line(x)', out'[x], Line(y)')
      BY <1>5, LinkReplies DEF Linked
  <2>2. Registered(x)' /\ spk'[x] = spk[x]
      BY DEF AtWork
  <2>3. Linked(y, x)'
      BY <1>1, <2>1, <2>2 DEF Linked
  <2> QED
      BY <1>5, <2>3 DEF Paired
<1> QED
    BY <1>2, <1>3, <1>4, <1>5 DEF Paired

LEMMA RatchetSend ==
    ASSUME RatchetInv, WellFormed', NEW x \in Users, NEW y \in Users, send_next(x, y)
    PROVE  RatchetInv'
<1>1. TypeOK /\ \A v \in Users \ {x} : {x, v} \notin disturbed => Paired(x, v)
    BY DEF RatchetInv, WellFormed
<1>2. PICK s : s = sessions[x][y]
    OBVIOUS
<1>3. /\ pc[x] = "idle" /\ SendWith(x, y, "Normal", ciphertext(s))
      /\ y # x /\ s # NoSession
      /\ queue' = queue /\ bundle' = bundle /\ spk' = spk /\ inbox' = inbox
      /\ sessions' = [sessions EXCEPT ![x][y] = after_encrypt(@)]
      /\ failed' = failed /\ missing' = missing
      /\ initiated' = initiated /\ disturbed' = disturbed
    BY <1>2 DEF send_next, serverVars, histVars
<1>4. "Normal" \in MessageTypes
    BY DEF MessageTypes
<1>5. /\ sessions'[x][y] = after_encrypt(s)
      /\ \A v \in Users \ {x} : sessions'[v] = sessions[v]
      /\ \A v \in Users \ {y} : sessions'[x][v] = sessions[x][v]
    BY <1>1, <1>2, <1>3 DEF TypeOK
<1>6. /\ Actor(x) /\ AtWork(x) /\ inbox'[x] = <<>>
      /\ \A e, f \in out'[x] : e = f
      /\ \A v \in Users : Keeps(Line(v), Line(v)', x) /\ Keeps(Line(x), Line(x)', v)
      /\ \A v \in Users \ {y} : Held(out[x], out'[x], v)
      /\ \E m : /\ m.type = "Normal" /\ m.content = ciphertext(s)
                /\ Sends(out[x], Line(y), out'[x], Line(y)', m, x, y)
    BY <1>3, <1>4, <1>5, SendIs
<1>7. ASSUME NEW v \in Users \ {x}, {x, v} \notin disturbed'
      PROVE  Paired(x, v)'
  <2>1. CASE v = y
    <3>1. PICK m : /\ m.type = "Normal" /\ m.content = ciphertext(s)
                   /\ Sends(out[x], Line(y), out'[x], Line(y)', m, x, y)
        BY <1>6
    <3> QED
        BY <1>1, <1>2, <1>3, <1>5, <1>6, <1>7, <2>1, <3>1, PairSends
  <2>2. CASE v # y
      BY <1>1, <1>3, <1>5, <1>6, <1>7, <2>2, OwnStill DEF AtWork
  <2> QED
      BY <2>1, <2>2
<1> QED
    BY <1>3, <1>6, <1>7, RatchetSplit, AtWorkPublished

\* The message that x sent to y reaches the relay.
LEMMA PairPosts ==
    ASSUME NEW x \in Users, NEW y \in Users \ {x}, Actor(x), AtWork(x), Paired(x, y),
           initiated' = initiated, sessions'[x][y] = sessions[x][y],
           NEW m \in out[x], m.to = y, out'[x] = {}, Adds(Line(y), Line(y)', m),
           Keeps(Line(x), Line(x)', y)
    PROVE  Paired(x, y)'
<1>1. /\ Registered(y) => Registered(y)' /\ spk'[y] = spk[y]
      /\ sessions'[y] = sessions[y] /\ out'[y] = out[y]
    BY DEF Actor, Registered
<1>2. CASE Glare(x, y)
    BY <1>2 DEF Paired, Glare
<1>3. CASE Strangers(x, y)
    BY <1>3 DEF Strangers, Quiet
<1>4. CASE <<x, y>> \in initiated /\ <<y, x>> \notin initiated /\ Linked(x, y)
  <2>1. Link(x, y, sessions[x][y], sessions[y][x], spk[y], {}, Line(y)', out[y],
             Line(x)')
      BY <1>4, LinkPosts DEF Linked
  <2>2. Registered(y)' /\ spk'[y] = spk[y]
      BY <1>1, <1>4 DEF Linked
  <2>3. Linked(x, y)'
      BY <1>1, <2>1, <2>2 DEF Linked
  <2> QED
      BY <1>4, <2>3 DEF Paired
<1>5. CASE <<y, x>> \in initiated /\ <<x, y>> \notin initiated /\ Linked(y, x)
  <2>1. Link(y, x, sessions[y][x], sessions[x][y], spk[x], out[y], Line(x)', {},
             Line(y)')
      BY <1>5, LinkPosts DEF Linked
  <2>2. Registered(x)' /\ spk'[x] = spk[x]
      BY DEF AtWork
  <2>3. Linked(y, x)'
      BY <1>1, <2>1, <2>2 DEF Linked
  <2> QED
      BY <1>5, <2>3 DEF Paired
<1> QED
    BY <1>2, <1>3, <1>4, <1>5 DEF Paired

\* x's envelope, or none, is queued: what waits between x and others than the
\* addressee is the same.
LEMMA LinesAside ==
    ASSUME WellFormed, WellFormed', NEW x \in Users, NEW env \in Envelopes,
           env.from = x, queue' = queue \/ Posted(env), inbox' = inbox
    PROVE  /\ \A v \in Users \ {x} : Keeps(Line(x), Line(x)', v)
           /\ \A v \in Users : v # env.to \/ queue' = queue => Keeps(Line(v), Line(v)', x)
<1>1. TypeOK /\ queue' \in [Users -> Seq(Envelopes)] /\ env.to \in Users
    BY DEF WellFormed, TypeOK, Envelopes
<1>2. ASSUME NEW v \in Users \ {x} PROVE Keeps(Line(x), Line(x)', v)
  <2>1. Follows(queue[x], queue'[x], 0, v)
      BY <1>1, PostAside
  <2> QED
      BY <1>1, <2>1, LineRests
<1>3. ASSUME NEW v \in Users, v # env.to \/ queue' = queue
      PROVE  Keeps(Line(v), Line(v)', x)
  <2>1. Follows(queue[v], queue'[v], 0, x)
    <3>1. CASE queue' = queue
        BY <1>1, <3>1, QueueRests
    <3>2. CASE queue' # queue
      <4>1. Posted(env) /\ v # env.to
          BY <1>3, <3>2
      <4> QED
          BY <1>1, <4>1, PostFollows
    <3> QED
        BY <3>1, <3>2
  <2> QED
      BY <1>1, <2>1, LineRests
<1> QED
    BY <1>2, <1>3

LEMMA RatchetAnswered ==
    ASSUME RatchetInv, WellFormed', NEW x \in Users, NEW ok \in BOOLEAN,
           send_answered(x, ok)
    PROVE  RatchetInv'
<1>1. /\ WellFormed /\ TypeOK /\ Single
      /\ \A v \in Users \ {x} : {x, v} \notin disturbed => Paired(x, v)
    BY DEF RatchetInv, WellFormed
<1>2. PICK env \in out[x] :
        IF ok THEN queue' = post(queue, env) /\ disturbed' = disturbed
        ELSE disturbed' = disturbed \cup {{x, env.to}} /\ queue' = queue
    BY DEF send_answered
<1>3. /\ pc[x] = "sending" /\ pc' = [pc EXCEPT ![x] = "idle"]
      /\ out' = [out EXCEPT ![x] = {}]
      /\ bundle' = bundle /\ spk' = spk /\ sessions' = sessions /\ inbox' = inbox
      /\ failed' = failed /\ missing' = missing /\ initiated' = initiated
    BY DEF send_answered
<1>4. /\ out'[x] = {} /\ pc'[x] = "idle"
      /\ \A v \in Users \ {x} : out'[v] = out[v] /\ pc'[v] = pc[v]
    BY <1>1, <1>3 DEF TypeOK
<1>5. /\ env \in Envelopes /\ env.from = x /\ env.to \in Users
      /\ \A e \in out[x] : e = env
  <2>1. env \in Envelopes /\ env.from = x
      BY <1>1, <1>2 DEF WellFormed, TypeOK, Filled
  <2>2. env.to \in Users
      BY <2>1 DEF Envelopes
  <2>3. \A e \in out[x] : e = env
      BY <1>1, <1>2 DEF Single
  <2> QED
      BY <2>1, <2>2, <2>3
<1>6. IF ok THEN Posted(env) /\ disturbed' = disturbed
      ELSE disturbed' = disturbed \cup {{x, env.to}} /\ queue' = queue
    BY <1>1, <1>2, <1>5, PostIs
<1>7. \A u, v \in Users \ {x} : Follows(queue[v], queue'[v], 0, u)
    BY <1>1, <1>5, <1>6, PostAside
<1>8. Actor(x)
    BY <1>3, <1>4, <1>6, <1>7 DEF Actor
<1>9. AtWork(x)
    BY <1>3, <1>4 DEF AtWork, Registered
<1>10. /\ \A v \in Users \ {x} : Keeps(Line(x), Line(x)', v)
       /\ \A v \in Users : v # env.to => Keeps(Line(v), Line(v)', x)
    BY <1>1, <1>3, <1>5, <1>6, LinesAside
<1>11. ASSUME NEW v \in Users \ {x}, {x, v} \notin disturbed'
       PROVE  Paired(x, v)'
  <2>1. Paired(x, v)
      BY <1>1, <1>6, <1>11
  <2>2. CASE v # env.to
    <3>1. Held(out[x], out'[x], v)
        BY <1>4, <1>5, <2>2 DEF Held
    <3> QED
        BY <1>3, <1>8, <1>9, <1>10, <2>1, <2>2, <3>1, OwnStill DEF AtWork
  <2>3. CASE v = env.to
    <3>1. Posted(env)
        BY <1>6, <1>11, <2>3
    <3>2. Adds(Line(env.to), Line(env.to)', env)
        BY <1>1, <1>3, <1>5, <3>1, LinePosts
    <3> QED
        BY <1>2, <1>3, <1>4, <1>8, <1>9, <1>10, <2>1, <2>3, <3>2, PairPosts
  <2> QED
      BY <2>2, <2>3
<1>12. inbox'[x] = <<>> /\ \A e, f \in out'[x] : e = f
    BY <1>1, <1>3, <1>4 DEF Single
<1> QED
    BY <1>3, <1>8, <1>9, <1>11, <1>12, RatchetSplit, AtWorkPublished

LEMMA RatchetEdit ==
    ASSUME RatchetInv, WellFormed', NEW x \in Users, NEW i, NEW ok \in BOOLEAN,
           edit_message(x, i, ok)
    PROVE  RatchetInv'
<1>1. /\ WellFormed /\ TypeOK /\ Single
      /\ \A v \in Users \ {x} : {x, v} \notin disturbed => Paired(x, v)
    BY DEF RatchetInv, WellFormed
<1>2. PICK y \in Users : y = sent[x][i].to
  <2>1. PICK R : R = [to : Users, ts : Nat, status : Statuses]
      OBVIOUS
  <2>2. i \in DOMAIN sent[x] /\ sent[x] \in Seq(R)
      BY <1>1, <2>1 DEF edit_message, TypeOK
  <2>3. sent[x][i] \in R
      BY <2>2
  <2> QED
      BY <2>1, <2>3
<1>3. PICK c : c = IF y = x THEN Nothing ELSE ciphertext(sessions[x][y])
    OBVIOUS
<1>4. PICK env : env = MessageEnvelope(x, y, "Normal", now[x] + 1, c)
    OBVIOUS
<1>5. IF y # x /\ sessions[x][y] = NoSession
      THEN queue' = queue /\ sessions' = sessions /\ disturbed' = disturbed
      ELSE /\ queue' = IF ok THEN post(queue, env) ELSE queue
           /\ disturbed' = IF ok THEN disturbed ELSE disturbed \cup {{x, y}}
           /\ sessions' = IF y = x THEN sessions
                          ELSE [sessions EXCEPT ![x][y] = after_encrypt(@)]
    BY <1>2, <1>3, <1>4 DEF edit_message
<1>6. /\ pc[x] = "idle" /\ bundle' = bundle /\ pc' = pc /\ spk' = spk /\ out' = out
      /\ inbox' = inbox /\ failed' = failed /\ missing' = missing
      /\ initiated' = initiated
    BY DEF edit_message
<1>7. CASE y # x /\ sessions[x][y] = NoSession
  <2>1. queue' = queue /\ sessions' = sessions /\ disturbed' = disturbed
      BY <1>5, <1>7
  <2>2. Actor(x)
      BY <1>1, <1>6, <2>1, QueueRests DEF Actor
  <2>3. AtWork(x)
      BY <1>6 DEF AtWork, Registered
  <2>4. ASSUME NEW v \in Users \ {x}, {x, v} \notin disturbed'
        PROVE  Paired(x, v)'
      BY <1>1, <1>6, <2>1, <2>2, <2>3, <2>4, LinesRest, OwnStill DEF AtWork, Held
  <2>5. inbox'[x] = <<>> /\ \A e, f \in out'[x] : e = f
      BY <1>1, <1>6 DEF Single
  <2> QED
      BY <1>6, <2>2, <2>3, <2>4, <2>5, RatchetSplit, AtWorkPublished
<1>8. CASE ~(y # x /\ sessions[x][y] = NoSession)
  <2>1. /\ env.from = x /\ env.to = y /\ env.type = "Normal" /\ env.content = c
      BY <1>4 DEF MessageEnvelope
  <2>2. c \in Contents
    <3>1. CASE y = x
        BY <1>3, <3>1 DEF Contents
    <3>2. CASE y # x
      <4>1. sessions[x][y] \in Sessions
          BY <1>1, <1>8, <3>2 DEF TypeOK
      <4> QED
          BY <1>3, <3>2, <4>1, Encrypting DEF Contents, Ciphertexts
    <3> QED
        BY <3>1, <3>2
  <2>3. env \in Envelopes
    <3>1. now[x] + 1 \in Nat
        BY <1>1, MessagingAssumption DEF TypeOK
    <3> QED
        BY <1>4, <2>2, <3>1 DEF MessageEnvelope, Envelopes, MessageTypes
  <2>4. IF ok THEN Posted(env) /\ disturbed' = disturbed
        ELSE disturbed' = disturbed \cup {{x, y}} /\ queue' = queue
      BY <1>1, <1>5, <1>8, <2>3, PostIs
  <2>5. /\ \A v \in Users \ {x} : sessions'[v] = sessions[v]
        /\ \A v \in Users \ {x} : v # y => sessions'[x][v] = sessions[x][v]
        /\ y # x => sessions'[x][y] = after_encrypt(sessions[x][y])
    <3>1. \/ y = x /\ sessions' = sessions
          \/ y # x /\ sessions' = [sessions EXCEPT ![x][y] = after_encrypt(@)]
        BY <1>5, <1>8
    <3> QED
        BY <1>1, <3>1 DEF TypeOK
  <2>6. \A u, v \in Users \ {x} : Follows(queue[v], queue'[v], 0, u)
      BY <1>1, <2>1, <2>3, <2>4, PostAside
  <2>7. Actor(x)
      BY <1>6, <2>4, <2>5, <2>6 DEF Actor
  <2>8. AtWork(x)
      BY <1>6 DEF AtWork, Registered
  <2>9. /\ \A v \in Users \ {x} : Keeps(Line(x), Line(x)', v)
        /\ \A v \in Users : v # y => Keeps(Line(v), Line(v)', x)
      BY <1>1, <1>6, <2>1, <2>3, <2>4, LinesAside
  <2>10. ASSUME NEW v \in Users \ {x}, {x, v} \notin disturbed'
         PROVE  Paired(x, v)'
    <3>1. Paired(x, v)
        BY <1>1, <2>4, <2>10
    <3>2. CASE v # y
        BY <1>6, <2>5, <2>7, <2>8, <2>9, <3>1, <3>2, OwnStill DEF AtWork, Held
    <3>3. CASE v = y
      <4>1. Posted(env) /\ y # x
          BY <2>4, <2>10, <3>3
      <4>2. Adds(Line(y), Line(y)', env)
          BY <1>1, <1>6, <2>1, <4>1, LinePosts
      <4>3. out[x] = {} /\ out'[x] = {} /\ By(env, x)
          BY <1>1, <1>6, <2>1 DEF WellFormed, Busy, By, IsMessage, MessageTypes
      <4>4. Sends(out[x], Line(y), out'[x], Line(y)', env, x, y)
          BY <2>1, <4>2, <4>3 DEF Sends
      <4> QED
          BY <1>3, <1>6, <1>8, <2>1, <2>5, <2>7, <2>8, <2>9, <3>1, <3>3, <4>1, <4>4,
             PairSends
    <3> QED
        BY <3>2, <3>3
  <2>11. inbox'[x] = <<>> /\ \A e, f \in out'[x] : e = f
      BY <1>1, <1>6 DEF Single
  <2> QED
      BY <1>6, <2>7, <2>8, <2>10, <2>11, RatchetSplit, AtWorkPublished
<1> QED
    BY <1>7, <1>8
-----------------------------------------------------------------------------
(***************************************************************************)
(* The ratchets stay matched: receiving.                                   *)
(***************************************************************************)
LEMMA TookLast ==
    ASSUME WellFormed, NEW x \in Users, NEW type, Handling(x, type)
    PROVE  pc'[x] # "receiving" => inbox'[x] = <<>>
<1>1. PICK s \in Seq(Envelopes) : s = inbox[x]
    BY DEF WellFormed, TypeOK
<1>2. pc[x] = "receiving" /\ s # <<>>
    BY <1>1 DEF WellFormed, Busy, Handling
<1>3. Tail(s) \in Seq(Envelopes) /\ Len(Tail(s)) = Len(s) - 1
    BY <1>2, HeadTailProperties
<1>4. inbox' = [inbox EXCEPT ![x] = Tail(s)]
    BY <1>1 DEF Handling
<1>5. inbox'[x] = Tail(s)
    BY <1>4 DEF WellFormed, TypeOK
<1>6. pc' = [pc EXCEPT ![x] = IF Len(s) = 1 THEN "idle" ELSE "receiving"]
    BY <1>1, <1>2 DEF Handling
<1>7. pc'[x] # "receiving" => Len(s) = 1
    BY <1>6 DEF WellFormed, TypeOK
<1>8. Len(s) = 1 => Tail(s) = <<>>
  <2>1. PICK t : t = Tail(s)
      OBVIOUS
  <2>2. t # <<>> => Len(t) # 0
      BY <1>3, <2>1, EmptySeq
  <2>3. Len(s) = 1 => Len(t) = 0
      BY <1>3, <2>1
  <2> QED
      BY <2>1, <2>2, <2>3, Zenon
<1> QED
    BY <1>5, <1>7, <1>8

\* What handling an envelope does: x takes the first of its line, and at most a
\* receipt is queued.
Handled(x) ==
    /\ Actor(x) /\ AtWork(x) /\ out' = out
    /\ pc'[x] # "receiving" => inbox'[x] = <<>>
    /\ \A e, f \in out'[x] : e = f
    /\ Current(x) = Line(x)[1] /\ Current(x).to = x /\ Encrypted(Current(x))
    /\ Current(x).from \in Users
    /\ \A v \in Users \ {x} :
         Keeps(Line(v), Line(v)', x) /\ Follows(Line(x), Line(x)', 1, v)

LEMMA HandledIs ==
    ASSUME RatchetInv, WellFormed', NEW x \in Users, NEW type, Handling(x, type),
           bundle' = bundle, spk' = spk, out' = out, initiated' = initiated,
           disturbed' = disturbed, \A v \in Users \ {x} : sessions'[v] = sessions[v],
           \/ queue' = queue
           \/ \E env \in Envelopes : env.type = "Receipt" /\ queue' = post(queue, env)
    PROVE  Handled(x) /\ Current(x).type = type
<1>1. /\ WellFormed /\ TypeOK /\ Single /\ queue' \in [Users -> Seq(Envelopes)]
    BY DEF RatchetInv, WellFormed, TypeOK
<1>2. Took(x) /\ Current(x).type = type
    BY <1>1, TookIs
<1>3. \A u, v \in Users : Follows(queue[v], queue'[v], 0, u)
  <2>1. CASE queue' = queue
      BY <1>1, <2>1, QueueRests
  <2>2. CASE queue' # queue
    <3>1. PICK env \in Envelopes : env.type = "Receipt" /\ queue' = post(queue, env)
        BY <2>2
    <3>2. Posted(env) /\ env.to \in Users
        BY <1>1, <3>1, PostIs DEF Envelopes
    <3>3. \A u \in Users : ~By(env, u)
        BY <3>1, ReceiptIsNone
    <3> QED
        BY <1>1, <3>2, <3>3, PostFollows
  <2> QED
      BY <2>1, <2>2
<1>4. \A v \in Users \ {x} : inbox'[v] = inbox[v] /\ pc'[v] = pc[v]
    BY <1>2 DEF Took
<1>5. Actor(x)
    BY <1>3, <1>4 DEF Actor
<1>6. AtWork(x)
    BY <1>2 DEF AtWork, Registered, Took
<1>7. ASSUME NEW v \in Users \ {x}
      PROVE  Keeps(Line(v), Line(v)', x) /\ Follows(Line(x), Line(x)', 1, v)
    BY <1>1, <1>2, <1>3, <1>4, LineRests, LineTakes
<1>8. Current(x) = Line(x)[1]
    BY <1>1, <1>2, <1>3, LineTakes
<1>9. Current(x).to = x /\ Encrypted(Current(x)) /\ Current(x).from \in Users
    BY <1>2 DEF Took, Envelopes
<1>10. \A e, f \in out'[x] : e = f
    BY <1>1 DEF Single
<1>11. pc'[x] # "receiving" => inbox'[x] = <<>>
    BY <1>1, TookLast
<1> QED
    BY <1>2, <1>5, <1>6, <1>7, <1>8, <1>9, <1>10, <1>11 DEF Handled

\* x and others than the sender.
LEMMA HandledStill ==
    ASSUME NEW x \in Users, Handled(x), NEW v \in Users \ {x}, ~By(Current(x), v),
           sessions'[x][v] = sessions[x][v], initiated' = initiated, Paired(x, v)
    PROVE  Paired(x, v)'
<1>1. Keeps(Line(x), Line(x)', v)
    BY DEF Keeps, Handled
<1>2. Held(out[x], out'[x], v)
    BY DEF Held, Handled
<1> QED
    BY <1>1, <1>2, OwnStill DEF Handled, AtWork

LEMMA RatchetSaved ==
    ASSUME RatchetInv, WellFormed', NEW x \in Users, receive_saved(x)
    PROVE  RatchetInv'
<1>1. \A v \in Users \ {x} : {x, v} \notin disturbed => Paired(x, v)
    BY DEF RatchetInv
<1>2. /\ Handling(x, "Normal") /\ Current(x).from = x
      /\ queue' = queue /\ bundle' = bundle /\ spk' = spk /\ out' = out
      /\ sessions' = sessions /\ failed' = failed /\ missing' = missing
      /\ initiated' = initiated /\ disturbed' = disturbed
    BY DEF receive_saved, serverVars
<1>3. Handled(x)
    BY <1>2, HandledIs
<1>4. \A v \in Users \ {x} : ~By(Current(x), v)
    BY <1>2 DEF By
<1>5. \A v \in Users \ {x} : {x, v} \notin disturbed' => Paired(x, v)'
    BY <1>1, <1>2, <1>3, <1>4, HandledStill
<1> QED
    BY <1>2, <1>3, <1>5, RatchetSplit, AtWorkPublished DEF Handled

LEMMA RatchetReceipt ==
    ASSUME RatchetInv, WellFormed', NEW x \in Users, receive_receipt(x)
    PROVE  RatchetInv'
<1>1. \A v \in Users \ {x} : {x, v} \notin disturbed => Paired(x, v)
    BY DEF RatchetInv
<1>2. /\ Handling(x, "Receipt")
      /\ queue' = queue /\ bundle' = bundle /\ spk' = spk /\ out' = out
      /\ sessions' = sessions /\ failed' = failed /\ missing' = missing
      /\ initiated' = initiated /\ disturbed' = disturbed
    BY DEF receive_receipt, serverVars, histVars
<1>3. Handled(x) /\ Current(x).type = "Receipt"
    BY <1>2, HandledIs
<1>4. \A v \in Users \ {x} : ~By(Current(x), v)
    BY <1>3, ReceiptIsNone
<1>5. \A v \in Users \ {x} : {x, v} \notin disturbed' => Paired(x, v)'
    BY <1>1, <1>2, <1>3, <1>4, HandledStill
<1> QED
    BY <1>2, <1>3, <1>5, RatchetSplit, AtWorkPublished DEF Handled

\* x handles a message of y.
LEMMA PairTakes ==
    ASSUME NEW x \in Users, NEW y \in Users \ {x}, Handled(x), initiated' = initiated,
           By(Current(x), y), Paired(x, y), ~Glare(x, y),
           NEW m, m = Current(x).content,
           NEW b, b = new_responder(m.ratchet_key, spk[x]), NEW s, s = sessions[x][y]
    PROVE  IF Current(x).type = "PreKeyBundle"
           THEN /\ decrypts(b, m)
                /\ sessions'[x][y] = after_decrypt(b, m) => Paired(x, y)'
           ELSE /\ s # NoSession /\ decrypts(s, m)
                /\ sessions'[x][y] = after_decrypt(s, m) => Paired(x, y)'
<1>1. /\ Registered(y) => Registered(y)' /\ spk'[y] = spk[y]
      /\ sessions'[y] = sessions[y] /\ out' = out
      /\ Registered(x)' /\ spk'[x] = spk[x]
    BY DEF Handled, Actor, AtWork, Registered
<1>2. /\ Keeps(Line(y), Line(y)', x) /\ Follows(Line(x), Line(x)', 1, y)
      /\ Line(x)[1] = Current(x) /\ By(Line(x)[1], y) /\ m = Line(x)[1].content
    BY DEF Handled
<1>3. 1 \in 1..Len(Line(x))
    BY <1>2 DEF Follows
<1>4. CASE Strangers(x, y)
    BY <1>2, <1>3, <1>4 DEF Strangers, Quiet
<1>5. CASE <<x, y>> \in initiated /\ <<y, x>> \notin initiated /\ Linked(x, y)
  <2>1. /\ Current(x).type # "PreKeyBundle" /\ s # NoSession /\ decrypts(s, m)
        /\ Link(x, y, after_decrypt(s, m), sessions[y][x], spk[y], out[x], Line(y)',
                out[y], Line(x)')
      BY <1>2, <1>5, LinkReceives DEF Linked
  <2>2. ASSUME sessions'[x][y] = after_decrypt(s, m) PROVE Paired(x, y)'
    <3>1. Registered(y)' /\ spk'[y] = spk[y]
        BY <1>1, <1>5 DEF Linked
    <3>2. Linked(x, y)'
        BY <1>1, <2>1, <2>2, <3>1 DEF Linked
    <3> QED
        BY <1>5, <3>2 DEF Paired
  <2> QED
      BY <2>1, <2>2
<1>6. CASE <<y, x>> \in initiated /\ <<x, y>> \notin initiated /\ Linked(y, x)
  <2>1. ASSUME NEW t, sessions'[x][y] = t,
               Link(y, x, sessions[y][x], t, spk[x], out[y], Line(x)', out[x], Line(y)')
        PROVE  Paired(x, y)'
    <3>1. Linked(y, x)'
        BY <1>1, <2>1 DEF Linked
    <3> QED
        BY <1>6, <3>1 DEF Paired
  <2>2. CASE Current(x).type = "PreKeyBundle" \/ s = NoSession
    <3>1. /\ Current(x).type = "PreKeyBundle" /\ decrypts(b, m)
          /\ Link(y, x, sessions[y][x], after_decrypt(b, m), spk[x], out[y], Line(x)',
                  out[x], Line(y)')
        BY <1>2, <1>6, <2>2, LinkAnswers DEF Linked
    <3> QED
        BY <2>1, <3>1
  <2>3. CASE ~(Current(x).type = "PreKeyBundle" \/ s = NoSession)
    <3>1. /\ decrypts(s, m)
          /\ Link(y, x, sessions[y][x], after_decrypt(s, m), spk[x], out[y], Line(x)',
                  out[x], Line(y)')
        BY <1>2, <1>6, <2>3, LinkFollows DEF Linked
    <3> QED
        BY <2>1, <2>3, <3>1
  <2> QED
      BY <2>2, <2>3
<1> QED
    BY <1>4, <1>5, <1>6 DEF Paired

\* The read receipt for the message that x handles.
LEMMA ReceiptPosted ==
    ASSUME NEW x \in Users, NEW ok, Accept(x, ok), Current(x) \in Envelopes
    PROVE  \/ queue' = queue
           \/ \E env \in Envelopes : env.type = "Receipt" /\ queue' = post(queue, env)
<1>1. PICK env : env = read_receipt(x, Current(x))
    OBVIOUS
<1>2. Current(x).from \in Users /\ Current(x).ts \in Nat
    BY DEF Envelopes
<1>3. env \in Envelopes /\ env.type = "Receipt"
    BY <1>1, <1>2 DEF read_receipt, ReceiptEnvelope, Envelopes, ReceiptTypes, Contents
<1>4. queue' = queue \/ queue' = post(queue, env)
    BY <1>1 DEF Accept
<1> QED
    BY <1>3, <1>4

LEMMA RatchetPrekey ==
    ASSUME RatchetInv, WellFormed', NEW x \in Users, NEW ok \in BOOLEAN,
           receive_prekey(x, ok)
    PROVE  RatchetInv'
<1>1. /\ WellFormed /\ TypeOK
      /\ \A v \in Users \ {x} : {x, v} \notin disturbed => Paired(x, v)
    BY DEF RatchetInv, WellFormed
<1>2. PICK y : y = Current(x).from
    OBVIOUS
<1>3. PICK m : m = Current(x).content
    OBVIOUS
<1>4. PICK b : b = new_responder(m.ratchet_key, spk[x])
    OBVIOUS
<1>5. /\ Handling(x, "PreKeyBundle")
      /\ bundle' = bundle /\ spk' = spk /\ out' = out /\ missing' = missing
      /\ initiated' = initiated /\ disturbed' = disturbed
      /\ IF decrypts(b, m)
         THEN /\ sessions' = [sessions EXCEPT ![x][y] = after_decrypt(b, m)]
              /\ Accept(x, ok)
         ELSE Reject(x) /\ sessions' = sessions
    BY <1>2, <1>3, <1>4 DEF receive_prekey
<1>6. Took(x)
    BY <1>1, <1>5, TookIs
<1>7. y \in Users /\ Current(x) \in Envelopes
    BY <1>2, <1>6 DEF Took, Envelopes
<1>8. \/ queue' = queue
      \/ \E env \in Envelopes : env.type = "Receipt" /\ queue' = post(queue, env)
    BY <1>5, <1>7, ReceiptPosted DEF Reject
<1>9. /\ \A v \in Users \ {x} : sessions'[v] = sessions[v]
      /\ \A v \in Users \ {y} : sessions'[x][v] = sessions[x][v]
      /\ decrypts(b, m) => sessions'[x][y] = after_decrypt(b, m)
    BY <1>1, <1>5, <1>7 DEF TypeOK
<1>10. Handled(x) /\ Current(x).type = "PreKeyBundle"
    BY <1>5, <1>8, <1>9, HandledIs
<1>11. y # x /\ By(Current(x), y)
    BY <1>2, <1>10 DEF Handled, Encrypted, By, IsMessage, MessageTypes
<1>12. ASSUME {x, y} \notin disturbed
       PROVE  Paired(x, y)' /\ (Glare(x, y)' \/ decrypts(b, m))
  <2>1. Paired(x, y)
      BY <1>1, <1>7, <1>11, <1>12
  <2>2. CASE Glare(x, y)
      BY <1>5, <2>2 DEF Paired, Glare
  <2>3. CASE ~Glare(x, y)
    <3>1. decrypts(b, m) /\ (sessions'[x][y] = after_decrypt(b, m) => Paired(x, y)')
        BY <1>3, <1>4, <1>5, <1>7, <1>10, <1>11, <2>1, <2>3, PairTakes
    <3> QED
        BY <1>9, <3>1
  <2> QED
      BY <2>2, <2>3
<1>13. ASSUME NEW v \in Users \ {x}, {x, v} \notin disturbed'
       PROVE  Paired(x, v)'
  <2>1. CASE v = y
      BY <1>5, <1>12, <1>13, <2>1
  <2>2. CASE v # y
    <3>1. ~By(Current(x), v)
        BY <1>2, <2>2 DEF By
    <3> QED
        BY <1>1, <1>5, <1>9, <1>10, <1>13, <2>2, <3>1, HandledStill
  <2> QED
      BY <2>1, <2>2
<1>14. ASSUME NEW t \in failed' \cup missing'
       PROVE  \/ t \in failed \cup missing
              \/ {t.at, t.from} \in disturbed' \/ Glare(t.at, t.from)'
  <2>1. CASE decrypts(b, m)
      BY <1>5, <1>14, <2>1 DEF Accept
  <2>2. CASE ~decrypts(b, m)
    <3>1. t \in failed \cup missing \/ (t.at = x /\ t.from = y)
        BY <1>2, <1>5, <1>14, <2>2 DEF Reject, Trouble
    <3> QED
        BY <1>5, <1>12, <2>2, <3>1
  <2> QED
      BY <2>1, <2>2
<1> QED
    BY <1>10, <1>13, <1>14, RatchetSplit, AtWorkPublished DEF Handled

LEMMA RatchetNormal ==
    ASSUME RatchetInv, WellFormed', NEW x \in Users, NEW ok \in BOOLEAN,
           receive_normal(x, ok)
    PROVE  RatchetInv'
<1>1. /\ WellFormed /\ TypeOK
      /\ \A v \in Users \ {x} : {x, v} \notin disturbed => Paired(x, v)
    BY DEF RatchetInv, WellFormed
<1>2. PICK y : y = Current(x).from
    OBVIOUS
<1>3. PICK m : m = Current(x).content
    OBVIOUS
<1>4. PICK s : s = sessions[x][y]
    OBVIOUS
<1>5. /\ Handling(x, "Normal") /\ y # x
      /\ bundle' = bundle /\ spk' = spk /\ out' = out /\ missing' = missing
      /\ initiated' = initiated /\ disturbed' = disturbed
      /\ sessions' = [sessions EXCEPT ![x][y] = after_decrypt(s, m)]
      /\ IF decrypts(s, m) THEN Accept(x, ok) ELSE Reject(x)
    BY <1>2, <1>3, <1>4 DEF receive_normal
<1>6. Took(x)
    BY <1>1, <1>5, TookIs
<1>7. y \in Users /\ Current(x) \in Envelopes
    BY <1>2, <1>6 DEF Took, Envelopes
<1>8. \/ queue' = queue
      \/ \E env \in Envelopes : env.type = "Receipt" /\ queue' = post(queue, env)
    BY <1>5, <1>7, ReceiptPosted DEF Reject
<1>9. /\ \A v \in Users \ {x} : sessions'[v] = sessions[v]
      /\ \A v \in Users \ {y} : sessions'[x][v] = sessions[x][v]
      /\ sessions'[x][y] = after_decrypt(s, m)
    BY <1>1, <1>5, <1>7 DEF TypeOK
<1>10. Handled(x) /\ Current(x).type = "Normal"
    BY <1>5, <1>8, <1>9, HandledIs
<1>11. By(Current(x), y)
    BY <1>2, <1>10 DEF By, IsMessage, MessageTypes
<1>12. ASSUME {x, y} \notin disturbed
       PROVE  Paired(x, y)' /\ (Glare(x, y)' \/ decrypts(s, m))
  <2>1. Paired(x, y)
      BY <1>1, <1>5, <1>7, <1>12
  <2>2. CASE Glare(x, y)
      BY <1>5, <2>2 DEF Paired, Glare
  <2>3. CASE ~Glare(x, y)
    <3>1. Current(x).type # "PreKeyBundle"
        BY <1>10
    <3>2. decrypts(s, m) /\ (sessions'[x][y] = after_decrypt(s, m) => Paired(x, y)')
        BY <1>3, <1>4, <1>5, <1>7, <1>10, <1>11, <2>1, <2>3, <3>1, PairTakes
    <3> QED
        BY <1>9, <3>2
  <2> QED
      BY <2>2, <2>3
<1>13. ASSUME NEW v \in Users \ {x}, {x, v} \notin disturbed'
       PROVE  Paired(x, v)'
  <2>1. CASE v = y
      BY <1>5, <1>12, <1>13, <2>1
  <2>2. CASE v # y
    <3>1. ~By(Current(x), v)
        BY <1>2, <2>2 DEF By
    <3> QED
        BY <1>1, <1>5, <1>9, <1>10, <1>13, <2>2, <3>1, HandledStill
  <2> QED
      BY <2>1, <2>2
<1>14. ASSUME NEW t \in failed' \cup missing'
       PROVE  \/ t \in failed \cup missing
              \/ {t.at, t.from} \in disturbed' \/ Glare(t.at, t.from)'
  <2>1. CASE decrypts(s, m)
      BY <1>5, <1>14, <2>1 DEF Accept
  <2>2. CASE ~decrypts(s, m)
    <3>1. t \in failed \cup missing \/ (t.at = x /\ t.from = y)
        BY <1>2, <1>5, <1>14, <2>2 DEF Reject, Trouble
    <3> QED
        BY <1>5, <1>12, <2>2, <3>1
  <2> QED
      BY <2>1, <2>2
<1> QED
    BY <1>10, <1>13, <1>14, RatchetSplit, AtWorkPublished DEF Handled

LEMMA RatchetMissing ==
    ASSUME RatchetInv, WellFormed', NEW x \in Users, receive_missing(x)
    PROVE  RatchetInv'
<1>1. \A v \in Users \ {x} : {x, v} \notin disturbed => Paired(x, v)
    BY DEF RatchetInv
<1>2. PICK y : y = Current(x).from
    OBVIOUS
<1>3. /\ Handling(x, "Normal") /\ y # x /\ sessions[x][y] = NoSession
      /\ queue' = queue /\ bundle' = bundle /\ spk' = spk /\ out' = out
      /\ sessions' = sessions /\ failed' = failed
      /\ missing' = missing \cup {Trouble(x)}
      /\ initiated' = initiated /\ disturbed' = disturbed
    BY <1>2 DEF receive_missing, serverVars
<1>4. Handled(x) /\ Current(x).type = "Normal"
    BY <1>3, HandledIs
<1>5. By(Current(x), y) /\ y \in Users
    BY <1>2, <1>4 DEF By, IsMessage, MessageTypes, Handled
<1>6. ASSUME {x, y} \notin disturbed
      PROVE  Glare(x, y)
  <2>1. Paired(x, y) /\ Current(x).type # "PreKeyBundle"
      BY <1>1, <1>3, <1>4, <1>5, <1>6
  <2> QED
      BY <1>3, <1>4, <1>5, <2>1, PairTakes
<1>7. ASSUME NEW v \in Users \ {x}, {x, v} \notin disturbed'
      PROVE  Paired(x, v)'
  <2>1. CASE v = y
      BY <1>3, <1>6, <1>7, <2>1 DEF Paired, Glare
  <2>2. CASE v # y
    <3>1. ~By(Current(x), v)
        BY <1>2, <2>2 DEF By
    <3> QED
        BY <1>1, <1>3, <1>4, <1>7, <3>1, HandledStill
  <2> QED
      BY <2>1, <2>2
<1>8. ASSUME NEW t \in failed' \cup missing'
      PROVE  \/ t \in failed \cup missing
             \/ {t.at, t.from} \in disturbed' \/ Glare(t.at, t.from)'
  <2>1. t \in failed \cup missing \/ (t.at = x /\ t.from = y)
      BY <1>2, <1>3, <1>8 DEF Trouble
  <2> QED
      BY <1>3, <1>6, <2>1 DEF Glare
<1> QED
    BY <1>4, <1>7, <1>8, RatchetSplit, AtWorkPublished DEF Handled
-----------------------------------------------------------------------------
LEMMA RatchetInit == Init => RatchetInv
<1> SUFFICES ASSUME Init PROVE RatchetInv
    OBVIOUS
<1>1. WellFormed
    BY WellFormedInit
<1>2. Single
    BY DEF Init, Single
<1>3. ASSUME NEW v \in Users PROVE Published(v)
    BY DEF Init, Published, Registered
<1>4. ASSUME NEW u \in Users, NEW v \in Users PROVE Quiet(out[u], Line(v), u, v)
  <2>1. PICK e : e = <<>>
      OBVIOUS
  <2>2. e \in Seq(Envelopes) /\ Len(e) = 0
      BY <2>1, EmptySeq
  <2>3. e \o e = e
      BY <2>1, <2>2, ConcatEmptySeq
  <2>4. Line(v) = e
      BY <2>1, <2>3 DEF Init, Line
  <2>5. \A i : i \notin 1..Len(Line(v))
      BY <2>2, <2>4
  <2>6. out[u] = {}
      BY DEF Init
  <2> QED
      BY <2>5, <2>6 DEF Quiet
<1>5. ASSUME NEW u \in Users, NEW v \in Users PROVE Paired(u, v)
  <2>1. sessions[u][v] = NoSession /\ sessions[v][u] = NoSession
      BY DEF Init, NoSessions
  <2>2. Strangers(u, v)
      BY <1>4, <2>1 DEF Strangers
  <2> QED
      BY <2>2 DEF Paired, Init
<1>6. UndisturbedDecrypts
    BY DEF Init, UndisturbedDecrypts
<1> QED
    BY <1>1, <1>2, <1>3, <1>5, <1>6 DEF RatchetInv

LEMMA RatchetNext ==
    ASSUME RatchetInv, [Next]_vars
    PROVE  RatchetInv'
<1>1. WellFormed'
    BY WellFormedStep DEF RatchetInv
<1>2. CASE UNCHANGED vars
  <2>1. Single' /\ UndisturbedDecrypts'
      BY <1>2 DEF vars, RatchetInv, Single, UndisturbedDecrypts, Glare
  <2>2. \A u, v \in Users : {u, v} \notin disturbed' =>
          Published(v)' /\ (u # v => Paired(u, v)')
    <3>1. ASSUME NEW u \in Users, NEW v \in Users, Paired(u, v) PROVE Paired(u, v)'
      <4>1. Still(u, v) /\ Still(v, u)
          BY <1>1, <1>2, LinesRest DEF vars, Still, Registered, Held, RatchetInv
      <4> QED
          BY <3>1, <4>1, StillPaired
    <3>2. ASSUME NEW v \in Users, Published(v) PROVE Published(v)'
        BY <1>2, <3>2 DEF vars, Published, Registered
    <3> QED
        BY <1>2, <3>1, <3>2 DEF vars, RatchetInv
  <2> QED
      BY <1>1, <2>1, <2>2 DEF RatchetInv
<1>3. CASE Next
  <2>1. PICK x \in Users :
          \/ new(x) \/ register(x) \/ Kill(x)
          \/ Command(x) \/ Handle(x)
          \/ \E ok \in BOOLEAN : send_answered(x, ok)
      BY <1>3 DEF Next
  <2>2. CASE new(x) \/ register(x) \/ Kill(x)
      BY <1>1, <2>2, RatchetNew, RatchetRegister, RatchetKill
  <2>3. CASE Command(x)
      BY <1>1, <2>3, RatchetSelf, RatchetFirst, RatchetSend, RatchetEdit,
         RatchetFetch, RatchetError DEF Command
  <2>4. CASE Handle(x)
      BY <1>1, <2>4, RatchetPrekey, RatchetNormal, RatchetSaved, RatchetMissing,
         RatchetReceipt DEF Handle
  <2>5. CASE \E ok \in BOOLEAN : send_answered(x, ok)
      BY <1>1, <2>5, RatchetAnswered
  <2> QED
      BY <2>1, <2>2, <2>3, <2>4, <2>5
<1> QED
    BY <1>2, <1>3

(***************************************************************************)
(* UndisturbedRatchets: however the steps of any number of clients         *)
(* interleave, a message between two users who did not both start a        *)
(* session, and whom no end of a process and no server error has hit,      *)
(* always finds a session and decrypts: receive_messages handles the steps *)
(* of a sending chain in order, each once and with none left out.          *)
(***************************************************************************)
THEOREM UndisturbedRatchets == Spec => []UndisturbedDecrypts
<1>1. Init => RatchetInv
    BY RatchetInit
<1>2. RatchetInv /\ [Next]_vars => RatchetInv'
    BY RatchetNext
<1>3. RatchetInv => UndisturbedDecrypts
    BY DEF RatchetInv
<1> QED
    BY <1>1, <1>2, <1>3, PTL DEF Spec
=============================================================================
