------------------------------ MODULE MCRelay ------------------------------
(***************************************************************************)
(* A message on its way from the inbox to the client's disk: Delivery (the *)
(* gateway's side of a connection), WsClient (the client's connection) and *)
(* MessageStore (what the client does with a batch).  Each models the      *)
(* others' steps it depends on as its environment, so a behaviour of this  *)
(* module exercises the one that `part' names; the others stay at Init.    *)
(*                                                                         *)
(* The configuration gives the constants small values; the theorems hold   *)
(* for all of them.                                                        *)
(***************************************************************************)
EXTENDS Delivery, FiniteSetTheorems, SequenceTheorems, WellFoundedInduction, TLAPS

CONSTANTS Msgs, Sockets, NoSock, MaxTasks, MaxTransient,
          StoreSeq, Overlays, StoreBatch, MaxJobs, MaxCrashes, MaxFails

ASSUME ClientConstants == NoSock \notin Sockets

ASSUME StoreConstants ==
    StoreSeq \in Nat /\ StoreBatch \in Nat \ {0} /\ MaxCrashes \in Nat /\ MaxFails \in Nat

VARIABLES
    part,
    state, transport, reconnect, beat, pong, wwire, first, heard, greeted, outbox, done,
    flushes, batches, refused,
    rows, sent, swire, cursors, saved, peak, stored, jobs, acks, dropped, crashes, fails

W == INSTANCE WsClient WITH wire <- wwire

Session == INSTANCE ClientSession WITH mode <- W!Mode, socket <- transport, used <- W!Used

S == INSTANCE MessageStore WITH wire <- swire, MaxSeq <- StoreSeq, BatchSize <- StoreBatch

WVars == <<state, transport, reconnect, beat, pong, wwire, first, heard, greeted, outbox, done,
           flushes, batches, refused>>
SVars == <<rows, sent, swire, cursors, saved, peak, stored, jobs, acks, dropped, crashes, fails>>

mcvars == <<part, vars, WVars, SVars>>

MCInit ==
    /\ part \in {"delivery", "client", "store"}
    /\ Init /\ W!Init /\ S!Init

MCNext ==
    \/ part = "delivery" /\ Next /\ UNCHANGED <<part, WVars, SVars>>
    \/ part = "client" /\ W!Next /\ UNCHANGED <<part, vars, SVars>>
    \/ part = "store" /\ S!Next /\ UNCHANGED <<part, vars, WVars>>

(* The fairness of the three modules, each where its module runs.          *)
DeliveryFair ==
    /\ WF_vars(part = "delivery" /\ Connect) /\ WF_vars(part = "delivery" /\ PullInbox)
    /\ WF_vars(part = "delivery" /\ FinishReplay)
    /\ WF_vars(part = "delivery" /\ \E i \in Items : LiveArrive(i))
    /\ SF_vars(part = "delivery" /\ ClientRecv) /\ SF_vars(part = "delivery" /\ AckDelivered)

ClientFair ==
    /\ WF_WVars(part = "client" /\ \E s \in Sockets : W!ReconnectFires(s))
    /\ WF_WVars(part = "client" /\ \E s \in Sockets : W!OnOpen(s))
    /\ WF_WVars(part = "client" /\ W!FlushResumes) /\ WF_WVars(part = "client" /\ W!Tick)
    /\ WF_WVars(part = "client" /\ W!PongTimeout /\ ~W!Up)
    /\ \A s \in Sockets : WF_WVars(part = "client" /\ W!Answers(s))

StoreFair ==
    /\ WF_SVars(part = "store" /\ S!Push) /\ WF_SVars(part = "store" /\ S!OnInboxBatch)
    /\ WF_SVars(part = "store" /\ S!AckDelivered)
    /\ WF_SVars(part = "store" /\ \E j \in 1..MaxJobs : S!Write(j) \/ S!Finish(j))

MCSpec == MCInit /\ [][MCNext]_mcvars /\ DeliveryFair /\ ClientFair /\ StoreFair

-----------------------------------------------------------------------------
(* Every safety property is the inductive invariant of its component: what *)
(* the component promises, and what is under way on the connection.        *)

(* Replays and flushes are in order and repeat nothing, and a message is   *)
(* lost only behind one that overtook it (Delivery).                       *)
DeliverySound == DeliveryInv

(* The client's timers match its state, and Hello opens every socket       *)
(* (WsClient).                                                             *)
ClientSound == W!ClientInv

(* The client's connection implements ClientSession: whatever callbacks,   *)
(* timers and continuations interleave, the client has one fresh socket at *)
(* a time and a closed client never comes back by itself (WsClient).       *)
ImplementsSession == Session!Spec

(* An acknowledged item is on the client's disk or its write was dropped   *)
(* behind an advanced cursor, and no saved cursor skips any other          *)
(* (MessageStore).                                                         *)
StoreSound == S!StoreInv /\ S!LossNeedsDroppedWrite /\ S!CursorAfterPersist

(* Every message gets there: accepted ones reach the client unless a push  *)
(* was lost or overtaken, the client becomes live again and its sends are  *)
(* acknowledged, and every batch reaches the disk unless its write was     *)
(* dropped.                                                                *)
RelayLive ==
    /\ EventuallyStored
    /\ part = "client" => W!LiveAgain /\ W!EverySendAcked
    /\ part = "store" => S!EventuallyPersisted

-----------------------------------------------------------------------------
(* Least and greatest elements.                                            *)

LEMMA LeastNat ==
  ASSUME NEW T \in SUBSET Nat, T # {}
  PROVE  \E m \in T : \A n \in T : m <= n
<1> DEFINE Less == {ss \in Nat \X Nat : ss[1] < ss[2]}
<1>1. IsWellFoundedOn(Less, Nat)
  BY NatLessThanWellFounded, Zenon DEF OpToRel
<1> HIDE DEF Less
<1>2. PICK m \in T : \A n \in T : ~(<<n, m>> \in Less)
  BY <1>1, WFMin
<1>3. ASSUME NEW n \in T PROVE m <= n
  <2>1. ~(n < m)
    BY <1>2 DEF Less
  <2>2. QED
    BY <2>1
<1>4. QED
  BY <1>3

LEMMA GreatestNat ==
  ASSUME NEW N \in Nat, NEW T \in SUBSET (0..N), T # {}
  PROVE  \E m \in T : \A n \in T : n <= m
<1> DEFINE D == {N - i : i \in T}
<1>1. D \in SUBSET Nat /\ D # {}
  <2>1. \A i \in T : N - i \in Nat
    OBVIOUS
  <2>2. QED
    BY <2>1
<1>2. PICK k \in D : \A n \in D : k <= n
  BY <1>1, LeastNat
<1>3. PICK m \in T : k = N - m
  BY <1>2
<1>4. ASSUME NEW n \in T PROVE n <= m
  <2>1. N - n \in D
    OBVIOUS
  <2>2. k <= N - n
    BY <1>2, <2>1
  <2>3. QED
    BY <1>3, <2>2
<1>5. QED
  BY <1>4

-----------------------------------------------------------------------------
(* The device's way from the inbox to the client.                          *)

\* The types of what the gateway writes, and of the rest.
GateTypes ==
    /\ after \in Cursors /\ seen \in Cursors /\ top \in Cursors
    /\ buffered \subseteq Items
    /\ conn \in {"down", "replay", "drained", "open"}
    /\ pos \in {<<0, 0>>} \cup Items
    /\ outq \in Seq(SUBSET Items)
    /\ ordered = TRUE /\ overtaken \subseteq Items

RestTypes ==
    /\ head \in Cursors /\ cursor \in Cursors
    /\ inbox \subseteq Items /\ flying \subseteq Items /\ store \subseteq Items
    /\ ackq \in Seq(Cursors) /\ breaks \in 0..MaxBreaks /\ unpushed \subseteq Items

LEMMA DeliveryParts ==
  ASSUME DeliveryInv
  PROVE  /\ GateTypes /\ RestTypes
         /\ LossNeedsOvertaking /\ GateFits /\ AcceptedOnly /\ CursorFits /\ FramesFit
  BY DEF DeliveryInv, Inv, TypeOK, ReplayInOrder, GateTypes, RestTypes

LEMMA DeliveryWhole ==
  ASSUME GateTypes', RestTypes',
         LossNeedsOvertaking', GateFits', AcceptedOnly', CursorFits', FramesFit'
  PROVE  DeliveryInv'
<1>1. ordered' \in BOOLEAN
  BY DEF GateTypes
<1>2. QED
  BY <1>1 DEF DeliveryInv, Inv, TypeOK, ReplayInOrder, GateTypes, RestTypes

LEMMA ItemPair ==
  ASSUME NEW i \in Items
  PROVE  i[1] \in Convs /\ i[2] \in 1..MaxSeq /\ i[2] \in Nat /\ i[2] > 0 /\ i = <<i[1], i[2]>>
  BY ConstantsAssumption DEF Items, Convs

LEMMA CursorNumber ==
  ASSUME NEW f \in Cursors, NEW k \in Convs PROVE f[k] \in Nat /\ f[k] \in 0..MaxSeq
  BY ConstantsAssumption DEF Cursors

LEMMA DeliveryHighest ==
  ASSUME NEW items \in SUBSET Items, NEW floor \in Cursors
  PROVE  /\ Highest(items, floor) \in Cursors
         /\ \A k \in Convs : /\ floor[k] <= Highest(items, floor)[k]
                             /\ \/ Highest(items, floor)[k] = floor[k]
                                \/ \E j \in items : j[1] = k /\ j[2] = Highest(items, floor)[k]
         /\ \A j \in items : j[2] <= Highest(items, floor)[j[1]]
<1> DEFINE ns(k) == {i[2] : i \in {j \in items : j[1] = k}} \cup {floor[k]}
           h(k) == CHOOSE n \in ns(k) : \A p \in ns(k) : p <= n
<1>1. Highest(items, floor) = [k \in Convs |-> h(k)]
  BY DEF Highest
<1>2. ASSUME NEW k \in Convs
      PROVE  /\ h(k) \in 0..MaxSeq /\ floor[k] <= h(k)
             /\ h(k) = floor[k] \/ \E j \in items : j[1] = k /\ j[2] = h(k)
             /\ \A j \in items : j[1] = k => j[2] <= h(k)
  <2>1. ns(k) \in SUBSET (0..MaxSeq) /\ ns(k) # {}
    <3>1. \A j \in items : j[2] \in 0..MaxSeq
      BY ItemPair, ConstantsAssumption
    <3>2. floor[k] \in 0..MaxSeq
      BY CursorNumber
    <3>3. QED
      BY <3>1, <3>2
  <2>2. floor[k] \in ns(k) /\ \A j \in items : j[1] = k => j[2] \in ns(k)
    OBVIOUS
  <2>3. ASSUME NEW n \in ns(k) PROVE n = floor[k] \/ \E j \in items : j[1] = k /\ j[2] = n
    OBVIOUS
  <2> HIDE DEF ns
  <2>4. \E n \in ns(k) : \A p \in ns(k) : p <= n
    BY <2>1, GreatestNat, ConstantsAssumption
  <2>5. h(k) \in ns(k) /\ \A p \in ns(k) : p <= h(k)
    BY <2>4
  <2> HIDE DEF h
  <2>6. QED
    BY <2>1, <2>2, <2>3, <2>5
<1> HIDE DEF h
<1>3. \A k \in Convs : Highest(items, floor)[k] = h(k)
  BY <1>1
<1>4. Highest(items, floor) \in Cursors
  BY <1>1, <1>2 DEF Cursors
<1>5. \A j \in items : j[2] <= Highest(items, floor)[j[1]]
  BY <1>2, <1>3, ItemPair
<1>6. QED
  BY <1>2, <1>3, <1>4, <1>5

LEMMA AcceptedItem ==
  ASSUME NEW i PROVE i \in Accepted <=> i \in Items /\ i[2] <= head[i[1]]
  BY DEF Accepted

(* A frame goes into the queue: what it jumps over is overtaken.           *)
LEMMA DeliveryEnqueue ==
  ASSUME DeliveryInv, NEW items \in SUBSET Accepted, Enqueue(items), UNCHANGED <<head, inbox, store>>
  PROVE  /\ outq' \in Seq(SUBSET Items) /\ top' = Highest(items, top) /\ top' \in Cursors
         /\ overtaken' \subseteq Items /\ overtaken \subseteq overtaken'
         /\ \A n \in DOMAIN outq' : outq'[n] \subseteq Accepted
         /\ \A k \in Convs : top'[k] <= head[k]
         /\ FramesFit'
<1>0. /\ outq \in Seq(SUBSET Items) /\ top \in Cursors /\ head \in Cursors /\ inbox \subseteq Items
      /\ overtaken \subseteq Items /\ LossNeedsOvertaking /\ AcceptedOnly /\ FramesFit
  BY DeliveryParts DEF GateTypes, RestTypes
<1>1. /\ outq' = (IF items = {} THEN outq ELSE Append(outq, items))
      /\ top' = Highest(items, top) /\ overtaken' = overtaken \cup JumpedBy(items)
      /\ Accepted' = Accepted /\ store' = store
  BY DEF Enqueue, Accepted
<1>2. items \in SUBSET Items
  BY DEF Accepted
<1>3. /\ top' \in Cursors /\ \A k \in Convs : top[k] <= top'[k]
      /\ \A k \in Convs : top'[k] = top[k] \/ \E j \in items : j[1] = k /\ j[2] = top'[k]
  BY <1>0, <1>1, <1>2, DeliveryHighest
<1>4. overtaken' \subseteq Items /\ overtaken \subseteq overtaken'
  BY <1>0, <1>1 DEF JumpedBy
<1>5. \A k \in Convs : top'[k] <= head[k]
  BY <1>0, <1>3, AcceptedItem DEF AcceptedOnly
<1>6. PICK n \in Nat : n = Len(outq)
  BY <1>0, LenProperties
<1>7. DOMAIN outq = 1..n
  BY <1>0, <1>6, LenProperties
<1>8. ASSUME NEW j \in items, NEW i \in Accepted, i[1] = j[1], i[2] <= j[2]
      PROVE  i \in store \cup overtaken' \cup Queued(n) \cup items
  <2>0. i \in Items /\ j \in Items /\ i[1] \in Convs /\ i[2] \in Nat /\ j[2] \in Nat /\ top[i[1]] \in Nat
    BY <1>0, <1>2, AcceptedItem, ItemPair, CursorNumber
  <2>1. CASE i[2] <= top[i[1]]
    BY <1>0, <1>4, <1>6, <2>1 DEF FramesFit
  <2>2. CASE ~(i[2] <= top[i[1]]) /\ i \notin items
    <3>1. i[2] # j[2]
      BY <1>8, <2>0, <2>2, ItemPair
    <3>2. top[i[1]] < i[2] /\ i[2] < j[2]
      BY <1>8, <2>0, <2>2, <3>1
    <3>3. i \in inbox \cup store \cup overtaken
      BY <1>0 DEF LossNeedsOvertaking
    <3>4. i \in inbox \ (items \cup store) => i \in JumpedBy(items)
      BY <1>8, <3>2 DEF JumpedBy
    <3>5. QED
      BY <1>1, <2>2, <3>3, <3>4
  <2>3. QED
    BY <2>1, <2>2
<1>9. ASSUME NEW i \in Accepted, i[2] <= top'[i[1]]
      PROVE  i \in store \cup overtaken' \cup Queued(n) \cup items
  <2>0. i \in Items /\ i[1] \in Convs
    BY AcceptedItem, ItemPair
  <2>1. CASE top'[i[1]] = top[i[1]]
    BY <1>0, <1>4, <1>6, <1>9, <2>1 DEF FramesFit
  <2>2. CASE \E j \in items : j[1] = i[1] /\ j[2] = top'[i[1]]
    BY <1>8, <1>9, <2>2
  <2>3. QED
    BY <1>3, <2>0, <2>1, <2>2
<1>10. CASE items = {}
  <2>1. outq' = outq
    BY <1>1, <1>10
  <2>2. \A m : Queued(m)' = Queued(m)
    BY <2>1 DEF Queued
  <2>3. FramesFit'
    <3>1. \A m \in DOMAIN outq' : \A j \in outq'[m] : \A i \in Accepted' :
            i[1] = j[1] /\ i[2] <= j[2] => i \in store' \cup overtaken' \cup Queued(m)'
      BY <1>0, <1>1, <1>4, <2>1, <2>2 DEF FramesFit
    <3>2. Queued(Len(outq))' = Queued(n)
      BY <1>6, <2>1 DEF Queued
    <3>3. QED
      BY <1>1, <1>9, <1>10, <3>1, <3>2 DEF FramesFit
  <2>4. QED
    BY <1>0, <1>1, <1>3, <1>4, <1>5, <2>1, <2>3 DEF AcceptedOnly
<1>11. CASE items # {}
  <2>1. /\ outq' \in Seq(SUBSET Items) /\ Len(outq') = n + 1 /\ DOMAIN outq' = 1..(n + 1)
        /\ outq'[n + 1] = items /\ \A m \in 1..n : outq'[m] = outq[m]
    <3>1. outq' = Append(outq, items) /\ items \in SUBSET Items
      BY <1>1, <1>2, <1>11
    <3>2. QED
      BY <1>0, <1>6, <3>1
  <2>2. /\ \A m \in 1..n : Queued(m)' = Queued(m)
        /\ Queued(n + 1)' = Queued(n) \cup items
    <3>1. ASSUME NEW m \in 1..n PROVE Queued(m)' = Queued(m)
      <4>1. \A l \in 1..m : outq'[l] = outq[l]
        BY <2>1
      <4>2. QED
        BY <4>1 DEF Queued
    <3>2. Queued(n + 1)' = Queued(n) \cup items
      <4>1. ASSUME NEW x PROVE x \in UNION {outq'[l] : l \in 1..(n + 1)}
                               <=> x \in UNION {outq[l] : l \in 1..n} \/ x \in items
        <5>1. ASSUME NEW l \in 1..(n + 1) PROVE l \in 1..n \/ l = n + 1
          OBVIOUS
        <5>2. 1..n \subseteq 1..(n + 1) /\ n + 1 \in 1..(n + 1)
          OBVIOUS
        <5>3. QED
          BY <2>1, <5>1, <5>2
      <4>2. QED
        BY <4>1 DEF Queued
    <3>3. QED
      BY <3>1, <3>2
  <2>3. ASSUME NEW m \in DOMAIN outq' PROVE m \in 1..n \/ m = n + 1
    BY <2>1
  <2>4. ASSUME NEW m \in DOMAIN outq', NEW j \in outq'[m], NEW i \in Accepted, i[1] = j[1], i[2] <= j[2]
        PROVE  i \in store \cup overtaken' \cup Queued(m)'
    <3>1. CASE m \in 1..n
      BY <1>0, <1>4, <1>7, <2>1, <2>2, <2>4, <3>1 DEF FramesFit
    <3>2. CASE m = n + 1
      BY <1>8, <2>1, <2>2, <2>4, <3>2
    <3>3. QED
      BY <2>3, <3>1, <3>2
  <2>5. Queued(Len(outq))' = Queued(n + 1)'
    BY <2>1 DEF Queued
  <2>6. FramesFit'
    <3>1. \A i \in Accepted : i[2] <= top'[i[1]] => i \in store \cup overtaken' \cup Queued(Len(outq))'
      BY <1>9, <2>2, <2>5
    <3>2. QED
      BY <1>1, <2>4, <3>1 DEF FramesFit
  <2>7. \A m \in DOMAIN outq' : outq'[m] \subseteq Accepted
    BY <1>0, <1>7, <2>1, <2>3 DEF AcceptedOnly
  <2>8. QED
    BY <1>1, <1>3, <1>4, <1>5, <2>1, <2>6, <2>7
<1>12. QED
  BY <1>10, <1>11

LEMMA DeliveryInit == Init => DeliveryInv
<1> SUFFICES ASSUME Init PROVE DeliveryInv
  OBVIOUS
<1>1. ZeroCursors \in Cursors /\ \A k \in Convs : ZeroCursors[k] = 0
  BY ConstantsAssumption DEF ZeroCursors, Cursors
<1>2. Accepted = {}
  BY <1>1, ItemPair DEF Accepted, Init
<1>3. TypeOK
  BY <1>1, ConstantsAssumption DEF Init, TypeOK
<1>4. LossNeedsOvertaking /\ GateFits /\ AcceptedOnly /\ CursorFits /\ FramesFit
  BY <1>1, <1>2 DEF Init, LossNeedsOvertaking, GateFits, AcceptedOnly, CursorFits, FramesFit
<1>5. QED
  BY <1>3, <1>4 DEF DeliveryInv, Inv, ReplayInOrder, Init

LEMMA DeliveryAccept ==
  ASSUME DeliveryInv, NEW k \in Convs, Accept(k)
  PROVE  DeliveryInv'
<1>0. GateTypes /\ RestTypes /\ LossNeedsOvertaking /\ GateFits /\ AcceptedOnly /\ CursorFits /\ FramesFit
  BY DeliveryParts
<1>1. PICK x : x = <<k, head[k] + 1>>
  OBVIOUS
<1>2. /\ head[k] \in Nat /\ head[k] < MaxSeq
      /\ x \in Items /\ x[1] = k /\ x[2] = head[k] + 1
  <2>1. head[k] \in Nat /\ head[k] < MaxSeq
    BY <1>0, CursorNumber DEF Accept, RestTypes
  <2>2. head[k] + 1 \in 1..MaxSeq
    BY <2>1, ConstantsAssumption
  <2>3. QED
    BY <1>1, <2>1, <2>2 DEF Items
<1>3. /\ head' = [head EXCEPT ![k] = @ + 1] /\ inbox' = inbox \cup {x} /\ flying' = flying \cup {x}
      /\ UNCHANGED <<conn, after, pos, seen, buffered, outq, ackq, cursor, store, breaks, top, ordered,
                     overtaken, unpushed>>
  BY <1>1 DEF Accept, gate, client, ghosts
<1>4. head' \in Cursors /\ head'[k] = head[k] + 1 /\ \A c \in Convs : c # k => head'[c] = head[c]
  <2>1. head[k] + 1 \in 0..MaxSeq
    BY <1>2, ConstantsAssumption
  <2>2. QED
    BY <1>0, <1>3, <2>1 DEF RestTypes, Cursors
<1>5. Accepted' = Accepted \cup {x}
  <2>1. ASSUME NEW i \in Items PROVE i[2] <= head'[i[1]] <=> i[2] <= head[i[1]] \/ i = x
    <3>0. i[1] \in Convs /\ i[2] \in Nat /\ i = <<i[1], i[2]>> /\ head[i[1]] \in Nat
      BY <1>0, ItemPair, CursorNumber DEF RestTypes
    <3>1. CASE i[1] # k
      BY <1>2, <1>4, <3>0, <3>1
    <3>2. CASE i[1] = k
      <4>1. i = x <=> i[2] = head[k] + 1
        BY <1>1, <1>2, <3>0, <3>2
      <4>2. QED
        BY <1>2, <1>4, <3>0, <3>2, <4>1
    <3>3. QED
      BY <3>1, <3>2
  <2>2. QED
    BY <1>2, <2>1 DEF Accepted
<1>6. /\ ~(x[2] <= cursor[x[1]]) /\ ~(x[2] <= top[x[1]])
      /\ \A n \in DOMAIN outq : \A j \in outq[n] : x[1] = j[1] => ~(x[2] <= j[2])
  <2>1. cursor[k] \in Nat /\ top[k] \in Nat /\ cursor[k] <= head[k] /\ top[k] <= head[k]
    BY <1>0, CursorNumber DEF AcceptedOnly, RestTypes, GateTypes
  <2>2. ASSUME NEW n \in DOMAIN outq, NEW j \in outq[n], x[1] = j[1] PROVE ~(x[2] <= j[2])
    <3>1. j \in Items /\ j[2] <= head[j[1]] /\ j[2] \in Nat
      BY <1>0, AcceptedItem, ItemPair DEF AcceptedOnly
    <3>2. QED
      BY <1>2, <2>2, <3>1
  <2>3. QED
    BY <1>2, <2>1, <2>2
<1>7. GateTypes' /\ RestTypes'
  BY <1>0, <1>2, <1>3, <1>4 DEF GateTypes, RestTypes
<1>8. LossNeedsOvertaking' /\ CursorFits'
  BY <1>0, <1>3, <1>5, <1>6 DEF LossNeedsOvertaking, CursorFits
<1>9. GateFits'
  BY <1>0, <1>3 DEF GateFits
<1>10. AcceptedOnly'
  <2>1. \A c \in Convs : cursor[c] <= head'[c] /\ top[c] <= head'[c]
    <3>1. ASSUME NEW c \in Convs PROVE cursor[c] <= head'[c] /\ top[c] <= head'[c]
      <4>1. cursor[c] \in Nat /\ top[c] \in Nat /\ head[c] \in Nat /\ cursor[c] <= head[c] /\ top[c] <= head[c]
        BY <1>0, CursorNumber DEF AcceptedOnly, RestTypes, GateTypes
      <4>2. QED
        BY <1>4, <4>1
    <3>2. QED
      BY <3>1
  <2>2. QED
    BY <1>0, <1>3, <1>5, <2>1 DEF AcceptedOnly
<1>11. FramesFit'
  <2>1. \A n : Queued(n)' = Queued(n)
    BY <1>3 DEF Queued
  <2>2. Queued(Len(outq))' = Queued(Len(outq))
    BY <1>3 DEF Queued
  <2>3. QED
    BY <1>0, <1>3, <1>5, <1>6, <2>1, <2>2 DEF FramesFit
<1>12. QED
  BY <1>7, <1>8, <1>9, <1>10, <1>11, DeliveryWhole

(* The close of a connection.                                              *)
LEMMA DeliveryClosed ==
  ASSUME DeliveryInv, Closed, UNCHANGED <<head, inbox, cursor, store, ordered, overtaken>>,
         flying' \subseteq flying, breaks' \in 0..MaxBreaks, unpushed' \subseteq Items
  PROVE  DeliveryInv'
<1>0. GateTypes /\ RestTypes /\ LossNeedsOvertaking /\ GateFits /\ AcceptedOnly /\ CursorFits /\ FramesFit
  BY DeliveryParts
<1>1. ZeroCursors \in Cursors /\ \A k \in Convs : ZeroCursors[k] = 0
  BY ConstantsAssumption DEF ZeroCursors, Cursors
<1>2. Accepted' = Accepted
  BY DEF Accepted
<1>3. GateTypes' /\ RestTypes'
  BY <1>0, <1>1 DEF Closed, GateTypes, RestTypes
<1>4. LossNeedsOvertaking' /\ CursorFits' /\ GateFits'
  BY <1>0, <1>2 DEF Closed, LossNeedsOvertaking, CursorFits, GateFits
<1>5. AcceptedOnly'
  <2>1. \A k \in Convs : cursor'[k] <= head'[k] /\ top'[k] <= head'[k]
    <3>1. \A k \in Convs : head[k] \in Nat /\ top'[k] = 0 /\ cursor[k] <= head[k]
      BY <1>0, <1>1, CursorNumber DEF Closed, AcceptedOnly, RestTypes
    <3>2. QED
      BY <3>1
  <2>2. QED
    BY <1>0, <1>2, <2>1 DEF AcceptedOnly, Closed
<1>6. FramesFit'
  <2>1. \A i \in Accepted : ~(i[2] <= top'[i[1]])
    <3>1. \A i \in Accepted : i[1] \in Convs /\ i[2] \in Nat /\ i[2] > 0
      BY AcceptedItem, ItemPair
    <3>2. QED
      BY <1>1, <3>1 DEF Closed
  <2>2. QED
    BY <1>2, <2>1 DEF FramesFit, Closed
<1>7. QED
  BY <1>3, <1>4, <1>5, <1>6, DeliveryWhole

(* A page of the scan is a set of rows beyond its position, and its last   *)
(* row is the next position.                                               *)
LEMMA DeliveryPage ==
  ASSUME DeliveryInv
  PROVE  /\ Page \subseteq inbox /\ Page \subseteq Items
         /\ \A i \in Page : i[1] > pos[1] \/ (i[1] = pos[1] /\ i[2] > pos[2])
         /\ pos[1] \in 0..NConvs /\ pos[2] \in 0..MaxSeq
         /\ Page # {} => \E m \in Page : \A j \in Page : Below(j, m)
<1>0. GateTypes /\ RestTypes
  BY DeliveryParts
<1>1. pos[1] \in 0..NConvs /\ pos[2] \in 0..MaxSeq
  <2>1. CASE pos = <<0, 0>>
    BY <2>1, ConstantsAssumption
  <2>2. CASE pos \in Items
    BY <2>2, ItemPair, ConstantsAssumption DEF Convs
  <2>3. QED
    BY <1>0, <2>1, <2>2 DEF GateTypes
<1>2. Page \subseteq inbox /\ Page \subseteq Items /\ \A i \in Page : ~Below(i, pos)
  BY <1>0 DEF Page, RestTypes
<1>3. ASSUME NEW i \in Page PROVE i[1] > pos[1] \/ (i[1] = pos[1] /\ i[2] > pos[2])
  <2>1. i[1] \in 1..NConvs /\ i[2] \in Nat /\ NConvs \in Nat /\ MaxSeq \in Nat
    BY <1>2, ItemPair, ConstantsAssumption DEF Convs
  <2>2. ~(i[1] < pos[1] \/ (i[1] = pos[1] /\ i[2] <= pos[2]))
    BY <1>2 DEF Below
  <2>3. QED
    BY <1>1, <2>1, <2>2
<1>4. ASSUME Page # {} PROVE \E m \in Page : \A j \in Page : Below(j, m)
  <2>1. PICK P : P = Page
    OBVIOUS
  <2>2. P # {} /\ NConvs \in Nat /\ MaxSeq \in Nat
        /\ \A i \in P : i[1] \in 0..NConvs /\ i[2] \in 0..MaxSeq
    BY <1>2, <1>4, <2>1, ItemPair, ConstantsAssumption DEF Convs
  <2>3. PICK c \in {i[1] : i \in P} : \A d \in {i[1] : i \in P} : d <= c
    <3>1. {i[1] : i \in P} \in SUBSET (0..NConvs) /\ {i[1] : i \in P} # {}
      BY <2>2
    <3>2. QED
      BY <2>2, <3>1, GreatestNat
  <2>4. PICK n \in {i[2] : i \in {j \in P : j[1] = c}} : \A d \in {i[2] : i \in {j \in P : j[1] = c}} : d <= n
    <3>1. {i[2] : i \in {j \in P : j[1] = c}} \in SUBSET (0..MaxSeq) /\ {i[2] : i \in {j \in P : j[1] = c}} # {}
      BY <2>2, <2>3
    <3>2. QED
      BY <2>2, <3>1, GreatestNat
  <2>5. PICK m \in P : m[1] = c /\ m[2] = n
    BY <2>4
  <2>6. ASSUME NEW j \in P PROVE Below(j, m)
    <3>1. j[1] <= c /\ (j[1] = c => j[2] <= n)
      BY <2>3, <2>4
    <3>2. j[1] \in Int /\ c \in Int
      BY <2>2, <2>5
    <3>3. QED
      BY <2>5, <3>1, <3>2 DEF Below
  <2>7. QED
    BY <2>1, <2>6
<1>5. QED
  BY <1>1, <1>2, <1>3, <1>4

(* PullInbox and FinishReplay put a frame on the connection.               *)
LEMMA DeliveryEmits ==
  ASSUME DeliveryInv, NEW items \in SUBSET Accepted, Enqueue(items), UNCHANGED <<head, inbox, store>>,
         UNCHANGED <<flying, cursor, ackq, breaks, unpushed, after>>, ordered' = TRUE,
         seen' \in Cursors, buffered' \subseteq buffered, pos' \in {<<0, 0>>} \cup Items,
         conn' \in {"down", "replay", "drained", "open"}, GateFits'
  PROVE  DeliveryInv'
<1>0. GateTypes /\ RestTypes /\ LossNeedsOvertaking /\ GateFits /\ AcceptedOnly /\ CursorFits /\ FramesFit
  BY DeliveryParts
<1>1. /\ outq' \in Seq(SUBSET Items) /\ top' \in Cursors
      /\ overtaken' \subseteq Items /\ overtaken \subseteq overtaken'
      /\ \A n \in DOMAIN outq' : outq'[n] \subseteq Accepted
      /\ \A k \in Convs : top'[k] <= head[k]
      /\ FramesFit'
  BY DeliveryEnqueue
<1>2. Accepted' = Accepted
  BY DEF Accepted
<1>3. GateTypes' /\ RestTypes'
  BY <1>0, <1>1 DEF GateTypes, RestTypes
<1>4. LossNeedsOvertaking' /\ CursorFits'
  BY <1>0, <1>1, <1>2 DEF LossNeedsOvertaking, CursorFits
<1>5. AcceptedOnly'
  BY <1>0, <1>1, <1>2 DEF AcceptedOnly
<1>6. QED
  BY <1>1, <1>3, <1>4, <1>5, DeliveryWhole

LEMMA DeliveryPull ==
  ASSUME DeliveryInv, PullInbox
  PROVE  DeliveryInv'
<1>0. GateTypes /\ RestTypes /\ LossNeedsOvertaking /\ GateFits /\ AcceptedOnly /\ CursorFits /\ FramesFit
  BY DeliveryParts
<1>1. conn = "replay" /\ UNCHANGED <<head, inbox, flying, cursor, store, breaks, unpushed>>
  BY DEF PullInbox, client
<1>2. CASE Closed /\ UNCHANGED <<ordered, overtaken>>
  <2>1. breaks' \in 0..MaxBreaks /\ unpushed' \subseteq Items /\ flying' \subseteq flying
    BY <1>0, <1>1 DEF RestTypes
  <2>2. QED
    BY <1>1, <1>2, <2>1, DeliveryClosed
<1>3. CASE /\ Emit(Streamed) /\ seen' = Advance(Streamed)
           /\ pos' = IF Page = {} THEN pos ELSE CHOOSE i \in Page : \A j \in Page : Below(j, i)
           /\ conn' = IF EndOfReplay THEN "drained" ELSE "replay"
           /\ UNCHANGED <<after, buffered, ackq>>
  <2>1. /\ Streamed \subseteq Page /\ Page \subseteq Items /\ Streamed \in SUBSET Accepted
        /\ Streamed \in SUBSET Items
    BY <1>0, DeliveryPage DEF Streamed, AcceptedOnly
  <2>2. Enqueue(Streamed)
    BY <1>3 DEF Emit
  <2>3. /\ top = seen
        /\ \A k \in Convs : (k > pos[1] => top[k] = 0) /\ (k = pos[1] => top[k] <= pos[2])
    BY <1>0, <1>1 DEF GateFits
  <2>4. \A i \in Streamed : i[2] > top[i[1]]
    <3>1. ASSUME NEW i \in Streamed PROVE i[2] > top[i[1]]
      <4>1. i[1] \in Convs /\ i[2] \in Nat /\ i[2] > 0 /\ top[i[1]] \in Nat
        BY <1>0, <2>1, ItemPair, CursorNumber DEF GateTypes
      <4>2. i[1] > pos[1] \/ (i[1] = pos[1] /\ i[2] > pos[2])
        BY <2>1, DeliveryPage
      <4>3. pos[2] \in Nat
        BY DeliveryPage, ConstantsAssumption
      <4>4. QED
        BY <2>3, <4>1, <4>2, <4>3
    <3>2. QED
      BY <3>1
  <2>5. ordered' = TRUE
    BY <1>0, <1>3, <2>4 DEF Emit, GateTypes
  <2>6. /\ top' = seen' /\ seen' \in Cursors /\ top \in Cursors
        /\ \A k \in Convs : top'[k] = top[k] \/ \E j \in Streamed : j[1] = k /\ j[2] = top'[k]
    <3>1. top' = Highest(Streamed, top) /\ seen' = Highest(Streamed, top) /\ top \in Cursors
      BY <1>0, <1>3, <2>2, <2>3 DEF Enqueue, Advance, GateTypes
    <3>2. QED
      BY <2>1, <3>1, DeliveryHighest
  <2>7. /\ pos' \in {<<0, 0>>} \cup Items
        /\ \A k \in Convs : (k > pos'[1] => top'[k] = 0) /\ (k = pos'[1] => top'[k] <= pos'[2])
    <3>1. CASE Page = {}
      <4>1. pos' = pos /\ Streamed = {}
        BY <1>3, <2>1, <3>1
      <4>2. QED
        BY <1>0, <2>3, <2>6, <4>1 DEF GateTypes
    <3>2. CASE Page # {}
      <4>1. \E m \in Page : \A j \in Page : Below(j, m)
        BY <3>2, DeliveryPage
      <4>2. pos' \in Page /\ \A j \in Page : Below(j, pos')
        BY <1>3, <3>2, <4>1
      <4>3. /\ pos'[1] \in 1..NConvs /\ pos'[2] \in Nat /\ pos[1] \in 0..NConvs /\ pos[2] \in Nat /\ NConvs \in Nat
        BY <2>1, <4>2, ItemPair, DeliveryPage, ConstantsAssumption DEF Convs
      <4>4. pos'[1] > pos[1] \/ (pos'[1] = pos[1] /\ pos'[2] > pos[2])
        BY <4>2, DeliveryPage
      <4>5. ASSUME NEW k \in Convs PROVE (k > pos'[1] => top'[k] = 0) /\ (k = pos'[1] => top'[k] <= pos'[2])
        <5>0. k \in 1..NConvs /\ top[k] \in Nat
          BY <2>6, CursorNumber DEF Convs
        <5>1. CASE top'[k] = top[k]
          <6>1. k > pos'[1] => k > pos[1]
            BY <4>3, <4>4, <5>0
          <6>2. k = pos'[1] => (k > pos[1] \/ (k = pos[1] /\ pos'[2] > pos[2]))
            BY <4>3, <4>4, <5>0
          <6>3. QED
            BY <2>3, <4>3, <5>0, <5>1, <6>1, <6>2
        <5>2. CASE \E j \in Streamed : j[1] = k /\ j[2] = top'[k]
          <6>1. PICK j \in Streamed : j[1] = k /\ j[2] = top'[k]
            BY <5>2
          <6>2. j[1] < pos'[1] \/ (j[1] = pos'[1] /\ j[2] <= pos'[2])
            BY <2>1, <4>2 DEF Below
          <6>3. QED
            BY <4>3, <5>0, <6>1, <6>2
        <5>3. QED
          BY <2>6, <5>1, <5>2
      <4>6. QED
        BY <2>1, <4>2, <4>5
    <3>3. QED
      BY <3>1, <3>2
  <2>8. conn' \in {"replay", "drained"}
    BY <1>3
  <2>9. GateFits'
    BY <2>6, <2>7, <2>8 DEF GateFits
  <2>10. QED
    BY <1>1, <1>3, <2>1, <2>2, <2>5, <2>6, <2>7, <2>8, <2>9, DeliveryEmits
<1>4. QED
  BY <1>2, <1>3 DEF PullInbox

LEMMA DeliveryFinish ==
  ASSUME DeliveryInv, FinishReplay
  PROVE  DeliveryInv'
<1>0. GateTypes /\ RestTypes /\ LossNeedsOvertaking /\ GateFits /\ AcceptedOnly /\ CursorFits /\ FramesFit
  BY DeliveryParts
<1>1. conn = "drained" /\ UNCHANGED <<head, inbox, flying, cursor, store, breaks, unpushed>>
  BY DEF FinishReplay, client
<1>2. CASE Closed /\ UNCHANGED <<ordered, overtaken>>
  <2>1. breaks' \in 0..MaxBreaks /\ unpushed' \subseteq Items /\ flying' \subseteq flying
    BY <1>0, <1>1 DEF RestTypes
  <2>2. QED
    BY <1>1, <1>2, <2>1, DeliveryClosed
<1>3. CASE /\ Emit(Pending) /\ conn' = "open" /\ buffered' = {} /\ seen' = ZeroCursors
           /\ UNCHANGED <<after, pos, ackq>>
  <2>1. Pending \in SUBSET Accepted /\ \A i \in Pending : i[2] > seen[i[1]]
    BY <1>0 DEF Pending, AcceptedOnly
  <2>2. Enqueue(Pending) /\ ordered' = TRUE
    <3>1. top = seen
      BY <1>0, <1>1 DEF GateFits
    <3>2. QED
      BY <1>0, <1>3, <2>1, <3>1 DEF Emit, GateTypes
  <2>3. seen' \in Cursors /\ buffered' \subseteq buffered /\ pos' \in {<<0, 0>>} \cup Items
        /\ conn' \in {"down", "replay", "drained", "open"}
    BY <1>0, <1>3, ConstantsAssumption DEF ZeroCursors, Cursors, GateTypes
  <2>4. GateFits'
    BY <1>3 DEF GateFits
  <2>5. QED
    BY <1>1, <1>3, <2>1, <2>2, <2>3, <2>4, DeliveryEmits
<1>4. QED
  BY <1>2, <1>3 DEF FinishReplay

(* Connect, LiveLost, AckFails: nothing moves on the connection.           *)
LEMMA DeliveryQuiet ==
  ASSUME DeliveryInv, UNCHANGED <<head, inbox, cursor, store, buffered, outq, top, ordered, overtaken>>,
         flying' \subseteq flying, after' \in Cursors, UNCHANGED <<pos, seen>>,
         conn' = conn \/ (conn = "down" /\ conn' = "replay"),
         ackq' \in Seq(Cursors), breaks' \in 0..MaxBreaks, unpushed' \subseteq Items,
         \A n \in DOMAIN ackq' : \A k \in Convs : ackq'[n][k] <= cursor[k]
  PROVE  DeliveryInv'
<1>0. GateTypes /\ RestTypes /\ LossNeedsOvertaking /\ GateFits /\ AcceptedOnly /\ CursorFits /\ FramesFit
  BY DeliveryParts
<1>1. Accepted' = Accepted
  BY DEF Accepted
<1>2. GateTypes' /\ RestTypes'
  BY <1>0 DEF GateTypes, RestTypes
<1>3. LossNeedsOvertaking' /\ CursorFits'
  BY <1>0, <1>1 DEF LossNeedsOvertaking, CursorFits
<1>4. GateFits'
  <2>1. ZeroCursors \in Cursors /\ \A k \in Convs : ZeroCursors[k] = 0
    BY ConstantsAssumption DEF ZeroCursors, Cursors
  <2>2. CASE conn' = conn
    BY <1>0, <2>2 DEF GateFits
  <2>3. CASE conn = "down" /\ conn' = "replay"
    <3>1. top' = ZeroCursors /\ seen' = ZeroCursors /\ pos' = <<0, 0>>
      BY <1>0, <2>3 DEF GateFits
    <3>2. \A k \in Convs : top'[k] = 0 /\ pos'[1] = 0 /\ pos'[2] = 0
      BY <2>1, <3>1
    <3>3. QED
      BY <2>3, <3>1, <3>2 DEF GateFits
  <2>4. QED
    BY <2>2, <2>3
<1>5. AcceptedOnly'
  BY <1>0, <1>1 DEF AcceptedOnly
<1>6. FramesFit'
  <2>1. (\A n : Queued(n)' = Queued(n)) /\ Queued(Len(outq))' = Queued(Len(outq))
    BY DEF Queued
  <2>2. QED
    BY <1>0, <1>1, <2>1 DEF FramesFit
<1>7. QED
  BY <1>2, <1>3, <1>4, <1>5, <1>6, DeliveryWhole

LEMMA DeliveryAckKept ==
  ASSUME DeliveryInv, ackq # <<>>
  PROVE  /\ Tail(ackq) \in Seq(Cursors)
         /\ \A n \in DOMAIN Tail(ackq) : \A k \in Convs : Tail(ackq)[n][k] <= cursor[k]
         /\ Head(ackq) \in Cursors /\ \A k \in Convs : Head(ackq)[k] <= cursor[k]
<1>1. ackq \in Seq(Cursors) /\ \A n \in DOMAIN ackq : \A k \in Convs : ackq[n][k] <= cursor[k]
  BY DeliveryParts DEF RestTypes, CursorFits
<1>2. /\ Head(ackq) \in Cursors /\ Tail(ackq) \in Seq(Cursors) /\ Len(Tail(ackq)) = Len(ackq) - 1
      /\ \A n \in 1..Len(Tail(ackq)) : Tail(ackq)[n] = ackq[n + 1]
  BY <1>1, HeadTailProperties
<1>3. /\ Len(ackq) \in Nat \ {0} /\ DOMAIN ackq = 1..Len(ackq) /\ Head(ackq) = ackq[1]
      /\ DOMAIN Tail(ackq) = 1..(Len(ackq) - 1)
  BY <1>1, <1>2, LenProperties, EmptySeq
<1>4. ASSUME NEW n \in DOMAIN Tail(ackq) PROVE Tail(ackq)[n] = ackq[n + 1] /\ n + 1 \in DOMAIN ackq
  BY <1>2, <1>3
<1>5. 1 \in DOMAIN ackq
  BY <1>3
<1>6. QED
  BY <1>1, <1>2, <1>3, <1>4, <1>5

LEMMA DeliveryAcks ==
  ASSUME DeliveryInv, AckDelivered
  PROVE  DeliveryInv'
<1>0. GateTypes /\ RestTypes /\ LossNeedsOvertaking /\ GateFits /\ AcceptedOnly /\ CursorFits /\ FramesFit
  BY DeliveryParts
<1>1. /\ ackq # <<>> /\ ackq' = Tail(ackq) /\ inbox' = Undelivered(Head(ackq))
      /\ UNCHANGED <<head, flying, conn, after, pos, seen, buffered, outq, cursor, store, breaks, top, ordered,
                     overtaken, unpushed>>
  BY DEF AckDelivered, gate, client, ghosts
<1>2. /\ ackq' \in Seq(Cursors)
      /\ \A n \in DOMAIN ackq' : \A k \in Convs : ackq'[n][k] <= cursor[k]
      /\ Head(ackq) \in Cursors /\ \A k \in Convs : Head(ackq)[k] <= cursor[k]
  BY <1>1, DeliveryAckKept
<1>3. Accepted' = Accepted /\ inbox' \subseteq inbox
  BY <1>1 DEF Accepted, Undelivered
<1>4. ASSUME NEW i \in inbox, i \notin inbox' PROVE i \in store \cup overtaken
  <2>1. i \in Accepted /\ i[1] \in Convs /\ i[2] \in Nat
    BY <1>0, ItemPair DEF AcceptedOnly, RestTypes
  <2>2. i[2] <= Head(ackq)[i[1]]
    BY <1>1, <1>4 DEF Undelivered, Covers
  <2>3. i[2] <= cursor[i[1]]
    <3>1. Head(ackq)[i[1]] \in Nat /\ cursor[i[1]] \in Nat /\ Head(ackq)[i[1]] <= cursor[i[1]]
      BY <1>0, <1>2, <2>1, CursorNumber DEF RestTypes
    <3>2. QED
      BY <2>1, <2>2, <3>1
  <2>4. QED
    BY <1>0, <2>1, <2>3 DEF CursorFits
<1>5. GateTypes' /\ RestTypes'
  BY <1>0, <1>1, <1>2, <1>3 DEF GateTypes, RestTypes
<1>6. LossNeedsOvertaking'
  BY <1>0, <1>1, <1>3, <1>4 DEF LossNeedsOvertaking
<1>7. CursorFits' /\ GateFits' /\ AcceptedOnly'
  BY <1>0, <1>1, <1>2, <1>3 DEF CursorFits, GateFits, AcceptedOnly
<1>8. FramesFit'
  <2>1. (\A n : Queued(n)' = Queued(n)) /\ Queued(Len(outq))' = Queued(Len(outq))
    BY <1>1 DEF Queued
  <2>2. QED
    BY <1>0, <1>1, <1>3, <2>1 DEF FramesFit
<1>9. QED
  BY <1>5, <1>6, <1>7, <1>8, DeliveryWhole

LEMMA DeliveryLive ==
  ASSUME DeliveryInv, NEW i \in Items, LiveArrive(i)
  PROVE  DeliveryInv'
<1>0. GateTypes /\ RestTypes /\ LossNeedsOvertaking /\ GateFits /\ AcceptedOnly /\ CursorFits /\ FramesFit
  BY DeliveryParts
<1>1. /\ i \in flying /\ flying' = flying \ {i} /\ flying' \subseteq flying
      /\ UNCHANGED <<head, inbox, cursor, store, breaks, ordered, unpushed>>
  BY DEF LiveArrive, client
<1>2. /\ i \in Accepted /\ Accepted' = Accepted /\ breaks' \in 0..MaxBreaks /\ unpushed' \subseteq Items
      /\ after \in Cursors /\ ackq \in Seq(Cursors)
      /\ \A n \in DOMAIN ackq : \A k \in Convs : ackq[n][k] <= cursor[k]
  BY <1>0, <1>1 DEF AcceptedOnly, Accepted, RestTypes, GateTypes, CursorFits
<1>3. CASE Closed /\ UNCHANGED overtaken
  BY <1>1, <1>2, <1>3, DeliveryClosed
<1>4. CASE conn = "down" /\ UNCHANGED <<conn, gate, outq, ackq, top, overtaken>>
  BY <1>1, <1>2, <1>4, DeliveryQuiet DEF gate
<1>5. CASE /\ conn \in {"replay", "drained"} /\ buffered' = buffered \cup {i}
           /\ UNCHANGED <<conn, after, pos, seen, outq, ackq, top>> /\ UNCHANGED overtaken
  <2>1. GateTypes' /\ RestTypes'
    BY <1>0, <1>1, <1>5 DEF GateTypes, RestTypes
  <2>2. LossNeedsOvertaking' /\ CursorFits' /\ GateFits' /\ AcceptedOnly'
    BY <1>0, <1>1, <1>2, <1>5 DEF LossNeedsOvertaking, CursorFits, GateFits, AcceptedOnly
  <2>3. (\A n : Queued(n)' = Queued(n)) /\ Queued(Len(outq))' = Queued(Len(outq))
    BY <1>5 DEF Queued
  <2>4. FramesFit'
    BY <1>0, <1>1, <1>2, <1>5, <2>3 DEF FramesFit
  <2>5. QED
    BY <2>1, <2>2, <2>4, DeliveryWhole
<1>6. CASE conn = "open" /\ Enqueue({i}) /\ UNCHANGED <<conn, gate, ackq>>
  <2>1. {i} \in SUBSET Accepted
    BY <1>2
  <2>2. /\ outq' \in Seq(SUBSET Items) /\ top' \in Cursors
        /\ overtaken' \subseteq Items /\ overtaken \subseteq overtaken'
        /\ \A n \in DOMAIN outq' : outq'[n] \subseteq Accepted
        /\ \A k \in Convs : top'[k] <= head[k]
        /\ FramesFit'
    BY <1>1, <1>6, <2>1, DeliveryEnqueue
  <2>3. GateTypes' /\ RestTypes'
    BY <1>0, <1>1, <1>6, <2>2 DEF GateTypes, RestTypes, gate
  <2>4. LossNeedsOvertaking' /\ CursorFits'
    BY <1>0, <1>1, <1>2, <1>6, <2>2 DEF LossNeedsOvertaking, CursorFits
  <2>5. AcceptedOnly' /\ GateFits'
    BY <1>0, <1>1, <1>2, <1>6, <2>2 DEF AcceptedOnly, GateFits, gate
  <2>6. QED
    BY <2>2, <2>3, <2>4, <2>5, DeliveryWhole
<1>7. QED
  BY <1>3, <1>4, <1>5, <1>6 DEF LiveArrive, HoldLive, Forward

(* The client takes the first frame: what its cursor now covers was in it, *)
(* or came before it.                                                      *)
LEMMA DeliveryRecv ==
  ASSUME DeliveryInv, ClientRecv
  PROVE  DeliveryInv'
<1>0. GateTypes /\ RestTypes /\ LossNeedsOvertaking /\ GateFits /\ AcceptedOnly /\ CursorFits /\ FramesFit
  BY DeliveryParts
<1>1. PICK items : items = Head(outq)
  OBVIOUS
<1>2. PICK ack : ack = [k \in Convs |-> IF \E i \in items : i[1] = k THEN NextCursor(items)[k] ELSE 0]
  OBVIOUS
<1>3. /\ outq # <<>> /\ outq' = Tail(outq)
      /\ store' = store \cup {i \in items : i[2] > cursor[i[1]]}
      /\ cursor' = Highest(items, cursor) /\ ackq' = Append(ackq, ack)
      /\ UNCHANGED <<head, inbox, flying, conn, after, pos, seen, buffered, breaks, top, ordered, overtaken,
                     unpushed>>
  BY <1>1, <1>2 DEF ClientRecv, NextCursor, gate, ghosts
<1>4. PICK n \in Nat : n = Len(outq)
  BY <1>0, LenProperties DEF GateTypes
<1>5. /\ n \in Nat \ {0} /\ DOMAIN outq = 1..n /\ items = outq[1] /\ items \in SUBSET Items
      /\ outq' \in Seq(SUBSET Items) /\ Len(outq') = n - 1 /\ DOMAIN outq' = 1..(n - 1)
      /\ \A m \in 1..(n - 1) : outq'[m] = outq[m + 1]
  <2>1. outq \in Seq(SUBSET Items)
    BY <1>0 DEF GateTypes
  <2>2. n \in Nat \ {0} /\ DOMAIN outq = 1..n /\ items = outq[1]
    BY <1>1, <1>3, <1>4, <2>1
  <2>3. /\ items \in SUBSET Items /\ Tail(outq) \in Seq(SUBSET Items) /\ Len(Tail(outq)) = n - 1
        /\ \A m \in 1..(n - 1) : Tail(outq)[m] = outq[m + 1]
    BY <1>1, <1>3, <1>4, <2>1, HeadTailProperties
  <2>4. QED
    BY <1>3, <2>2, <2>3, LenProperties
<1>6. /\ cursor' \in Cursors /\ \A k \in Convs : cursor[k] <= cursor'[k]
      /\ \A k \in Convs : cursor'[k] = cursor[k] \/ \E j \in items : j[1] = k /\ j[2] = cursor'[k]
  <2>1. cursor \in Cursors /\ items \in SUBSET Items /\ cursor' = Highest(items, cursor)
    BY <1>0, <1>3, <1>5 DEF RestTypes
  <2>2. QED
    BY <2>1, DeliveryHighest
<1>7. items \subseteq Accepted /\ Accepted' = Accepted
  <2>1. 1 \in DOMAIN outq
    BY <1>5
  <2>2. QED
    BY <1>0, <1>3, <1>5, <2>1 DEF AcceptedOnly, Accepted
<1>8. items \subseteq store' \cup overtaken /\ store \subseteq store' /\ store' \subseteq Items
  <2>1. ASSUME NEW i \in items PROVE i \in store' \cup overtaken
    <3>1. i[1] \in Convs /\ i[2] \in Nat /\ cursor[i[1]] \in Nat
      BY <1>0, <1>5, ItemPair, CursorNumber DEF RestTypes
    <3>2. CASE i[2] > cursor[i[1]]
      BY <1>3, <3>2
    <3>3. CASE i[2] <= cursor[i[1]]
      BY <1>0, <1>3, <1>7, <3>3 DEF CursorFits
    <3>4. QED
      BY <3>1, <3>2, <3>3
  <2>2. QED
    BY <1>0, <1>3, <1>5, <2>1 DEF RestTypes
<1>9. ASSUME NEW m \in 0..(n - 1) PROVE Queued(m + 1) \subseteq items \cup Queued(m)'
  <2>1. ASSUME NEW l \in 1..(m + 1), NEW x \in outq[l] PROVE x \in items \/ \E l2 \in 1..m : x \in outq'[l2]
    <3>1. CASE l = 1
      BY <1>5, <2>1, <3>1
    <3>2. CASE l # 1
      <4>1. l - 1 \in 1..m /\ l - 1 \in 1..(n - 1) /\ (l - 1) + 1 = l
        BY <3>2
      <4>2. outq'[l - 1] = outq[l]
        BY <1>5, <4>1
      <4>3. QED
        BY <2>1, <4>1, <4>2
    <3>3. QED
      BY <3>1, <3>2
  <2>2. QED
    BY <2>1 DEF Queued
<1>10. ASSUME NEW i \in Accepted, i[2] <= cursor'[i[1]] PROVE i \in store' \cup overtaken
  <2>0. i \in Items /\ i[1] \in Convs
    BY AcceptedItem, ItemPair
  <2>1. CASE cursor'[i[1]] = cursor[i[1]]
    BY <1>0, <1>8, <1>10, <2>1 DEF CursorFits
  <2>2. CASE \E j \in items : j[1] = i[1] /\ j[2] = cursor'[i[1]]
    <3>1. PICK j \in items : j[1] = i[1] /\ j[2] = cursor'[i[1]]
      BY <2>2
    <3>2. 1 \in DOMAIN outq /\ j \in outq[1]
      BY <1>5
    <3>3. i \in store \cup overtaken \cup Queued(1)
      BY <1>0, <1>10, <3>1, <3>2 DEF FramesFit
    <3>4. Queued(1) = items
      <4>1. 1..1 = {1}
        OBVIOUS
      <4>2. QED
        BY <1>5, <4>1 DEF Queued
    <3>5. QED
      BY <1>8, <3>3, <3>4
  <2>3. QED
    BY <1>6, <2>0, <2>1, <2>2
<1>11. /\ ack \in Cursors /\ \A k \in Convs : ack[k] <= cursor'[k]
  <2>1. \A k \in Convs : cursor'[k] \in Nat /\ cursor'[k] \in 0..MaxSeq /\ 0 \in 0..MaxSeq
    BY <1>6, CursorNumber, ConstantsAssumption
  <2>2. ack = [k \in Convs |-> IF \E i \in items : i[1] = k THEN cursor'[k] ELSE 0]
    BY <1>2, <1>3 DEF NextCursor
  <2>3. QED
    BY <2>1, <2>2 DEF Cursors
<1>12. /\ ackq' \in Seq(Cursors) /\ \A m \in DOMAIN ackq' : \A k \in Convs : ackq'[m][k] <= cursor'[k]
  <2>1. ackq \in Seq(Cursors) /\ ackq' = Append(ackq, ack)
    BY <1>0, <1>3 DEF RestTypes
  <2>2. /\ ackq' \in Seq(Cursors) /\ DOMAIN ackq' = 1..(Len(ackq) + 1) /\ Len(ackq) \in Nat
        /\ DOMAIN ackq = 1..Len(ackq)
        /\ ackq'[Len(ackq) + 1] = ack /\ \A m \in 1..Len(ackq) : ackq'[m] = ackq[m]
    BY <1>11, <2>1
  <2>3. ASSUME NEW m \in DOMAIN ackq', NEW k \in Convs PROVE ackq'[m][k] <= cursor'[k]
    <3>1. CASE m = Len(ackq) + 1
      BY <1>11, <2>2, <3>1
    <3>2. CASE m \in 1..Len(ackq)
      <4>1. ackq'[m] = ackq[m] /\ ackq[m] \in Cursors /\ ackq[m][k] <= cursor[k]
        BY <1>0, <2>1, <2>2, <3>2, ElementOfSeq DEF CursorFits
      <4>2. ackq[m][k] \in Nat /\ cursor[k] \in Nat /\ cursor'[k] \in Nat /\ cursor[k] <= cursor'[k]
        BY <1>0, <1>6, <4>1, CursorNumber DEF RestTypes
      <4>3. QED
        BY <4>1, <4>2
    <3>3. QED
      BY <2>2, <3>1, <3>2
  <2>4. QED
    BY <2>2, <2>3
<1>13. GateTypes' /\ RestTypes'
  BY <1>0, <1>3, <1>5, <1>6, <1>8, <1>12 DEF GateTypes, RestTypes
<1>14. LossNeedsOvertaking' /\ CursorFits' /\ GateFits'
  BY <1>0, <1>3, <1>7, <1>8, <1>10, <1>12 DEF LossNeedsOvertaking, CursorFits, GateFits
<1>15. AcceptedOnly'
  <2>1. ASSUME NEW m \in DOMAIN outq' PROVE outq'[m] \subseteq Accepted
    <3>1. m + 1 \in DOMAIN outq /\ outq'[m] = outq[m + 1]
      BY <1>5
    <3>2. QED
      BY <1>0, <3>1 DEF AcceptedOnly
  <2>2. \A k \in Convs : cursor'[k] <= head[k]
    BY <1>0, <1>6, <1>7, AcceptedItem DEF AcceptedOnly
  <2>3. QED
    BY <1>0, <1>3, <1>7, <2>1, <2>2 DEF AcceptedOnly
<1>16. FramesFit'
  <2>1. ASSUME NEW m \in DOMAIN outq', NEW j \in outq'[m], NEW i \in Accepted, i[1] = j[1], i[2] <= j[2]
        PROVE  i \in store' \cup overtaken \cup Queued(m)'
    <3>1. m \in 0..(n - 1) /\ m + 1 \in DOMAIN outq /\ j \in outq[m + 1]
      BY <1>5, <2>1
    <3>2. i \in store \cup overtaken \cup Queued(m + 1)
      BY <1>0, <2>1, <3>1 DEF FramesFit
    <3>3. QED
      BY <1>8, <1>9, <3>1, <3>2
  <2>2. ASSUME NEW i \in Accepted, i[2] <= top[i[1]] PROVE i \in store' \cup overtaken \cup Queued(n - 1)'
    <3>1. n - 1 \in 0..(n - 1) /\ (n - 1) + 1 = n
      BY <1>5
    <3>2. i \in store \cup overtaken \cup Queued(n)
      BY <1>0, <1>4, <2>2 DEF FramesFit
    <3>3. Queued(n) \subseteq items \cup Queued(n - 1)'
      BY <1>9, <3>1
    <3>4. QED
      BY <1>8, <3>2, <3>3
  <2>3. Queued(Len(outq))' = Queued(n - 1)'
    BY <1>5 DEF Queued
  <2>4. QED
    BY <1>3, <1>7, <2>1, <2>2, <2>3 DEF FramesFit
<1>17. QED
  BY <1>13, <1>14, <1>15, <1>16, DeliveryWhole

LEMMA DeliveryStep == DeliveryInv /\ [Next]_vars => DeliveryInv'
<1> SUFFICES ASSUME DeliveryInv, [Next]_vars PROVE DeliveryInv'
  OBVIOUS
<1>0. /\ after \in Cursors /\ cursor \in Cursors /\ ackq \in Seq(Cursors)
      /\ breaks \in 0..MaxBreaks /\ unpushed \subseteq Items
      /\ \A n \in DOMAIN ackq : \A k \in Convs : ackq[n][k] <= cursor[k]
  BY DeliveryParts DEF GateTypes, RestTypes, CursorFits
<1>1. CASE UNCHANGED vars
  BY <1>0, <1>1, DeliveryQuiet DEF vars, gate, client, ghosts
<1>2. CASE Connect
  <2>1. after' \in Cursors
    BY <1>0, <1>2, ConstantsAssumption DEF Connect, Resumed, ZeroCursors, Cursors
  <2>2. QED
    BY <1>0, <1>2, <2>1, DeliveryQuiet DEF Connect, client, ghosts
<1>3. ASSUME NEW i \in Items, LiveLost(i) PROVE DeliveryInv'
  <2>1. unpushed' \subseteq Items
    BY <1>0, <1>3 DEF LiveLost
  <2>2. QED
    BY <1>0, <1>3, <2>1, DeliveryQuiet DEF LiveLost, gate, client
<1>4. CASE AckFails
  <2>1. breaks' \in 0..MaxBreaks
    BY <1>0, <1>4, ConstantsAssumption DEF AckFails
  <2>2. QED
    BY <1>0, <1>4, <2>1, DeliveryQuiet, DeliveryAckKept DEF AckFails, gate, client, ghosts
<1>5. CASE Disconnect
  <2>1. breaks' \in 0..MaxBreaks
    BY <1>0, <1>5, ConstantsAssumption DEF Disconnect
  <2>2. QED
    BY <1>0, <1>5, <2>1, DeliveryClosed DEF Disconnect, client
<1>6. QED
  BY <1>1, <1>2, <1>3, <1>4, <1>5, DeliveryAccept, DeliveryPull, DeliveryFinish, DeliveryLive, DeliveryRecv,
     DeliveryAcks DEF Next

-----------------------------------------------------------------------------
(* The client's connection.                                                *)

\* What the application and the server's answers write.
ClientSends ==
    /\ heard \in [Sockets -> SUBSET Msgs] /\ greeted \subseteq Sockets
    /\ outbox \subseteq Msgs /\ done \subseteq Msgs
    /\ flushes \in Nat /\ batches \in Nat /\ refused \subseteq Msgs

\* The timers and the state.
ClientTimers ==
    /\ state \in W!States /\ transport \in Sockets \cup {NoSock}
    /\ reconnect \in BOOLEAN /\ beat \in BOOLEAN /\ pong \in BOOLEAN
    /\ W!TimersMatchState

\* The sockets.
ClientSockets ==
    /\ wwire \in [Sockets -> {"new", "opening", "open", "mute", "dead"}]
    /\ first \in [Sockets -> {"none", "hello", "msg_send", "client_ack"}]
    /\ W!HelloFirst /\ W!SocketFits

LEMMA ClientParts ==
  ASSUME W!ClientInv PROVE ClientSends /\ ClientTimers /\ ClientSockets
  BY DEF W!ClientInv, W!Inv, W!TypeOK, ClientSends, ClientTimers, ClientSockets

LEMMA ClientWhole ==
  ASSUME ClientSends', ClientTimers', ClientSockets' PROVE W!ClientInv'
  BY DEF W!ClientInv, W!Inv, W!TypeOK, ClientSends, ClientTimers, ClientSockets

LEMMA ClientInit == W!Init => W!ClientInv /\ Session!Init
<1> SUFFICES ASSUME W!Init PROVE W!ClientInv /\ Session!Init
  OBVIOUS
<1>1. W!TypeOK
  BY DEF W!Init, W!TypeOK, W!States
<1>2. W!TimersMatchState
  BY DEF W!Init, W!TimersMatchState
<1>3. W!HelloFirst /\ W!SocketFits
  BY DEF W!Init, W!HelloFirst, W!SocketFits
<1>4. Session!Init
  BY DEF W!Init, Session!Init, W!Mode, W!Used
<1>5. QED
  BY <1>1, <1>2, <1>3, <1>4 DEF W!ClientInv, W!Inv

(* A frame that goes out on the current transport is not its first.        *)
LEMMA ClientSent ==
  ASSUME ClientSends, ClientTimers, ClientSockets,
         NEW f, NEW ms \in SUBSET Msgs, W!Sent(transport, f, ms)
  PROVE  first' = first /\ heard' \in [Sockets -> SUBSET Msgs]
<1>1. first' = first
  <2>1. CASE transport = NoSock
    BY <2>1 DEF W!Sent
  <2>2. CASE transport # NoSock
    <3>1. transport \in Sockets
      BY <2>2 DEF ClientTimers
    <3>2. CASE wwire[transport] \in {"open", "mute"}
      BY <3>1, <3>2 DEF W!Sent, ClientSockets, W!SocketFits
    <3>3. CASE wwire[transport] = "opening"
      BY <3>3 DEF W!Sent, W!CanSend
    <3>4. QED
      BY <2>2, <3>2, <3>3 DEF ClientSockets, W!SocketFits
  <2>3. QED
    BY <2>1, <2>2
<1>2. heard' \in [Sockets -> SUBSET Msgs]
  <2>1. CASE heard' = heard
    BY <2>1 DEF ClientSends
  <2>2. CASE heard' # heard
    <3>1. transport \in Sockets /\ heard' = [heard EXCEPT ![transport] = @ \cup ms]
      BY <2>2 DEF W!Sent, ClientTimers
    <3>2. QED
      BY <3>1 DEF ClientSends
  <2>3. QED
    BY <2>1, <2>2
<1>3. QED
  BY <1>1, <1>2

(* Steps that leave the state and the sockets alone.                       *)
LEMMA ClientTasks ==
  ASSUME W!ClientInv, W!Tasks \/ \E m \in Msgs : W!Enqueue(m)
  PROVE  W!ClientInv'
<1> USE ClientParts
<1>1. UNCHANGED <<state, transport, reconnect, beat, pong, wwire, greeted, done, refused>>
  BY DEF W!Tasks, W!FlushResumes, W!BatchResumes, W!Enqueue, W!timers, W!net
<1>2. /\ first' = first /\ heard' \in [Sockets -> SUBSET Msgs]
      /\ outbox' \subseteq Msgs /\ flushes' \in Nat /\ batches' \in Nat
  <2>1. CASE W!FlushResumes
    <3>1. outbox \in SUBSET Msgs /\ W!Sent(transport, "msg_send", outbox)
      BY <2>1 DEF W!FlushResumes, ClientSends
    <3>2. flushes' = flushes - 1 /\ flushes > 0 /\ batches' = batches /\ outbox' = outbox
      BY <2>1 DEF W!FlushResumes
    <3>3. QED
      BY <3>1, <3>2, ClientSent DEF ClientSends
  <2>2. CASE W!BatchResumes
    <3>1. {} \in SUBSET Msgs /\ W!Sent(transport, "client_ack", {})
      BY <2>2 DEF W!BatchResumes
    <3>2. batches' = batches - 1 /\ batches > 0 /\ flushes' = flushes /\ outbox' = outbox
      BY <2>2 DEF W!BatchResumes
    <3>3. QED
      BY <3>1, <3>2, ClientSent DEF ClientSends
  <2>3. CASE \E m \in Msgs : W!Enqueue(m)
    BY <2>3 DEF W!Enqueue, W!net, ClientSends
  <2>4. QED
    BY <2>1, <2>2, <2>3 DEF W!Tasks
<1>3. ClientSends'
  BY <1>1, <1>2 DEF ClientSends
<1>4. ClientTimers' /\ ClientSockets'
  BY <1>1, <1>2 DEF ClientTimers, ClientSockets, W!TimersMatchState, W!HelloFirst, W!SocketFits
<1>5. QED
  BY <1>3, <1>4, ClientWhole

(* Start, ReconnectFires.                                                  *)
LEMMA ClientDials ==
  ASSUME W!ClientInv, NEW s \in Sockets, W!Start(s) \/ W!ReconnectFires(s)
  PROVE  W!ClientInv' /\ Session!Dial(s)
<1> USE ClientParts
<1>1. W!Connect(s) /\ state \in {"idle", "closed", "backoff"}
  BY DEF W!Start, W!ReconnectFires, W!Startable, ClientTimers, W!TimersMatchState
<1>2. ClientSends'
  BY <1>1 DEF W!Connect, W!app, ClientSends
<1>3. ClientTimers'
  BY <1>1, ClientConstants DEF W!Connect, ClientTimers, W!TimersMatchState, W!States
<1>4. ClientSockets'
  BY <1>1 DEF W!Connect, ClientSockets, W!HelloFirst, W!SocketFits
<1>5. W!Mode \in {"off", "waiting"} /\ W!Mode' = "connected"
  BY <1>1 DEF W!Mode, W!Connect
<1>6. s \notin W!Used /\ W!Used' = W!Used \cup {s}
  BY <1>1 DEF W!Used, W!Connect, ClientSockets
<1>7. QED
  BY <1>1, <1>2, <1>3, <1>4, <1>5, <1>6, ClientWhole DEF Session!Dial, W!Connect

(* The steps that give the current socket up.                              *)
ClientGone == /\ transport' = NoSock /\ state' # "live" /\ UNCHANGED <<first, heard, greeted>>
              /\ UNCHANGED <<outbox, done, flushes, batches, refused>>
              /\ wwire' = [s \in Sockets |-> IF s = transport THEN "dead" ELSE wwire[s]]

LEMMA ClientGives ==
  ASSUME W!ClientInv, ClientGone PROVE ClientSends' /\ ClientSockets' /\ W!Used' = W!Used
<1> USE ClientParts
<1>1. ClientSends'
  BY DEF ClientGone, ClientSends
<1>2. /\ wwire' \in [Sockets -> {"new", "opening", "open", "mute", "dead"}]
      /\ \A s \in Sockets : wwire'[s] = wwire[s] \/ (wwire'[s] = "dead" /\ wwire[s] # "new")
  <2>1. \A s \in Sockets : s = transport => wwire[s] # "new"
    BY ClientConstants DEF ClientSockets, W!SocketFits
  <2>2. wwire \in [Sockets -> {"new", "opening", "open", "mute", "dead"}]
    BY DEF ClientSockets
  <2>3. QED
    BY <2>1, <2>2 DEF ClientGone
<1>3. ClientSockets'
  BY <1>2 DEF ClientGone, ClientSockets, W!SocketFits, W!HelloFirst
<1>4. W!Used' = W!Used
  BY <1>2 DEF W!Used
<1>5. QED
  BY <1>1, <1>3, <1>4

LEMMA ClientCloses ==
  ASSUME W!ClientInv, W!Stop \/ \E s \in Sockets : W!OnCloseFinal(s)
  PROVE  W!ClientInv' /\ Session!Close
<1> USE ClientParts
<1>1. ClientGone /\ state' = "closed" /\ beat' = FALSE /\ pong' = FALSE /\ reconnect' = FALSE
  <2>1. CASE W!Stop
    BY <2>1 DEF W!Stop, W!ClearTimers, W!Teardown, W!app, ClientGone
  <2>2. ASSUME NEW s \in Sockets, W!OnCloseFinal(s)
        PROVE  ClientGone /\ state' = "closed" /\ beat' = FALSE /\ pong' = FALSE /\ reconnect' = FALSE
    <3>1. s = transport /\ s # NoSock /\ wwire' = [wwire EXCEPT ![s] = "dead"]
      BY <2>2 DEF W!OnCloseFinal, W!Callback
    <3>2. wwire' = [t \in Sockets |-> IF t = transport THEN "dead" ELSE wwire[t]]
      BY <3>1 DEF ClientSockets
    <3>3. ~reconnect
      BY <3>1 DEF ClientTimers, W!TimersMatchState
    <3>4. QED
      BY <2>2, <3>2, <3>3 DEF W!OnCloseFinal, W!ClearHeartbeat, W!app, ClientGone, ClientTimers
  <2>3. QED
    BY <2>1, <2>2
<1>2. ClientTimers'
  BY <1>1 DEF ClientTimers, W!TimersMatchState, W!States, ClientGone
<1>3. W!Mode' = "off"
  BY <1>1 DEF W!Mode
<1>4. QED
  BY <1>1, <1>2, <1>3, ClientGives, ClientWhole DEF Session!Close, ClientGone

LEMMA ClientDrops ==
  ASSUME W!ClientInv, W!PongTimeout \/ \E s \in Sockets : W!OnHintOrError(s) \/ W!OnClose(s)
  PROVE  W!ClientInv' /\ Session!Drop
<1> USE ClientParts
<1>1. ClientGone /\ transport # NoSock
  <2>1. CASE W!PongTimeout
    BY <2>1 DEF W!PongTimeout, W!TimeoutReconnects, W!Teardown, W!ScheduleReconnect, W!app, ClientGone, ClientTimers, W!TimersMatchState
  <2>2. ASSUME NEW s \in Sockets, W!OnHintOrError(s) PROVE ClientGone /\ transport # NoSock
    BY <2>2 DEF W!OnHintOrError, W!Callback, W!Teardown, W!ScheduleReconnect, W!app, ClientGone
  <2>3. ASSUME NEW s \in Sockets, W!OnClose(s) PROVE ClientGone /\ transport # NoSock
    <3>1. s = transport /\ s # NoSock /\ wwire' = [wwire EXCEPT ![s] = "dead"]
      BY <2>3 DEF W!OnClose, W!Callback
    <3>2. wwire' = [t \in Sockets |-> IF t = transport THEN "dead" ELSE wwire[t]]
      BY <3>1 DEF ClientSockets
    <3>3. QED
      BY <2>3, <3>1, <3>2 DEF W!OnClose, W!ScheduleReconnect, W!app, ClientGone
  <2>4. QED
    BY <2>1, <2>2, <2>3
<1>2. state' = "backoff" /\ reconnect' = TRUE /\ beat' = FALSE /\ pong' = FALSE
  BY DEF W!PongTimeout, W!TimeoutReconnects, W!OnHintOrError, W!OnClose, W!ScheduleReconnect
<1>3. ClientTimers'
  BY <1>1, <1>2 DEF ClientTimers, W!TimersMatchState, W!States, ClientGone
<1>4. W!Mode = "connected" /\ W!Mode' = "waiting"
  <2>1. state \in {"connecting", "handshaking", "live"}
    BY <1>1 DEF ClientTimers, W!TimersMatchState
  <2>2. QED
    BY <1>2, <2>1 DEF W!Mode
<1>5. QED
  BY <1>1, <1>3, <1>4, ClientGives, ClientWhole DEF Session!Drop, ClientGone

(* The callbacks that keep the socket.                                     *)
LEMMA ClientHears ==
  ASSUME W!ClientInv, NEW s \in Sockets,
         \/ W!OnOpen(s) \/ W!Answers(s) \/ W!OnInboxBatch(s) \/ W!OnPong(s) \/ W!GoMute(s)
         \/ \E m \in Msgs : W!OnTransientError(s, m)
  PROVE  /\ W!ClientInv' /\ transport' = transport
         /\ \/ state' = state
            \/ state \in {"connecting", "handshaking", "live"} /\ state' \in {"handshaking", "live"}
         /\ W!Used' = W!Used
<1> USE ClientParts
<1>1. transport' = transport /\ reconnect' = reconnect
  BY DEF W!OnOpen, W!Answers, W!OnHelloAck, W!OnMsgAck, W!OnInboxBatch, W!OnPong, W!GoMute,
         W!OnTransientError, W!timers
<1>2. ClientSends'
  <2>1. UNCHANGED <<heard, greeted, outbox, done, flushes, batches, refused>> \/ W!Answers(s) \/ W!OnInboxBatch(s)
        \/ \E m \in Msgs : W!OnTransientError(s, m)
    BY DEF W!OnOpen, W!OnPong, W!GoMute, W!app, W!net
  <2>2. CASE UNCHANGED <<heard, greeted, outbox, done, flushes, batches, refused>>
    BY <2>2 DEF ClientSends
  <2>3. CASE W!OnHelloAck(s)
    BY <2>3 DEF W!OnHelloAck, W!FlushOnLive, ClientSends
  <2>4. ASSUME NEW m \in Msgs, W!OnMsgAck(s, m) PROVE ClientSends'
    BY <2>4 DEF W!OnMsgAck, ClientSends
  <2>5. CASE W!OnInboxBatch(s)
    BY <2>5 DEF W!OnInboxBatch, W!net, ClientSends
  <2>6. ASSUME NEW m \in Msgs, W!OnTransientError(s, m) PROVE ClientSends'
    BY <2>6 DEF W!OnTransientError, ClientSends
  <2>7. QED
    BY <2>1, <2>2, <2>3, <2>4, <2>5, <2>6 DEF W!Answers
<1>3. /\ \/ state' = state
         \/ state \in {"connecting", "handshaking", "live"} /\ state' \in {"handshaking", "live"}
      /\ ClientTimers'
  <2>0. /\ reconnect <=> state = "backoff"
        /\ beat <=> state = "live"
        /\ pong => state = "live"
        /\ transport # NoSock <=> state \in {"connecting", "handshaking", "live"}
        /\ state \in W!States /\ transport \in Sockets \cup {NoSock}
        /\ reconnect \in BOOLEAN /\ beat \in BOOLEAN /\ pong \in BOOLEAN
    BY DEF ClientTimers, W!TimersMatchState
  <2>1. CASE W!OnOpen(s)
    <3>1. s = transport /\ transport # NoSock /\ wwire[transport] = "opening" /\ state' = "handshaking"
          /\ beat' = beat /\ pong' = pong
      BY <2>1 DEF W!OnOpen, W!Callback, W!timers
    <3>2. state # "live"
      BY <3>1 DEF ClientSockets, W!SocketFits
    <3>3. state' \in W!States /\ state \in {"connecting", "handshaking", "live"}
      BY <2>0, <3>1 DEF W!States
    <3>4. W!TimersMatchState'
      BY <1>1, <2>0, <3>1, <3>2, <3>3 DEF W!TimersMatchState
    <3>5. QED
      BY <1>1, <2>0, <3>1, <3>3, <3>4 DEF ClientTimers
  <2>2. CASE W!OnHelloAck(s)
    <3>1. s = transport /\ transport # NoSock /\ state' = "live" /\ beat' = TRUE /\ pong' = FALSE
      BY <2>2 DEF W!OnHelloAck, W!Callback
    <3>2. state' \in W!States /\ state \in {"connecting", "handshaking", "live"}
      BY <2>0, <3>1 DEF W!States
    <3>3. W!TimersMatchState'
      BY <1>1, <2>0, <3>1, <3>2 DEF W!TimersMatchState
    <3>4. QED
      BY <1>1, <2>0, <3>1, <3>2, <3>3 DEF ClientTimers
  <2>3. CASE W!OnPong(s)
    <3>1. state' = state /\ beat' = beat /\ pong' = FALSE
      BY <2>3 DEF W!OnPong
    <3>2. QED
      BY <1>1, <2>0, <3>1, Zenon DEF ClientTimers, W!TimersMatchState
  <2>4. CASE \/ W!OnInboxBatch(s) \/ W!GoMute(s)
             \/ \E m \in Msgs : W!OnTransientError(s, m) \/ W!OnMsgAck(s, m)
    <3>1. state' = state /\ beat' = beat /\ pong' = pong
      BY <2>4 DEF W!OnInboxBatch, W!GoMute, W!OnTransientError, W!OnMsgAck, W!timers
    <3>2. QED
      BY <1>1, <2>0, <3>1, Zenon DEF ClientTimers, W!TimersMatchState
  <2>5. QED
    BY <2>1, <2>2, <2>3, <2>4 DEF W!Answers
<1>4. ClientSockets' /\ W!Used' = W!Used
  <2>1. CASE UNCHANGED <<wwire, first>> /\ (state' = state \/ wwire[transport] = "open")
    BY <1>1, <2>1 DEF ClientSockets, W!HelloFirst, W!SocketFits, W!Used
  <2>2. CASE W!OnOpen(s)
    BY <1>1, <2>2 DEF W!OnOpen, ClientSockets, W!HelloFirst, W!SocketFits, W!Used
  <2>3. CASE W!GoMute(s)
    BY <1>1, <2>3 DEF W!GoMute, ClientSockets, W!HelloFirst, W!SocketFits, W!Used
  <2>4. QED
    BY <2>1, <2>2, <2>3
       DEF W!Answers, W!OnHelloAck, W!Callback, W!OnMsgAck, W!OnInboxBatch, W!OnPong, W!OnTransientError, W!net
<1>5. QED
  BY <1>1, <1>2, <1>3, <1>4, ClientWhole

(* A step of the client keeps the invariant and is a step of the session   *)
(* or leaves it as it is.                                                  *)
LEMMA ClientStep ==
  W!ClientInv /\ [W!Next]_WVars => W!ClientInv' /\ [Session!Next]_(Session!vars)
<1> SUFFICES ASSUME W!ClientInv, [W!Next]_WVars
             PROVE  W!ClientInv' /\ [Session!Next]_(Session!vars)
  OBVIOUS
<1> USE DEF Session!Next
<1>1. CASE UNCHANGED WVars
  BY <1>1 DEF WVars, W!ClientInv, W!Inv, W!TypeOK, W!TimersMatchState, W!HelloFirst, W!SocketFits,
              W!Mode, W!Used, Session!vars
<1>2. CASE W!Tasks \/ \E m \in Msgs : W!Enqueue(m)
  <2>1. UNCHANGED <<state, transport, wwire>>
    BY <1>2 DEF W!Tasks, W!FlushResumes, W!BatchResumes, W!Enqueue, W!net
  <2>2. QED
    BY <1>2, <2>1, ClientTasks DEF W!Mode, W!Used, Session!vars
<1>3. ASSUME NEW s \in Sockets, W!Start(s) \/ W!ReconnectFires(s)
      PROVE  W!ClientInv' /\ [Session!Next]_(Session!vars)
  BY <1>3, ClientDials
<1>4. CASE W!Stop \/ \E s \in Sockets : W!OnCloseFinal(s)
  BY <1>4, ClientCloses
<1>5. CASE W!PongTimeout \/ \E s \in Sockets : W!OnHintOrError(s) \/ W!OnClose(s)
  BY <1>5, ClientDrops
<1>6. ASSUME NEW s \in Sockets,
             \/ W!OnOpen(s) \/ W!Answers(s) \/ W!OnInboxBatch(s) \/ W!OnPong(s) \/ W!GoMute(s)
             \/ \E m \in Msgs : W!OnTransientError(s, m)
      PROVE  W!ClientInv' /\ [Session!Next]_(Session!vars)
  <2>1. W!Mode' = W!Mode
    BY <1>6, ClientHears DEF W!Mode
  <2>2. QED
    BY <1>6, <2>1, ClientHears DEF Session!vars
<1>7. CASE W!Tick
  <2>1. W!ClientInv' /\ UNCHANGED <<state, transport, wwire>>
    BY <1>7 DEF W!Tick, W!net, W!app, W!ClientInv, W!Inv, W!TypeOK, W!TimersMatchState, W!HelloFirst, W!SocketFits
  <2>2. QED
    BY <2>1 DEF W!Mode, W!Used, Session!vars
<1>8. QED
  BY <1>1, <1>2, <1>3, <1>4, <1>5, <1>6, <1>7 DEF W!Next

-----------------------------------------------------------------------------
(* The client's message store.                                             *)

LEMMA StoreCardinality == ASSUME NEW T PROVE S!Cardinality(T) = Cardinality(T)
  BY DEF S!Cardinality, Cardinality, S!IsFiniteSet, IsFiniteSet

LEMMA StoreMaximum ==
  ASSUME NEW T \in SUBSET (0..StoreSeq), T # {}
  PROVE  S!Maximum(T) \in T /\ \A m \in T : m <= S!Maximum(T)
<1>1. \E n \in T : \A m \in T : m <= n
  BY StoreConstants, GreatestNat
<1>2. QED
  BY <1>1 DEF S!Maximum

LEMMA StoreRemove ==
  ASSUME NEW T, NEW s \in Seq(T), NEW j \in 1..Len(s)
  PROVE  /\ S!RemoveAt(s, j) \in Seq(T)
         /\ \A k \in 1..Len(s) : k = j \/ \E l \in DOMAIN S!RemoveAt(s, j) : S!RemoveAt(s, j)[l] = s[k]
         /\ \A l \in DOMAIN S!RemoveAt(s, j) : \E k \in 1..Len(s) : S!RemoveAt(s, j)[l] = s[k]
<1> DEFINE a == SubSeq(s, 1, j - 1)
           b == SubSeq(s, j + 1, Len(s))
<1>0. Len(s) \in Nat /\ \A k \in 1..Len(s) : s[k] \in T
  BY ElementOfSeq, LenProperties
<1>1. a \in Seq(T) /\ Len(a) = j - 1 /\ \A k \in 1..(j - 1) : a[k] = s[k]
  <2>1. \A k \in 1..(j - 1) : s[k] \in T
    BY <1>0
  <2>2. /\ SubSeq(s, 1, j - 1) \in Seq(T)
        /\ Len(SubSeq(s, 1, j - 1)) = IF 1 <= j - 1 THEN (j - 1) - 1 + 1 ELSE 0
        /\ \A k \in 1..((j - 1) - 1 + 1) : SubSeq(s, 1, j - 1)[k] = s[1 + k - 1]
    BY <2>1, SubSeqProperties
  <2>3. QED
    BY <1>0, <2>2
<1>2. b \in Seq(T) /\ Len(b) = Len(s) - j /\ \A k \in 1..(Len(s) - j) : b[k] = s[j + k]
  <2>1. \A k \in (j + 1)..Len(s) : s[k] \in T
    BY <1>0
  <2>2. /\ SubSeq(s, j + 1, Len(s)) \in Seq(T)
        /\ Len(SubSeq(s, j + 1, Len(s))) = IF j + 1 <= Len(s) THEN Len(s) - (j + 1) + 1 ELSE 0
        /\ \A k \in 1..(Len(s) - (j + 1) + 1) : SubSeq(s, j + 1, Len(s))[k] = s[(j + 1) + k - 1]
    BY <1>0, <2>1, SubSeqProperties
  <2>3. QED
    BY <1>0, <2>2
<1> HIDE DEF a, b
<1>3. /\ a \o b \in Seq(T) /\ Len(a \o b) = Len(s) - 1 /\ DOMAIN (a \o b) = 1..(Len(s) - 1)
      /\ \A k \in 1..(Len(s) - 1) : (a \o b)[k] = IF k <= j - 1 THEN s[k] ELSE s[k + 1]
  <2>1. /\ a \o b \in Seq(T) /\ Len(a \o b) = Len(a) + Len(b)
        /\ \A k \in 1..(Len(a) + Len(b)) : (a \o b)[k] = IF k <= Len(a) THEN a[k] ELSE b[k - Len(a)]
    BY <1>1, <1>2, ConcatProperties
  <2>2. Len(a) + Len(b) = Len(s) - 1
    BY <1>0, <1>1, <1>2
  <2>3. ASSUME NEW k \in 1..(Len(s) - 1)
        PROVE  (a \o b)[k] = IF k <= j - 1 THEN s[k] ELSE s[k + 1]
    <3>1. CASE k <= j - 1
      BY <1>0, <1>1, <2>1, <2>2, <3>1
    <3>2. CASE ~(k <= j - 1)
      <4>1. (a \o b)[k] = b[k - (j - 1)]
        BY <1>0, <1>1, <2>1, <2>2, <3>2
      <4>2. k - (j - 1) \in 1..(Len(s) - j) /\ j + (k - (j - 1)) = k + 1
        BY <1>0, <3>2
      <4>3. b[k - (j - 1)] = s[j + (k - (j - 1))]
        BY <1>2, <4>2
      <4>4. QED
        BY <3>2, <4>1, <4>2, <4>3
    <3>3. QED
      BY <3>1, <3>2
  <2>4. DOMAIN (a \o b) = 1..(Len(s) - 1)
    BY <2>1, <2>2, LenProperties
  <2>5. QED
    BY <2>1, <2>2, <2>3, <2>4
<1>4. S!RemoveAt(s, j) = a \o b
  BY DEF S!RemoveAt, a, b
<1>5. ASSUME NEW k \in 1..Len(s), k # j PROVE \E l \in 1..(Len(s) - 1) : (a \o b)[l] = s[k]
  <2>1. CASE k < j
    <3>1. k \in 1..(Len(s) - 1) /\ k <= j - 1
      BY <1>0, <2>1
    <3>2. QED
      BY <1>3, <3>1
  <2>2. CASE k > j
    <3>1. k - 1 \in 1..(Len(s) - 1) /\ ~(k - 1 <= j - 1) /\ (k - 1) + 1 = k
      BY <1>0, <2>2
    <3>2. QED
      BY <1>3, <3>1
  <2>3. k < j \/ k > j
    BY <1>0, <1>5
  <2>4. QED
    BY <2>1, <2>2, <2>3
<1>6. ASSUME NEW l \in 1..(Len(s) - 1) PROVE \E k \in 1..Len(s) : (a \o b)[l] = s[k]
  <2>1. l \in 1..Len(s) /\ l + 1 \in 1..Len(s)
    BY <1>0
  <2>2. (a \o b)[l] = s[l] \/ (a \o b)[l] = s[l + 1]
    BY <1>3
  <2>3. QED
    BY <2>1, <2>2
<1>7. QED
  BY <1>3, <1>4, <1>5, <1>6

\* What the steps read of the invariant.
LEMMA StoreParts ==
  ASSUME S!StoreInv
  PROVE  /\ S!TypeOK /\ S!CursorsFit /\ S!WireFits
         /\ \A j \in DOMAIN jobs : jobs[j].todo \subseteq S!InProgress
         /\ \A j \in DOMAIN jobs : /\ jobs[j] \in [todo : SUBSET S!Items, mark : S!Items]
                                   /\ jobs[j].todo \subseteq S!Items /\ jobs[j].mark \in S!Items
         /\ \A k \in DOMAIN swire : swire[k] \subseteq S!Items /\ swire[k] # {}
         /\ DOMAIN jobs = 1..Len(jobs) /\ DOMAIN swire = 1..Len(swire) /\ DOMAIN acks = 1..Len(acks)
         /\ Len(jobs) \in Nat /\ Len(swire) \in Nat /\ Len(acks) \in Nat
         /\ S!Items = 1..StoreSeq /\ S!InProgress \subseteq S!Items /\ S!Handled \subseteq S!Items
<1>1. S!TypeOK /\ S!CursorsFit /\ S!WireFits
  BY DEF S!StoreInv
<1>2. DOMAIN jobs = 1..Len(jobs) /\ DOMAIN swire = 1..Len(swire) /\ DOMAIN acks = 1..Len(acks)
         /\ Len(jobs) \in Nat /\ Len(swire) \in Nat /\ Len(acks) \in Nat
  BY <1>1 DEF S!TypeOK
<1>3. \A j \in DOMAIN jobs : jobs[j] \in [todo : SUBSET S!Items, mark : S!Items]
  BY <1>1, <1>2, ElementOfSeq DEF S!TypeOK
<1>4. \A j \in DOMAIN jobs : jobs[j].todo \subseteq S!Items /\ jobs[j].mark \in S!Items
  BY <1>3
<1>5. \A k \in DOMAIN swire : swire[k] \subseteq S!Items /\ swire[k] # {}
  BY <1>1, <1>2, ElementOfSeq DEF S!TypeOK
<1>6. S!InProgress \subseteq S!Items /\ \A j \in DOMAIN jobs : jobs[j].todo \subseteq S!InProgress
  BY <1>4 DEF S!InProgress
<1>7. S!Handled \subseteq S!Items
  BY <1>1, <1>6 DEF S!Handled, S!TypeOK
<1>8. QED
  BY <1>1, <1>2, <1>3, <1>4, <1>5, <1>6, <1>7 DEF S!Items

(* What the client has dealt with stays so: then the cursors still fit,    *)
(* and the wire if it has not changed.                                     *)
LEMMA StoreWireKept ==
  ASSUME S!StoreInv, UNCHANGED <<swire, sent>>, S!Handled \subseteq S!Handled'
  PROVE  S!WireFits'
<1>1. \A k : S!OnWire(k)' = S!OnWire(k)
  BY DEF S!OnWire
<1>2. QED
  BY <1>1, StoreParts DEF S!WireFits

LEMMA StoreInit == S!Init => S!StoreInv
<1> SUFFICES ASSUME S!Init PROVE S!StoreInv
  OBVIOUS
<1>1. S!TypeOK
  BY StoreConstants DEF S!Init, S!TypeOK, S!Items, S!StartCursor
<1>2. S!CursorsFit
  BY StoreConstants DEF S!Init, S!CursorsFit, S!StartCursor
<1>3. S!WireFits
  BY DEF S!Init, S!WireFits
<1>4. QED
  BY <1>1, <1>2, <1>3 DEF S!StoreInv

(* The next rows in seq order: nothing beyond the last push is jumped.     *)
LEMMA StorePush ==
  ASSUME S!StoreInv, S!Push
  PROVE  S!StoreInv'
<1> DEFINE next == {i \in rows : i > sent}
           upto(i) == {j \in next : j <= i}
           batch == {i \in next : Cardinality(upto(i)) <= StoreBatch}
<1>0. /\ next # {} /\ swire' = Append(swire, batch) /\ sent' = S!Maximum(batch)
      /\ UNCHANGED <<rows, cursors, saved, peak, stored, jobs, acks, dropped, crashes, fails>>
  BY StoreCardinality DEF S!Push
<1>1. next \in SUBSET (1..StoreSeq) /\ batch \in SUBSET next /\ rows \subseteq 1..StoreSeq /\ sent \in Nat
  BY StoreParts DEF S!TypeOK, S!Items
<1>2. ASSUME NEW i \in next, NEW k \in next, i <= k
      PROVE  /\ Cardinality(upto(i)) \in Nat /\ Cardinality(upto(k)) \in Nat
             /\ Cardinality(upto(i)) <= Cardinality(upto(k))
  <2>1. upto(i) \subseteq upto(k)
    <3>1. \A j \in next : j \in Int
      BY <1>1
    <3>2. QED
      BY <1>2, <3>1
  <2>2. IsFiniteSet(upto(k))
    <3>1. IsFiniteSet(1..StoreSeq) /\ upto(k) \subseteq 1..StoreSeq
      BY <1>1, StoreConstants, FS_Interval
    <3>2. QED
      BY <3>1, FS_Subset
  <2> HIDE DEF upto
  <2>3. QED
    BY <2>1, <2>2, FS_Subset, FS_CardinalityType
<1>3. batch # {}
  <2>1. PICK m \in next : \A n \in next : m <= n
    <3> HIDE DEF next
    <3>1. next \in SUBSET Nat
      BY <1>1
    <3>2. QED
      BY <1>0, <3>1, LeastNat
  <2>2. upto(m) = {m}
    <3>1. \A n \in next : n \in Int /\ m \in Int /\ m <= n
      BY <1>1, <2>1
    <3>2. \A n \in next : n <= m <=> n = m
      BY <3>1
    <3>3. QED
      BY <3>2
  <2>3. Cardinality({m}) = 1
    BY FS_Singleton
  <2>4. Cardinality(upto(m)) <= StoreBatch
    BY <2>2, <2>3, StoreConstants
  <2>5. QED
    BY <2>4
<1> HIDE DEF upto, batch, next
<1>4. sent' \in batch /\ (\A m \in batch : m <= sent') /\ batch \subseteq S!Items
  <2>1. batch \in SUBSET (0..StoreSeq) /\ batch \subseteq 1..StoreSeq
    BY <1>1, StoreConstants
  <2>2. QED
    BY <1>0, <1>3, <2>1, StoreMaximum DEF S!Items
<1>5. /\ Len(swire') = Len(swire) + 1 /\ DOMAIN swire' = 1..(Len(swire) + 1)
      /\ swire'[Len(swire) + 1] = batch
      /\ \A k \in 1..Len(swire) : swire'[k] = swire[k]
      /\ swire' \in Seq((SUBSET S!Items) \ {{}})
  BY <1>0, <1>3, <1>4, StoreParts DEF S!TypeOK
<1>6. S!TypeOK'
  BY <1>0, <1>4, <1>5, StoreParts DEF S!TypeOK, S!Items
<1>7. S!CursorsFit' /\ S!Handled' = S!Handled
  BY <1>0, StoreParts DEF S!CursorsFit, S!Handled, S!InProgress
<1>a. PICK n \in Nat : n = Len(swire)
  BY StoreParts
<1>8. /\ \A k \in 1..n : S!OnWire(k)' = S!OnWire(k)
      /\ S!OnWire(n + 1)' = S!OnWire(n) \cup batch
  <2>1. n \in Nat
    OBVIOUS
  <2>2. ASSUME NEW k \in 1..n PROVE S!OnWire(k)' = S!OnWire(k)
    <3>1. \A l \in 1..k : swire'[l] = swire[l]
      BY <1>5, <1>a, <2>1
    <3>2. QED
      BY <3>1 DEF S!OnWire
  <2>3. S!OnWire(n + 1)' = S!OnWire(n) \cup batch
    <3>1. ASSUME NEW x PROVE x \in UNION {swire'[l] : l \in 1..(n + 1)}
                             <=> x \in UNION {swire[l] : l \in 1..n} \/ x \in batch
      <4>1. ASSUME NEW l \in 1..(n + 1) PROVE l \in 1..n \/ l = n + 1
        BY <2>1
      <4>2. 1..n \subseteq 1..(n + 1) /\ n + 1 \in 1..(n + 1)
        BY <2>1
      <4>3. QED
        BY <1>5, <1>a, <4>1, <4>2
    <3>2. QED
      BY <3>1 DEF S!OnWire
  <2>4. QED
    BY <2>2, <2>3
<1>9. ASSUME NEW m \in batch, NEW i \in 1..m
      PROVE  i \in S!Handled \cup S!OnWire(Len(swire)) \cup batch
  <2>0. m \in 1..StoreSeq /\ i \in 1..StoreSeq /\ m \in next /\ i <= m
    BY <1>1, StoreConstants
  <2>1. CASE i <= sent
    BY <1>1, <2>0, <2>1, StoreParts DEF S!WireFits
  <2>2. CASE i \notin rows
    <3>1. i <= peak /\ peak \in Nat
      BY <2>0, <2>2, StoreParts DEF S!CursorsFit, S!TypeOK, S!Items
    <3>2. QED
      BY <2>0, <3>1, StoreParts DEF S!CursorsFit
  <2>3. CASE i \in rows /\ ~(i <= sent)
    <3>1. i \in next
      BY <1>1, <2>0, <2>3 DEF next
    <3>2. Cardinality(upto(m)) <= StoreBatch
      BY DEF batch
    <3>3. Cardinality(upto(i)) <= StoreBatch
      BY <1>2, <2>0, <3>1, <3>2, StoreConstants
    <3>4. QED
      BY <3>1, <3>3 DEF batch
  <2>4. QED
    BY <2>1, <2>2, <2>3
<1>10. ASSUME NEW k \in DOMAIN swire', NEW m \in swire'[k] PROVE 1..m \subseteq S!Handled' \cup S!OnWire(k)'
  <2>1. CASE k \in 1..Len(swire)
    BY <1>5, <1>7, <1>8, <1>a, <2>1, <1>10, StoreParts DEF S!WireFits
  <2>2. CASE k = Len(swire) + 1
    BY <1>5, <1>7, <1>8, <1>9, <1>a, <2>2, <1>10
  <2>3. k \in 1..Len(swire) \/ k = Len(swire) + 1
    BY <1>5, StoreParts
  <2>4. QED
    BY <2>1, <2>2, <2>3
<1>11. 1..sent' \subseteq S!Handled' \cup S!OnWire(Len(swire))'
  <2>1. S!OnWire(Len(swire))' = S!OnWire(Len(swire)) \cup batch
    <3>1. Len(swire)' = n + 1
      BY <1>5, <1>a
    <3>2. S!OnWire(Len(swire))' = S!OnWire(n + 1)'
      BY <3>1 DEF S!OnWire
    <3>3. QED
      BY <1>8, <1>a, <3>2
  <2>2. QED
    BY <1>4, <1>7, <1>9, <2>1
<1>12. QED
  BY <1>6, <1>7, <1>10, <1>11 DEF S!StoreInv, S!WireFits

(* AckDelivered, Reconnect.                                                *)
LEMMA StoreServer ==
  ASSUME S!StoreInv, S!AckDelivered \/ S!Reconnect
  PROVE  S!StoreInv'
<1>1. UNCHANGED <<cursors, saved, peak, stored, jobs, dropped, fails>>
  BY DEF S!AckDelivered, S!Reconnect
<1>2. S!Handled' = S!Handled
  BY <1>1 DEF S!Handled, S!InProgress
<1>3. CASE S!AckDelivered
  <2>1. /\ Head(acks) \in S!Items /\ Head(acks) <= peak
        /\ acks' \in Seq(S!Items) /\ DOMAIN acks' = 1..(Len(acks) - 1)
        /\ \A k \in 1..(Len(acks) - 1) : acks'[k] = acks[k + 1] /\ k + 1 \in 1..Len(acks)
    <3>1. acks \in Seq(S!Items) /\ acks # <<>> /\ acks' = Tail(acks)
      BY <1>3, StoreParts DEF S!AckDelivered, S!TypeOK
    <3>2. Len(acks) \in Nat \ {0} /\ Head(acks) = acks[1]
      BY <3>1
    <3>3. 1 \in DOMAIN acks
      BY <3>2, StoreParts
    <3>4. acks[1] <= peak
      BY <3>3, StoreParts DEF S!CursorsFit
    <3>5. QED
      BY <3>1, <3>2, <3>4, HeadTailProperties, LenProperties
  <2>2. S!TypeOK'
    BY <1>1, <1>3, <2>1, StoreParts DEF S!AckDelivered, S!TypeOK
  <2>3. ASSUME NEW i \in S!Items PROVE i \in rows' \/ i <= peak
    <3>1. i \in rows => (i \in rows' \/ ~(i > Head(acks)))
      BY <1>3 DEF S!AckDelivered
    <3>2. i \in Int /\ Head(acks) \in Int /\ peak \in Int
      BY <2>1, StoreParts DEF S!TypeOK
    <3>3. QED
      BY <2>1, <3>1, <3>2, StoreParts DEF S!CursorsFit
  <2>4. S!CursorsFit'
    BY <1>1, <1>2, <2>1, <2>3, StoreParts DEF S!CursorsFit
  <2>5. S!WireFits'
    BY <1>2, <1>3, StoreWireKept DEF S!AckDelivered
  <2>6. QED
    BY <2>2, <2>4, <2>5 DEF S!StoreInv
<1>4. CASE S!Reconnect
  <2>1. swire' = <<>> /\ acks' = <<>> /\ rows' = rows /\ sent' \in {0, cursors} /\ crashes' \in 0..MaxCrashes
    BY <1>4, StoreParts, StoreConstants DEF S!Reconnect, S!TypeOK
  <2>2. S!TypeOK'
    BY <1>1, <2>1, StoreParts, StoreConstants DEF S!TypeOK
  <2>3. S!CursorsFit'
    BY <1>1, <1>2, <2>1, StoreParts DEF S!CursorsFit
  <2>4. S!WireFits'
    BY <1>2, <2>1, StoreParts DEF S!WireFits, S!CursorsFit
  <2>5. QED
    BY <2>2, <2>3, <2>4 DEF S!StoreInv
<1>5. QED
  BY <1>3, <1>4

(* The batch is planned: the cursor in memory moves past items that are    *)
(* dealt with now.                                                         *)
LEMMA StoreReceive ==
  ASSUME S!StoreInv, S!OnInboxBatch
  PROVE  S!StoreInv'
<1>1. PICK b : b = Head(swire)
  OBVIOUS
<1>2. PICK c : c = S!Advanced(b)
  OBVIOUS
<1>3. PICK p : p = S!Planned(b)
  OBVIOUS
<1>4. PICK n \in Nat : n = Len(swire)
  BY StoreParts
<1>5. /\ swire # <<>> /\ swire' = Tail(swire) /\ cursors' = c
      /\ jobs' = Append(jobs, [todo |-> p, mark |-> c])
      /\ UNCHANGED <<rows, sent, saved, peak, stored, acks, dropped, crashes, fails>>
  BY <1>1, <1>2, <1>3 DEF S!OnInboxBatch
<1>6. swire \in Seq((SUBSET S!Items) \ {{}}) /\ cursors \in 0..StoreSeq /\ S!Items = 1..StoreSeq
  BY StoreParts DEF S!TypeOK
<1>7. /\ n \in Nat \ {0} /\ b = swire[1] /\ b \subseteq S!Items /\ b # {}
      /\ swire' \in Seq((SUBSET S!Items) \ {{}}) /\ Len(swire') = n - 1 /\ DOMAIN swire' = 1..(n - 1)
      /\ \A k \in 1..(n - 1) : swire'[k] = swire[k + 1]
  <2>1. n # 0 /\ b = swire[1]
    BY <1>1, <1>4, <1>5, <1>6
  <2>2. b \in (SUBSET S!Items) \ {{}}
    BY <1>1, <1>5, <1>6, HeadTailProperties
  <2>3. /\ Tail(swire) \in Seq((SUBSET S!Items) \ {{}}) /\ Len(Tail(swire)) = n - 1
        /\ \A k \in 1..(n - 1) : Tail(swire)[k] = swire[k + 1]
    BY <1>4, <1>5, <1>6, HeadTailProperties
  <2>4. QED
    BY <1>5, <2>1, <2>2, <2>3, LenProperties
<1>8. /\ c \in b \cup {cursors} /\ cursors <= c /\ (\A m \in b : m <= c)
      /\ c \in S!Items
  <2>1. b \cup {cursors} \in SUBSET (0..StoreSeq) /\ b \cup {cursors} # {}
    BY <1>6, <1>7
  <2>2. c \in b \cup {cursors} /\ \A m \in b \cup {cursors} : m <= c
    BY <1>2, <2>1, StoreMaximum DEF S!Advanced
  <2>3. PICK m \in b : TRUE
    BY <1>7
  <2>4. c \in S!Items
    BY <1>6, <1>7, <2>2, <2>3
  <2>5. QED
    BY <2>2, <2>4
<1>9. p \subseteq b /\ \A i \in b : i \in p \/ i \in 1..cursors
  <2>1. \A i \in b : i \in 1..StoreSeq
    BY <1>6, <1>7
  <2>2. QED
    BY <1>3, <1>6, <2>1 DEF S!Planned
<1>10. PICK j \in [todo : SUBSET S!Items, mark : S!Items] : j = [todo |-> p, mark |-> c]
  BY <1>7, <1>8, <1>9
<1>11. j.todo = p /\ j.mark = c
  BY <1>10
<1>12. /\ jobs' \in Seq([todo : SUBSET S!Items, mark : S!Items])
       /\ DOMAIN jobs' = 1..(Len(jobs) + 1) /\ jobs'[Len(jobs) + 1] = j
       /\ \A k \in 1..Len(jobs) : jobs'[k] = jobs[k]
  <2>1. jobs' = Append(jobs, j) /\ jobs \in Seq([todo : SUBSET S!Items, mark : S!Items])
    BY <1>5, <1>10, StoreParts DEF S!TypeOK
  <2>2. QED
    BY <2>1
<1>13. S!InProgress' = S!InProgress \cup p
  <2>1. ASSUME NEW x PROVE x \in S!InProgress' <=> x \in S!InProgress \/ x \in p
    <3>1. ASSUME NEW k \in DOMAIN jobs' PROVE k \in DOMAIN jobs \/ k = Len(jobs) + 1
      BY <1>12, StoreParts
    <3>2. DOMAIN jobs \subseteq DOMAIN jobs' /\ Len(jobs) + 1 \in DOMAIN jobs' /\ DOMAIN jobs = 1..Len(jobs)
      BY <1>12, StoreParts
    <3>3. QED
      BY <1>11, <1>12, <3>1, <3>2 DEF S!InProgress
  <2>2. QED
    BY <2>1
<1>14. /\ S!Handled' = S!Handled \cup p /\ b \subseteq S!Handled'
       /\ 1..cursors' \subseteq S!Handled'
  <2>1. S!Handled' = S!Handled \cup p
    BY <1>5, <1>13 DEF S!Handled
  <2>2. b \subseteq S!Handled'
    BY <1>9, <2>1, StoreParts DEF S!CursorsFit
  <2>3. CASE c = cursors
    BY <1>5, <2>1, <2>2, <2>3, StoreParts DEF S!CursorsFit
  <2>4. CASE c \in b
    <3>1. 1 \in DOMAIN swire /\ c \in swire[1]
      BY <1>4, <1>7, <2>4, StoreParts
    <3>2. 1..c \subseteq S!Handled \cup S!OnWire(1)
      BY <3>1, StoreParts DEF S!WireFits
    <3>3. S!OnWire(1) = b
      <4>1. 1..1 = {1}
        OBVIOUS
      <4>2. QED
        BY <1>7, <4>1 DEF S!OnWire
    <3>4. QED
      BY <1>5, <2>1, <2>2, <3>2, <3>3
  <2>5. QED
    BY <1>8, <2>1, <2>2, <2>3, <2>4
<1>15. S!TypeOK'
  BY <1>5, <1>6, <1>7, <1>8, <1>12, StoreParts DEF S!TypeOK
<1>16. S!CursorsFit'
  <2>1. ASSUME NEW k \in DOMAIN jobs' PROVE jobs'[k].mark <= cursors'
    <3>1. CASE k = Len(jobs) + 1
      BY <1>5, <1>6, <1>8, <1>11, <1>12, <3>1
    <3>2. CASE k \in DOMAIN jobs
      <4>1. jobs'[k] = jobs[k] /\ jobs[k].mark <= cursors /\ jobs[k].mark \in S!Items
        BY <1>12, <3>2, StoreParts DEF S!CursorsFit
      <4>2. QED
        BY <1>5, <1>6, <1>8, <4>1
    <3>3. QED
      BY <1>12, <3>1, <3>2, StoreParts
  <2>2. QED
    BY <1>5, <1>14, <2>1, StoreParts DEF S!CursorsFit
<1>17. ASSUME NEW k \in 0..(n - 1) PROVE S!OnWire(k + 1) \subseteq b \cup S!OnWire(k)'
  <2>1. ASSUME NEW l \in 1..(k + 1), NEW x \in swire[l] PROVE x \in b \/ \E l2 \in 1..k : x \in swire'[l2]
    <3>1. CASE l = 1
      BY <1>7, <2>1, <3>1
    <3>2. CASE l # 1
      <4>1. l - 1 \in 1..k /\ l - 1 \in 1..(n - 1) /\ (l - 1) + 1 = l
        BY <3>2
      <4>2. swire'[l - 1] = swire[l]
        BY <1>7, <4>1
      <4>3. QED
        BY <2>1, <4>1, <4>2
    <3>3. QED
      BY <3>1, <3>2
  <2>2. QED
    BY <2>1 DEF S!OnWire
<1>18. ASSUME NEW k \in DOMAIN swire', NEW m \in swire'[k] PROVE 1..m \subseteq S!Handled' \cup S!OnWire(k)'
  <2>1. k \in 0..(n - 1) /\ k + 1 \in DOMAIN swire /\ m \in swire[k + 1]
    BY <1>4, <1>7, <1>18, StoreParts
  <2>2. 1..m \subseteq S!Handled \cup S!OnWire(k + 1)
    BY <2>1, StoreParts DEF S!WireFits
  <2>3. QED
    BY <1>14, <1>17, <2>1, <2>2
<1>19. 1..sent' \subseteq S!Handled' \cup S!OnWire(Len(swire))'
  <2>1. 1..sent \subseteq S!Handled \cup S!OnWire(n)
    BY <1>4, StoreParts DEF S!WireFits
  <2>2. n - 1 \in 0..(n - 1) /\ (n - 1) + 1 = n
    BY <1>7
  <2>3. S!OnWire(n) \subseteq b \cup S!OnWire(n - 1)'
    BY <1>17, <2>2
  <2>4. S!OnWire(Len(swire))' = S!OnWire(n - 1)'
    BY <1>7 DEF S!OnWire
  <2>5. QED
    BY <1>5, <1>14, <2>1, <2>3, <2>4
<1>20. QED
  BY <1>15, <1>16, <1>18, <1>19 DEF S!StoreInv, S!WireFits

LEMMA StoreWrite ==
  ASSUME S!StoreInv, NEW j \in 1..MaxJobs, S!Write(j)
  PROVE  S!StoreInv'
<1>1. PICK x : x = S!NextWrite(jobs[j].todo)
  OBVIOUS
<1>2. j \in DOMAIN jobs /\ jobs[j].todo \subseteq S!Items /\ jobs[j].todo # {} /\ S!Items = 1..StoreSeq
  BY StoreParts DEF S!Write
<1>3. x \in jobs[j].todo
  <2>1. PICK due : due = IF jobs[j].todo \subseteq Overlays THEN jobs[j].todo ELSE jobs[j].todo \ Overlays
    OBVIOUS
  <2>2. due # {} /\ due \subseteq jobs[j].todo /\ due \in SUBSET Nat
    BY <1>2, <2>1, StoreConstants
  <2>3. \E m \in due : \A k \in due : m <= k
    BY <2>2, LeastNat
  <2>4. x = CHOOSE m \in due : \A k \in due : m <= k
    BY <1>1, <2>1 DEF S!NextWrite
  <2>5. x \in due
    BY <2>3, <2>4
  <2>6. QED
    BY <2>2, <2>5
<1>4. PICK r \in [todo : SUBSET S!Items, mark : S!Items] : r = [jobs[j] EXCEPT !.todo = @ \ {x}]
  BY <1>2, StoreParts
<1>5. r.todo = jobs[j].todo \ {x} /\ r.mark = jobs[j].mark
  BY <1>2, <1>4, StoreParts
<1>6. /\ jobs' = [jobs EXCEPT ![j] = r] /\ stored' = stored \cup {x}
      /\ UNCHANGED <<rows, sent, swire, cursors, saved, peak, acks, dropped, crashes, fails>>
  BY <1>1, <1>4 DEF S!Write
<1>7. /\ jobs' \in Seq([todo : SUBSET S!Items, mark : S!Items]) /\ DOMAIN jobs' = DOMAIN jobs
      /\ \A k \in DOMAIN jobs : jobs'[k] = IF k = j THEN r ELSE jobs[k]
  <2>1. jobs \in Seq([todo : SUBSET S!Items, mark : S!Items])
    BY StoreParts DEF S!TypeOK
  <2>2. QED
    BY <1>2, <1>6, <2>1, ExceptSeq, StoreParts
<1>8. S!InProgress \subseteq S!InProgress' \cup {x}
  BY <1>2, <1>5, <1>7 DEF S!InProgress
<1>9. S!Handled \subseteq S!Handled'
  BY <1>6, <1>8 DEF S!Handled
<1>10. S!TypeOK'
  <2>1. stored' \subseteq S!Items
    BY <1>2, <1>3, <1>6, StoreParts DEF S!TypeOK
  <2>2. QED
    BY <1>6, <1>7, <2>1, StoreParts DEF S!TypeOK
<1>11. S!CursorsFit'
  <2>1. \A k \in DOMAIN jobs' : jobs'[k].mark <= cursors
    BY <1>2, <1>5, <1>7, StoreParts DEF S!CursorsFit
  <2>2. QED
    BY <1>6, <1>9, <2>1, StoreParts DEF S!CursorsFit
<1>12. S!WireFits'
  BY <1>6, <1>9, StoreWireKept
<1>13. QED
  BY <1>10, <1>11, <1>12 DEF S!StoreInv

(* Finish, WriteFails: the batch leaves.                                   *)
LEMMA StoreLeaves ==
  ASSUME S!StoreInv, NEW j \in 1..MaxJobs, S!Finish(j) \/ S!WriteFails(j)
  PROVE  S!StoreInv'
<1>1. /\ j \in 1..Len(jobs) /\ jobs \in Seq([todo : SUBSET S!Items, mark : S!Items])
      /\ jobs' = S!RemoveAt(jobs, j) /\ UNCHANGED <<rows, sent, swire, cursors, stored, crashes>>
      /\ dropped' = dropped \cup jobs[j].todo
  BY StoreParts DEF S!Finish, S!WritesDone, S!WriteFails, S!TypeOK
<1>2. /\ jobs' \in Seq([todo : SUBSET S!Items, mark : S!Items])
      /\ \A k \in DOMAIN jobs : k = j \/ \E l \in DOMAIN jobs' : jobs'[l] = jobs[k]
      /\ \A l \in DOMAIN jobs' : \E k \in DOMAIN jobs : jobs'[l] = jobs[k]
  <2> DEFINE T == [todo : SUBSET S!Items, mark : S!Items]
  <2>1. jobs \in Seq(T) /\ DOMAIN jobs = 1..Len(jobs)
    BY <1>1, LenProperties
  <2> HIDE DEF T
  <2>2. /\ S!RemoveAt(jobs, j) \in Seq(T)
        /\ \A k \in 1..Len(jobs) : k = j \/ \E l \in DOMAIN S!RemoveAt(jobs, j) : S!RemoveAt(jobs, j)[l] = jobs[k]
        /\ \A l \in DOMAIN S!RemoveAt(jobs, j) : \E k \in 1..Len(jobs) : S!RemoveAt(jobs, j)[l] = jobs[k]
    BY <1>1, <2>1, StoreRemove
  <2>3. jobs' = S!RemoveAt(jobs, j)
    BY <1>1
  <2>4. QED
    BY <2>1, <2>2, <2>3 DEF T
<1>3. S!InProgress \subseteq S!InProgress' \cup jobs[j].todo
  BY <1>2 DEF S!InProgress
<1>4. S!Handled \subseteq S!Handled'
  BY <1>1, <1>3 DEF S!Handled
<1>5. \A l \in DOMAIN jobs' : jobs'[l].mark <= cursors
  BY <1>2, StoreParts DEF S!CursorsFit
<1>6. dropped' \subseteq S!Items
  BY <1>1, StoreParts DEF S!TypeOK
<1>7. S!WireFits'
  BY <1>1, <1>4, StoreWireKept
<1>8. CASE S!Finish(j)
  <2>1. PICK m \in S!Items : m = jobs[j].mark
    BY <1>1, StoreParts
  <2>2. PICK q : q = S!Maximum({peak, m})
    OBVIOUS
  <2>3. saved' = m /\ peak' = q /\ acks' = Append(acks, m) /\ fails' = fails
    BY <1>8, <2>1, <2>2 DEF S!Finish
  <2>4. q \in {peak, m} /\ peak <= q /\ m <= q /\ peak \in 0..StoreSeq /\ m \in 0..StoreSeq /\ q \in 0..StoreSeq
    <3>1. {peak, m} \in SUBSET (0..StoreSeq) /\ {peak, m} # {}
      BY StoreParts DEF S!TypeOK
    <3>2. q \in {peak, m} /\ \A k \in {peak, m} : k <= q
      BY <2>2, <3>1, StoreMaximum
    <3>3. QED
      BY <3>1, <3>2
  <2>5. m <= cursors /\ cursors \in 0..StoreSeq
    BY <1>1, <2>1, StoreParts DEF S!CursorsFit, S!TypeOK
  <2>6. 1..q \subseteq S!Handled'
    <3>1. 1..peak \subseteq S!Handled /\ 1..cursors \subseteq S!Handled
      BY StoreParts DEF S!CursorsFit
    <3>2. 1..m \subseteq 1..cursors
      BY <2>4, <2>5
    <3>3. QED
      BY <1>4, <2>4, <3>1, <3>2
  <2>7. /\ acks' \in Seq(S!Items)
        /\ \A k \in DOMAIN acks' : acks'[k] <= q
    <3>1. /\ acks \in Seq(S!Items) /\ acks' \in Seq(S!Items) /\ DOMAIN acks' = 1..(Len(acks) + 1)
          /\ acks'[Len(acks) + 1] = m /\ \A k \in 1..Len(acks) : acks'[k] = acks[k] /\ acks[k] \in S!Items
      <4>1. acks \in Seq(S!Items) /\ acks' = Append(acks, m) /\ m \in S!Items
        BY <2>3, StoreParts DEF S!TypeOK
      <4>2. \A k \in 1..Len(acks) : acks[k] \in S!Items
        BY <4>1, ElementOfSeq
      <4>3. /\ acks' \in Seq(S!Items) /\ DOMAIN acks' = 1..(Len(acks) + 1)
            /\ acks'[Len(acks) + 1] = m /\ \A k \in 1..Len(acks) : acks'[k] = acks[k]
        BY <4>1
      <4>4. QED
        BY <4>1, <4>2, <4>3
    <3>2. \A k \in 1..Len(acks) : acks[k] <= peak
      BY StoreParts DEF S!CursorsFit
    <3>3. ASSUME NEW k \in DOMAIN acks' PROVE acks'[k] <= q
      <4>1. CASE k = Len(acks) + 1
        BY <2>4, <3>1, <4>1
      <4>2. CASE k \in 1..Len(acks)
        BY <2>4, <3>1, <3>2, <4>2, StoreParts
      <4>3. QED
        BY <3>1, <4>1, <4>2, StoreParts
    <3>4. QED
      BY <3>1, <3>3
  <2>8. \A i \in S!Items : i \in rows \/ i <= q
    <3>1. \A i \in S!Items : i \in rows \/ i <= peak
      BY StoreParts DEF S!CursorsFit
    <3>2. QED
      BY <2>4, <3>1, StoreParts
  <2>9. S!TypeOK'
    BY <1>1, <1>2, <1>6, <2>3, <2>4, <2>7, StoreParts DEF S!TypeOK
  <2>10. S!CursorsFit'
    BY <1>1, <1>4, <1>5, <2>3, <2>4, <2>6, <2>7, <2>8, StoreParts DEF S!CursorsFit
  <2>11. QED
    BY <1>7, <2>9, <2>10 DEF S!StoreInv
<1>9. CASE S!WriteFails(j)
  <2>1. UNCHANGED <<saved, peak, acks>> /\ fails' \in 0..MaxFails
    BY <1>9, StoreConstants, StoreParts DEF S!WriteFails, S!TypeOK
  <2>2. S!TypeOK'
    BY <1>1, <1>2, <1>6, <2>1, StoreParts DEF S!TypeOK
  <2>3. S!CursorsFit'
    BY <1>1, <1>4, <1>5, <2>1, StoreParts DEF S!CursorsFit
  <2>4. QED
    BY <1>7, <2>2, <2>3 DEF S!StoreInv
<1>10. QED
  BY <1>8, <1>9

LEMMA StoreCrash ==
  ASSUME S!StoreInv, S!Crash
  PROVE  S!StoreInv'
<1>1. /\ swire' = <<>> /\ acks' = <<>> /\ jobs' = <<>> /\ cursors' = saved /\ sent' \in {0, saved}
      /\ dropped' = dropped \cup {i \in S!InProgress : i <= peak}
      /\ UNCHANGED <<rows, saved, peak, stored, fails>>
  BY DEF S!Crash, S!Loaded
<1>2. crashes' \in 0..MaxCrashes
  BY StoreConstants, StoreParts DEF S!Crash, S!TypeOK
<1>3. saved <= peak /\ saved \in 0..StoreSeq /\ peak \in 0..StoreSeq
  BY StoreParts DEF S!CursorsFit, S!TypeOK
<1>4. 1..peak \subseteq S!Handled'
  <2>1. 1..peak \subseteq stored \cup dropped \cup S!InProgress
    BY StoreParts DEF S!CursorsFit, S!Handled
  <2>2. \A i \in 1..peak : i <= peak
    BY <1>3
  <2>3. QED
    BY <1>1, <2>1, <2>2 DEF S!Handled
<1>5. 1..saved \subseteq S!Handled'
  <2>1. 1..saved \subseteq 1..peak
    BY <1>3
  <2>2. QED
    BY <1>4, <2>1
<1>6. S!TypeOK'
  <2>1. dropped' \subseteq S!Items
    BY <1>1, StoreParts DEF S!TypeOK
  <2>2. QED
    BY <1>1, <1>2, <2>1, StoreParts, StoreConstants DEF S!TypeOK
<1>7. S!CursorsFit'
  BY <1>1, <1>3, <1>4, <1>5, StoreParts DEF S!CursorsFit
<1>8. S!WireFits'
  BY <1>1, <1>5 DEF S!WireFits
<1>9. QED
  BY <1>6, <1>7, <1>8 DEF S!StoreInv

LEMMA StoreStep == S!StoreInv /\ [S!Next]_SVars => S!StoreInv'
<1> SUFFICES ASSUME S!StoreInv, [S!Next]_SVars PROVE S!StoreInv'
  OBVIOUS
<1>1. CASE UNCHANGED SVars
  <2>1. S!Handled' = S!Handled
    BY <1>1 DEF SVars, S!Handled, S!InProgress
  <2>2. S!TypeOK' /\ S!CursorsFit'
    BY <1>1, <2>1, StoreParts DEF SVars, S!TypeOK, S!CursorsFit
  <2>3. S!WireFits'
    BY <1>1, <2>1, StoreWireKept DEF SVars
  <2>4. QED
    BY <2>2, <2>3 DEF S!StoreInv
<1>2. CASE S!Next
  BY <1>2, StorePush, StoreReceive, StoreServer, StoreCrash, StoreWrite, StoreLeaves DEF S!Next
<1>3. QED
  BY <1>1, <1>2

(* What the invariant says of the client's disk.                           *)
LEMMA StoreKept ==
  ASSUME S!StoreInv
  PROVE  S!Inv /\ S!LossNeedsDroppedWrite
<1>1. 1..saved \subseteq 1..peak /\ \A i \in S!Items : i \in rows \/ i \in 1..peak
  BY StoreParts DEF S!CursorsFit, S!TypeOK
<1>2. QED
  BY <1>1, StoreParts DEF S!CursorsFit, S!Handled, S!Inv, S!CursorAfterPersist, S!LossNeedsDroppedWrite

-----------------------------------------------------------------------------
(* The properties of the run, for every value of the constants.            *)

LEMMA PartStep ==
  ASSUME [MCNext]_mcvars
  PROVE  [Next]_vars /\ [W!Next]_WVars /\ [S!Next]_SVars
<1>1. CASE UNCHANGED mcvars
  BY <1>1 DEF mcvars
<1>2. CASE MCNext
  BY <1>2 DEF MCNext
<1>3. QED
  BY <1>1, <1>2

(* For any conversations, batch size, queue and buffer, and whatever       *)
(* connections break and pushes are lost or reordered: what a replay and   *)
(* its flush send goes up in every conversation, and an accepted message   *)
(* that is neither in the inbox nor with the client was overtaken by a     *)
(* later one on a connection (Delivery).                                   *)
THEOREM DeliveryIsSound == MCSpec => []DeliverySound
<1>1. MCInit => DeliverySound
  BY DeliveryInit DEF MCInit, DeliverySound
<1>2. DeliverySound /\ [MCNext]_mcvars => DeliverySound'
  BY PartStep, DeliveryStep DEF DeliverySound
<1>3. QED
  BY <1>1, <1>2, PTL DEF MCSpec

(* The client's timers always match its state, and Hello is the first      *)
(* frame on each socket whatever continuations resume on it (WsClient).    *)
THEOREM ClientIsSound == MCSpec => []ClientSound
<1>1. MCInit => ClientSound
  BY ClientInit DEF MCInit, ClientSound
<1>2. ClientSound /\ [MCNext]_mcvars => ClientSound'
  BY PartStep, ClientStep DEF ClientSound
<1>3. QED
  BY <1>1, <1>2, PTL DEF MCSpec

(* Every behaviour of the client's connection is one of ClientSession, for *)
(* any sockets and messages (WsClient).                                    *)
THEOREM ClientImplementsSession == MCSpec => ImplementsSession
<1>1. MCInit => Session!Init
  BY ClientInit DEF MCInit
<1>2. ClientSound /\ [MCNext]_mcvars => [Session!Next]_(Session!vars)
  BY PartStep, ClientStep DEF ClientSound
<1>3. QED
  BY <1>1, <1>2, ClientIsSound, PTL DEF MCSpec, ImplementsSession, Session!Spec

(* However batches interleave and whatever crashes, reconnects and failed  *)
(* writes come between, an item the server has deleted is on the client's  *)
(* disk, is being written, or its write was dropped behind an advanced     *)
(* cursor (MessageStore).                                                  *)
THEOREM StoreIsSound == MCSpec => []StoreSound
<1>1. MCInit => S!StoreInv
  BY StoreInit DEF MCInit
<1>2. S!StoreInv /\ [MCNext]_mcvars => S!StoreInv'
  BY PartStep, StoreStep
<1>3. S!StoreInv => StoreSound
  BY StoreKept DEF StoreSound, S!Inv
<1>4. QED
  BY <1>1, <1>2, <1>3, PTL DEF MCSpec
=============================================================================
