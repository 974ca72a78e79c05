------------------------------ MODULE Delivery ------------------------------
(***************************************************************************)
(* The way of accepted messages to one recipient device: inbox rows in     *)
(* PostgreSQL, live pushes over NATS, the gateway connection with its      *)
(* replay, its replay gate and its bounded outbound queue, and the client  *)
(* that persists a batch and acknowledges it with a cumulative cursor,     *)
(* upon which the rows are deleted.                                        *)
(*                                                                         *)
(* Accepting is one step here (ChatAccept shows that the seqs of a         *)
(* conversation are 1, 2, 3, ... and that a push follows the commit).  A   *)
(* message is the pair <<conversation, seq>>; a frame is a set of them,    *)
(* because the client sorts the items of a batch before it applies them.   *)
(***************************************************************************)
EXTENDS Integers, Sequences, FiniteSets

CONSTANTS
    NConvs,     \* conversations 1..NConvs, in the order of their ids
    MaxSeq,     \* messages per conversation
    MaxTotal,   \* messages of all conversations together
    BatchSize,  \* ReplayBatchSize: rows per replay scan
    QueueCap,   \* outboundQueueSize: frames
    BufferCap,  \* maxReplayBuffer: live items held during a replay
    MaxBreaks   \* bound on lost connections and failed ack RPCs

ASSUME ConstantsAssumption ==
    /\ NConvs \in Nat /\ MaxSeq \in Nat /\ MaxTotal \in Nat /\ MaxBreaks \in Nat
    /\ BatchSize \in Nat \ {0} /\ QueueCap \in Nat \ {0} /\ BufferCap \in Nat

Convs == 1..NConvs
Items == Convs \X (1..MaxSeq)
Cursors == [Convs -> 0..MaxSeq]
ZeroCursors == [k \in Convs |-> 0]

VARIABLES
    head,      \* conversations.seq
    inbox,     \* the device's message_inbox rows
    flying,    \* accepted, push not yet at the gateway
    conn,      \* the connection: "down", "replay", "drained" or "open"
    after,     \* the cursors this replay honours
    pos,       \* the keyset position of the replay scan
    seen,      \* replayGate.seen
    buffered,  \* replayGate.buffered
    outq,      \* Conn.outbound: frames on their way to the client
    ackq,      \* ClientAcks on their way to core-api
    cursor,    \* the client's cursors
    store,     \* the messages the client has persisted
    breaks,    \* broken connections and failed acks so far
    top,       \* highest seq per conversation this connection has enqueued
    ordered,   \* every replayed or flushed frame went beyond top
    overtaken, \* messages a later one of the conversation was enqueued before
    unpushed   \* messages whose live push was lost

gate == <<after, pos, seen, buffered>>
client == <<cursor, store>>
ghosts == <<top, ordered, overtaken, unpushed>>
vars == <<head, inbox, flying, conn, gate, outq, ackq, client, breaks, ghosts>>

Accepted == {i \in Items : i[2] <= head[i[1]]}

\* The order of the primary key (conversation_id, seq).
Below(i, j) == i[1] < j[1] \/ (i[1] = j[1] /\ i[2] <= j[2])

Highest(items, floor) ==
    [k \in Convs |->
        LET ns == {i[2] : i \in {j \in items : j[1] = k}} \cup {floor[k]}
        IN  CHOOSE n \in ns : \A p \in ns : p <= n]
-----------------------------------------------------------------------------
Init ==
    /\ head = ZeroCursors
    /\ inbox = {}
    /\ flying = {}
    /\ conn = "down"
    /\ after = ZeroCursors
    /\ pos = <<0, 0>>
    /\ seen = ZeroCursors
    /\ buffered = {}
    /\ outq = <<>>
    /\ ackq = <<>>
    /\ cursor = ZeroCursors
    /\ store = {}
    /\ breaks = 0
    /\ top = ZeroCursors
    /\ ordered = TRUE
    /\ overtaken = {}
    /\ unpushed = {}

\* The accept transaction commits; its push is under way.
Accept(k) ==
    /\ head[k] < MaxSeq /\ Cardinality(Accepted) < MaxTotal
    /\ head' = [head EXCEPT ![k] = @ + 1]
    /\ inbox' = inbox \cup {<<k, head[k] + 1>>}
    /\ flying' = flying \cup {<<k, head[k] + 1>>}
    /\ UNCHANGED <<conn, gate, outq, ackq, client, breaks, ghosts>>

(* Conn.Deliver: enqueue without blocking.                                 *)
Room(n) == Len(outq) + n <= QueueCap

\* The close drops what is queued in both directions; the gate dies with it.
Closed ==
    /\ conn' = "down"
    /\ outq' = <<>>
    /\ ackq' = <<>>
    /\ after' = ZeroCursors /\ pos' = <<0, 0>> /\ seen' = ZeroCursors
    /\ buffered' = {}
    /\ top' = ZeroCursors

(* ResumeStore.Validate: the cursors of the Hello count if the token is    *)
(* the one the last connection was given, which the client may not have.   *)
Resumed == {cursor, ZeroCursors}

(* Handle: the resume token is checked, the device's delivery subject is   *)
(* subscribed, and only then the replay starts.  A stale token, or none,   *)
(* means a full replay.                                                    *)
Connect ==
    /\ conn = "down"
    /\ conn' = "replay"
    /\ after' \in Resumed
    /\ UNCHANGED <<head, inbox, flying, pos, seen, buffered, outq, ackq, client,
                   breaks, ghosts>>

(* replay: one keyset page of PullInbox.  Rows at or below the client's    *)
(* cursor are skipped; the gate's watermark advances; a full queue closes. *)
Page == LET rows == {i \in inbox : ~Below(i, pos)}
        IN  {i \in rows : Cardinality({j \in rows : Below(j, i)}) <= BatchSize}

\* Mutant: the gate is not told what was replayed.
AdvanceForgotten(items) == seen
Advance(items) == Highest(items, seen)

\* Rows this frame jumps over: neither in it nor queued before it.
JumpedBy(items) ==
    {i \in inbox \ (items \cup store) :
        \E j \in items : i[1] = j[1] /\ top[i[1]] < i[2] /\ i[2] < j[2]}

Enqueue(items) ==
    /\ outq' = IF items = {} THEN outq ELSE Append(outq, items)
    /\ top' = Highest(items, top)
    /\ overtaken' = overtaken \cup JumpedBy(items)

\* Enqueue a frame of replayed or flushed items.
Emit(items) ==
    /\ Enqueue(items)
    /\ ordered' = (ordered /\ \A i \in items : i[2] > top[i[1]])

\* What the stream carries of a page: the rows beyond the client's cursors.
Streamed == {i \in Page : i[2] > after[i[1]]}

\* The stream ends with the first page that is not full.
EndOfReplay == Cardinality(Page) < BatchSize

PullInbox ==
    LET emit == Streamed IN
    /\ conn = "replay"
    /\ \/ /\ emit = {} \/ Room(1)
          /\ Emit(emit)
          /\ seen' = Advance(emit)
          /\ pos' = IF Page = {} THEN pos
                    ELSE CHOOSE i \in Page : \A j \in Page : Below(j, i)
          /\ conn' = IF EndOfReplay THEN "drained" ELSE "replay"
          /\ UNCHANGED <<after, buffered, ackq>>
       \/ /\ emit # {} /\ ~Room(1)
          /\ Closed
          /\ UNCHANGED <<ordered, overtaken>>
    /\ UNCHANGED <<head, inbox, flying, client, breaks, unpushed>>

(* The end of replay: the replay_complete marker (a frame with no items,   *)
(* which the client does not acknowledge), then replayGate.finish flushes  *)
(* the buffered items the replay has not covered and opens the gate.       *)
\* Mutant: the gate opens without flushing what it held.
FlushNothing == {}
Pending == {i \in buffered : i[2] > seen[i[1]]}

FinishReplay ==
    LET n == IF Pending = {} THEN 1 ELSE 2 IN
    /\ conn = "drained"
    /\ \/ /\ Room(n)
          /\ Emit(Pending)
          /\ conn' = "open"
          /\ buffered' = {} /\ seen' = ZeroCursors
          /\ UNCHANGED <<after, pos, ackq>>
       \/ /\ ~Room(n)
          /\ Closed
          /\ UNCHANGED <<ordered, overtaken>>
    /\ UNCHANGED <<head, inbox, flying, client, breaks, unpushed>>

(* The live-delivery handler: held while the gate is closed, forwarded     *)
(* once it is open; a full buffer or queue closes the connection.          *)
HoldLive(i) ==
    /\ conn \in {"replay", "drained"}
    /\ \/ /\ Cardinality(buffered) < BufferCap
          /\ buffered' = buffered \cup {i}
          /\ UNCHANGED <<conn, after, pos, seen, outq, ackq, top>>
       \/ /\ Cardinality(buffered) >= BufferCap
          /\ Closed
    /\ UNCHANGED overtaken

Forward(i) ==
    /\ conn = "open"
    /\ \/ /\ Room(1)
          /\ Enqueue({i})
          /\ UNCHANGED <<conn, gate, ackq>>
       \/ /\ ~Room(1)
          /\ Closed
          /\ UNCHANGED overtaken

LiveArrive(i) ==
    /\ i \in flying
    /\ flying' = flying \ {i}
    /\ \/ HoldLive(i)
       \/ Forward(i)
       \/ conn = "down" /\ UNCHANGED <<conn, gate, outq, ackq, top, overtaken>>
    /\ UNCHANGED <<head, inbox, client, breaks, ordered, unpushed>>

\* The publish failed, or NATS lost the message.
LiveLost(i) ==
    /\ i \in flying
    /\ flying' = flying \ {i}
    /\ unpushed' = unpushed \cup {i}
    /\ UNCHANGED <<head, inbox, conn, gate, outq, ackq, client, breaks, top,
                   ordered, overtaken>>

(* The client: planInboxBatch inserts what is beyond its cursor, moves the *)
(* cursor to the highest seq of the batch, and acknowledges the cursor.    *)
(* Mutant: the cursor moves with the head of the conversation.             *)
CursorFromHead(items) == [k \in Convs |-> IF \E i \in items : i[1] = k THEN head[k] ELSE cursor[k]]
NextCursor(items) == Highest(items, cursor)

ClientRecv ==
    /\ outq # <<>>
    /\ LET items == Head(outq) IN
       /\ store' = store \cup {i \in items : i[2] > cursor[i[1]]}
       /\ cursor' = NextCursor(items)
       /\ ackq' = Append(ackq, [k \in Convs |->
                     IF \E i \in items : i[1] = k THEN NextCursor(items)[k] ELSE 0])
    /\ outq' = Tail(outq)
    /\ UNCHANGED <<head, inbox, flying, conn, gate, breaks, ghosts>>

(* Service.AckDelivered: an empty cursor covers nothing.                   *)
Covers(ack, i) == ack[i[1]] > 0 /\ i[2] <= ack[i[1]]

(* Store.AckDelivered: rows at or below the cursor are deleted.            *)
Undelivered(ack) == {i \in inbox : ~Covers(ack, i)}

(* handleClientAck: a failed RPC is only logged.                           *)
AckDelivered ==
    /\ ackq # <<>>
    /\ ackq' = Tail(ackq)
    /\ inbox' = Undelivered(Head(ackq))
    /\ UNCHANGED <<head, flying, conn, gate, outq, client, breaks, ghosts>>

AckFails ==
    /\ ackq # <<>>
    /\ breaks < MaxBreaks
    /\ breaks' = breaks + 1
    /\ ackq' = Tail(ackq)
    /\ UNCHANGED <<head, inbox, flying, conn, gate, outq, client, ghosts>>

\* The socket breaks, the pod dies or drains, or the replay RPC fails.
Disconnect ==
    /\ conn # "down"
    /\ breaks < MaxBreaks
    /\ breaks' = breaks + 1
    /\ Closed
    /\ UNCHANGED <<head, inbox, flying, client, ordered, overtaken, unpushed>>
-----------------------------------------------------------------------------
Next ==
    \/ \E k \in Convs : Accept(k)
    \/ Connect \/ PullInbox \/ FinishReplay
    \/ \E i \in Items : LiveArrive(i) \/ LiveLost(i)
    \/ ClientRecv \/ AckDelivered \/ AckFails \/ Disconnect

Spec == Init /\ [][Next]_vars

(* The client reconnects, the goroutines of the gateway run, pushes arrive *)
(* and acks are handled.  Strong fairness of ClientRecv and AckDelivered:  *)
(* a slow consumer is disconnected again and again, but some frame and     *)
(* some ack get through again and again.                                   *)
Fairness ==
    /\ WF_vars(Connect) /\ WF_vars(PullInbox) /\ WF_vars(FinishReplay)
    /\ WF_vars(\E i \in Items : LiveArrive(i))
    /\ SF_vars(ClientRecv) /\ SF_vars(AckDelivered)

FairSpec == Spec /\ Fairness
-----------------------------------------------------------------------------
(* Every variable has its type.                                            *)
TypeOK ==
    /\ head \in Cursors /\ cursor \in Cursors /\ after \in Cursors
    /\ seen \in Cursors /\ top \in Cursors
    /\ inbox \subseteq Items /\ flying \subseteq Items
    /\ buffered \subseteq Items /\ store \subseteq Items
    /\ conn \in {"down", "replay", "drained", "open"}
    /\ pos \in {<<0, 0>>} \cup Items
    /\ outq \in Seq(SUBSET Items)
    /\ ackq \in Seq(Cursors)
    /\ breaks \in 0..MaxBreaks
    /\ ordered \in BOOLEAN
    /\ overtaken \subseteq Items /\ unpushed \subseteq Items

(* The interleave rule: what the replay and the flush put on a connection  *)
(* is in strictly increasing seq order per conversation, so no seq twice.  *)
ReplayInOrder == ordered

(* The module's state invariant: the types and the interleave rule.        *)
Inv == TypeOK /\ ReplayInOrder

(* If pushes are lost or reordered, a message can only be lost when a      *)
(* later one of its conversation was put on a connection before it: broken *)
(* connections, failed acks and full queues lose nothing by themselves.    *)
LossNeedsOvertaking == Accepted \subseteq inbox \cup store \cup overtaken

(* Every accepted message whose push is neither lost nor overtaken reaches *)
(* the client's store, although slow consumers are cut off in the middle   *)
(* of replays and start them again.                                        *)
EventuallyStored == <>[](Accepted \subseteq store \cup overtaken \cup unpushed)
-----------------------------------------------------------------------------
(* "A publish failure is a latency event, never a loss event": an accepted *)
(* message is persisted by the client or still in the inbox, whatever      *)
(* pushes and connections fail.  The code does not keep this.              *)
NoLoss == Accepted \subseteq inbox \cup store

-----------------------------------------------------------------------------
\* The items of the first n frames of the queue.
Queued(n) == UNION {outq[m] : m \in 1..n}

(* Until the gate opens, everything on the connection came from the scan:  *)
(* the gate's watermark is what was enqueued, and it is behind the scan.   *)
GateFits ==
    /\ conn = "down" => top = ZeroCursors /\ seen = ZeroCursors /\ pos = <<0, 0>>
    /\ conn \in {"replay", "drained"} =>
        /\ top = seen
        /\ \A k \in Convs : /\ k > pos[1] => top[k] = 0
                            /\ k = pos[1] => top[k] <= pos[2]

\* Nothing is ahead of the conversations.
AcceptedOnly ==
    /\ inbox \cup flying \cup buffered \subseteq Accepted
    /\ \A n \in DOMAIN outq : outq[n] \subseteq Accepted
    /\ \A k \in Convs : cursor[k] <= head[k] /\ top[k] <= head[k]

(* What the client's cursor covers it has, or it was overtaken; the acks   *)
(* cover no more.                                                          *)
CursorFits ==
    /\ \A i \in Accepted : i[2] <= cursor[i[1]] => i \in store \cup overtaken
    /\ \A n \in DOMAIN ackq : \A k \in Convs : ackq[n][k] <= cursor[k]

(* What comes before an item on the connection is with the client, queued  *)
(* no later, or was overtaken.                                             *)
FramesFit ==
    /\ \A n \in DOMAIN outq : \A j \in outq[n] : \A i \in Accepted :
          i[1] = j[1] /\ i[2] <= j[2] => i \in store \cup overtaken \cup Queued(n)
    /\ \A i \in Accepted : i[2] <= top[i[1]] => i \in store \cup overtaken \cup Queued(Len(outq))

(* The inductive invariant.                                                *)
DeliveryInv ==
    /\ Inv /\ LossNeedsOvertaking
    /\ GateFits /\ AcceptedOnly /\ CursorFits /\ FramesFit
=============================================================================
