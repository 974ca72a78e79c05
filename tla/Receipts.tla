------------------------------ MODULE Receipts ------------------------------
(***************************************************************************)
(* Delivery and read receipts of one device in one conversation, from the  *)
(* frames it sends to what its peers are shown (gateway/receipts.go,       *)
(* chat/receipt.go, chat/coalesce.go).  A receipt is a watermark: "up to   *)
(* this seq".  Each connection keeps the highest one of each kind, and its *)
(* own goroutine hands them to core-api every window and once more after   *)
(* the connection has ended.                                               *)
(***************************************************************************)
EXTENDS Integers

CONSTANTS Conns, MaxSeq, MaxSends, MaxFlips, MaxFaults

VARIABLES
    conn,      \* "new", "open", "done" (flush loop told to stop) or "gone"
    pending,   \* receiptCoalescer.pending of each connection
    batch,     \* what the last drain took and the flush has not submitted yet
    item,      \* the receipt being submitted: its kind and seq, or None
    enabled,   \* the user's read_receipts setting
    ever,      \* history: has it ever been enabled
    shown,     \* the last watermark relayed to the peers
    top,       \* history: the highest one relayed for each connection
    sent,      \* history: the highest one sent on each connection
    crossed,   \* history: did two connections have receipts under way
    failed,    \* history: the connections and kinds of which a submit failed
    sends, flips, faults

vars == <<conn, pending, batch, item, enabled, ever, shown, top, sent, crossed,
          failed, sends, flips, faults>>

Kinds == {"delivered", "read"}
None == [kind |-> "none", seq |-> 0]
NoMarks == [k \in Kinds |-> 0]

Busy(c) == pending[c] # NoMarks \/ batch[c] # NoMarks \/ item[c] # None

Init ==
    /\ conn = [c \in Conns |-> "new"]
    /\ pending = [c \in Conns |-> NoMarks]
    /\ batch = [c \in Conns |-> NoMarks]
    /\ item = [c \in Conns |-> None]
    /\ enabled \in BOOLEAN
    /\ ever = enabled
    /\ shown = NoMarks
    /\ top = [c \in Conns |-> NoMarks]
    /\ sent = [c \in Conns |-> NoMarks]
    /\ crossed = FALSE /\ failed = {} /\ sends = 0 /\ flips = 0 /\ faults = 0

Open(c) ==
    /\ conn[c] = "new"
    /\ conn' = [conn EXCEPT ![c] = "open"]
    /\ UNCHANGED <<pending, batch, item, enabled, ever, shown, top, sent, crossed,
                   failed, sends, flips, faults>>

(* Mutant of Kept: the latest receipt of a window wins.                    *)
KeptLast(old, seq) == seq

(* submit keeps the maximum.                                               *)
Kept(old, seq) == IF seq > old THEN seq ELSE old

(* A Receipt frame: the device marks a higher seq, or repeats a lower one  *)
(* (it acknowledges each message as it stores it, in any order).           *)
Submit(c, k, seq) ==
    /\ conn[c] = "open" /\ sends < MaxSends
    /\ sends' = sends + 1
    /\ pending' = [pending EXCEPT ![c][k] = Kept(@, seq)]
    /\ sent' = [sent EXCEPT ![c][k] = IF seq > @ THEN seq ELSE @]
    /\ crossed' = (crossed \/ (\E d \in Conns : seq < sent[d][k])
                           \/ \E d \in Conns \ {c} : Busy(d))
    /\ UNCHANGED <<conn, batch, item, enabled, ever, shown, top, failed, flips, faults>>

Disconnect(c) ==
    /\ conn[c] = "open"
    /\ conn' = [conn EXCEPT ![c] = "done"]
    /\ UNCHANGED <<pending, batch, item, enabled, ever, shown, top, sent, crossed,
                   failed, sends, flips, faults>>

(* Mutant of FinalFlush: the loop returns when its context is done.        *)
NoFinalFlush(c) == FALSE

FinalFlush(c) == conn[c] = "done"

(* drain: the ticker fired, or the context is done and this is the last    *)
(* flush.                                                                  *)
Drain(c) ==
    /\ conn[c] = "open" \/ FinalFlush(c)
    /\ batch[c] = NoMarks /\ item[c] = None /\ pending[c] # NoMarks
    /\ batch' = [batch EXCEPT ![c] = pending[c]]
    /\ pending' = [pending EXCEPT ![c] = NoMarks]
    /\ UNCHANGED <<conn, item, enabled, ever, shown, top, sent, crossed, failed, sends, flips,
                   faults>>

(* The loop ends once a flush after the disconnect has nothing left to do. *)
LoopEnds(c) ==
    /\ conn[c] = "done" /\ batch[c] = NoMarks /\ item[c] = None
    /\ FinalFlush(c) => pending[c] = NoMarks
    /\ conn' = [conn EXCEPT ![c] = "gone"]
    /\ UNCHANGED <<pending, batch, item, enabled, ever, shown, top, sent, crossed,
                   failed, sends, flips, faults>>

(* SubmitReceipt, the gate: a read receipt of a user who disabled them is  *)
(* dropped.  The entries of a batch go in the order of a Go map.           *)
SubmitReceipt(c, k) ==
    /\ item[c] = None /\ batch[c][k] > 0
    /\ batch' = [batch EXCEPT ![c][k] = 0]
    /\ item' = [item EXCEPT ![c] = IF k = "read" /\ ~enabled THEN None
                                   ELSE [kind |-> k, seq |-> batch[c][k]]]
    /\ failed' = IF k = "read" /\ ~enabled THEN failed \cup {<<c, k>>} ELSE failed
    /\ UNCHANGED <<conn, pending, enabled, ever, shown, top, sent, crossed, sends, flips,
                   faults>>

(* ReceiptTargets and the relays: dev.{id}.receipt of every other device   *)
(* of the conversation.                                                    *)
RelayReceipt(c) ==
    LET k == item[c].kind
    IN  /\ item[c] # None
        /\ shown' = [shown EXCEPT ![k] = item[c].seq]
        /\ top' = [top EXCEPT ![c][k] = IF item[c].seq > @ THEN item[c].seq ELSE @]
        /\ item' = [item EXCEPT ![c] = None]
        /\ UNCHANGED <<conn, pending, batch, enabled, ever, sent, crossed, failed, sends, flips,
                       faults>>

(* The RPC or a publish fails: the receipt is only logged.                 *)
ReceiptLost(c) ==
    /\ item[c] # None /\ faults < MaxFaults
    /\ failed' = failed \cup {<<c, item[c].kind>>}
    /\ item' = [item EXCEPT ![c] = None]
    /\ faults' = faults + 1
    /\ UNCHANGED <<conn, pending, batch, enabled, ever, shown, top, sent, crossed, sends, flips>>

(* PUT /v1/me/privacy flips the setting.                                   *)
SetReadReceipts ==
    /\ flips < MaxFlips
    /\ enabled' = ~enabled
    /\ ever' = (ever \/ enabled')
    /\ flips' = flips + 1
    /\ UNCHANGED <<conn, pending, batch, item, shown, top, sent, crossed, failed, sends,
                   faults>>

Next ==
    \/ SetReadReceipts
    \/ \E c \in Conns :
        \/ Open(c) \/ Disconnect(c) \/ Drain(c) \/ LoopEnds(c) \/ RelayReceipt(c)
        \/ ReceiptLost(c)
        \/ \E k \in Kinds : SubmitReceipt(c, k) \/ \E seq \in 1..MaxSeq : Submit(c, k, seq)

-----------------------------------------------------------------------------
TypeOK ==
    /\ conn \in [Conns -> {"new", "open", "done", "gone"}]
    /\ pending \in [Conns -> [Kinds -> 0..MaxSeq]]
    /\ shown \in [Kinds -> 0..MaxSeq]

(* Coalescing is lossless: when a connection's flush loop has ended, the   *)
(* highest receipt sent on it has been relayed, unless a submit of that    *)
(* kind failed or was withheld; and nothing is relayed that was not sent.  *)
Lossless ==
    \A c \in Conns, k \in Kinds :
        /\ top[c][k] <= sent[c][k]
        /\ (conn[c] = "gone" /\ <<c, k>> \notin failed) => top[c][k] = sent[c][k]

(* The privacy gate: a user who never enabled read receipts has sent none. *)
PrivateReads == shown["read"] > 0 => ever

(* The peers' watermark goes back only when the receipts of two            *)
(* connections, or receipts sent out of order, crossed.                    *)
WatermarkRises ==
    crossed \/ \A c \in Conns, k \in Kinds : top[c][k] <= shown[k]

ReceiptsSound == TypeOK /\ Lossless /\ PrivateReads /\ WatermarkRises

-----------------------------------------------------------------------------
\* The seqs of a connection that are kept, drained, submitted or relayed.
Held(c, k) ==
    {pending[c][k], batch[c][k], top[c][k], IF item[c].kind = k THEN item[c].seq ELSE 0}

(* The highest seq sent is somewhere on its way or has been relayed, and   *)
(* when the flush loop has ended nothing is on its way.                    *)
Accounted(c, k) ==
    /\ \A seq \in Held(c, k) : seq <= sent[c][k]
    /\ <<c, k>> \notin failed => sent[c][k] \in Held(c, k)
    /\ item[c].kind = k => batch[c][k] = 0
    /\ conn[c] = "gone" => Held(c, k) \subseteq {0, top[c][k]}

(* Without a crossing one connection at a time has receipts under way, and *)
(* each is at least what has been relayed before it.                       *)
InOrder(c, k) ==
    /\ \A d \in Conns \ {c} : Busy(c) => ~Busy(d)
    /\ \A d \in Conns :
        /\ pending[c][k] > 0 => sent[d][k] <= pending[c][k]
        /\ batch[c][k] > 0 => top[d][k] <= batch[c][k]
        /\ item[c].kind = k => top[d][k] <= item[c].seq

(* The inductive invariant.                                                *)
ReceiptsInv ==
    /\ ReceiptsSound
    /\ enabled \in BOOLEAN /\ ever \in BOOLEAN /\ crossed \in BOOLEAN
    /\ batch \in [Conns -> [Kinds -> 0..MaxSeq]]
    /\ top \in [Conns -> [Kinds -> 0..MaxSeq]]
    /\ sent \in [Conns -> [Kinds -> 0..MaxSeq]]
    /\ item \in [Conns -> {None} \cup [kind : Kinds, seq : 1..MaxSeq]]
    /\ enabled => ever
    /\ \A c \in Conns : item[c].kind = "read" => ever
    /\ \A c \in Conns, k \in Kinds : Accounted(c, k)
    /\ ~crossed => \A c \in Conns, k \in Kinds : InOrder(c, k)
=============================================================================
