----------------------------- MODULE ChatAccept -----------------------------
(***************************************************************************)
(* The message hot path of core-api: chat.Service.Accept with its two      *)
(* stores, the Valkey idempotency keys and the PostgreSQL accept           *)
(* transaction.  A call is one AcceptMessage RPC; calls run concurrently,  *)
(* a sender may have several calls in flight for the same msg_uuid (its    *)
(* own retry, and the gateway's retry on Unavailable), and every store     *)
(* operation is a step of its own.                                         *)
(*                                                                         *)
(* A fault is a store error, a lost reply, an RPC deadline or a crash of   *)
(* the process that runs the call.  After its deadline a call goes on      *)
(* with a cancelled context, so each later Valkey and PostgreSQL operation *)
(* fails at once; NATS publishing does not look at the context.            *)
(***************************************************************************)
EXTENDS Naturals, FiniteSets

CONSTANTS
    Calls,        \* handler slots of core-api
    Msgs,         \* client msg_uuids (structurally valid sends)
    Windowed,     \* the sends that are edit or delete overlays
    Convs,        \* conversations
    Users, Devices,
    Movers,       \* the users that may leave and rejoin a conversation
    ConvOf,       \* the conversation a send names
    Sender,       \* the device a send comes from
    UserOf,       \* the owner of a device
    MaxFaults,    \* bound on faults
    NoCall, NoMsg, \* "no call holds the row lock", "slot is free"
    Absent, Pending \* a dedupe key that does not exist, the marker "P"

ASSUME ConstantsAssumption ==
    /\ Windowed \subseteq Msgs
    /\ Movers \subseteq Users
    /\ ConvOf \in [Msgs -> Convs]
    /\ Sender \in [Msgs -> Devices]
    /\ UserOf \in [Devices -> Users]
    /\ MaxFaults \in Nat
    /\ NoCall \notin Calls
    /\ NoMsg \notin Msgs
    /\ Absent \notin Nat /\ Pending \notin Nat /\ Absent # Pending

VARIABLES
    pc, msg,    \* per call: the next step, the send it carries
    ctx,        \* per call: the context is not cancelled
    seq, to,    \* per call: the assigned seq, the recipient devices
    res,        \* per call: the answer
    dedupe,     \* dedupe:{uuid} keys: Absent, Pending or the committed seq
    convSeq,    \* conversations.seq, committed
    rowLock,    \* the call that holds the conversations row lock
    accepted,   \* committed accepts, one record per transaction
    published,  \* accepts pushed to the recipients' live subjects
    members,    \* conversation_members
    closed,     \* overlays whose edit or delete window has closed
    acks,       \* MsgAcks that reached the sender
    rejected,   \* sends answered with a permanent (non-retryable) error
    faults,     \* faults so far
    aged,       \* sends whose key expired after they had been accepted
    unknown     \* sends with a COMMIT that took effect but was reported failed

calls == <<pc, msg, ctx, seq, to, res>>
vars == <<calls, dedupe, convSeq, rowLock, accepted, published, members,
          closed, acks, rejected, faults, aged, unknown>>
-----------------------------------------------------------------------------
\* The answers of Accept; "ack" goes with the seq of the call.
Results == {"transient", "notmember", "closed", "ack"}

Accept(k, n, m, ds) == [conv |-> k, seq |-> n, msg |-> m, to |-> ds]

PCs == {"idle", "claim", "begin", "assign", "insert", "commit",
        "release", "record", "publish", "reply"}

Conv(c) == ConvOf[msg[c]]
InFlight(m) == {c \in Calls : pc[c] # "idle" /\ msg[c] = m}
Settled == {a.msg : a \in acks}

Goto(c, p) ==
    /\ pc' = [pc EXCEPT ![c] = p]
    /\ UNCHANGED <<msg, ctx, seq, to, res>>

\* The call has answered; the reply is on its way to the gateway.
Answer(c, r) ==
    /\ pc' = [pc EXCEPT ![c] = "reply"]
    /\ res' = [res EXCEPT ![c] = r]
    /\ UNCHANGED <<msg, ctx, seq, to>>

AnswerAck(c, n) ==
    /\ pc' = [pc EXCEPT ![c] = "reply"]
    /\ res' = [res EXCEPT ![c] = "ack"]
    /\ seq' = [seq EXCEPT ![c] = n]
    /\ UNCHANGED <<msg, ctx, to>>

\* The slot's record for the next call.
Reset(c, p, m, r) ==
    /\ pc' = [pc EXCEPT ![c] = p]
    /\ msg' = [msg EXCEPT ![c] = m]
    /\ ctx' = [ctx EXCEPT ![c] = TRUE]
    /\ seq' = [seq EXCEPT ![c] = 0]
    /\ to' = [to EXCEPT ![c] = {}]
    /\ res' = [res EXCEPT ![c] = r]

Free(c) == Reset(c, "idle", NoMsg, "transient")

\* A store operation of call c may fail: its context is done, or a fault.
MayFail(c) ==
    \/ /\ ~ctx[c]
       /\ UNCHANGED faults
    \/ /\ faults < MaxFaults
       /\ faults' = faults + 1

\* A store operation of call c may succeed.
MayRun(c) == ctx[c] /\ UNCHANGED faults
-----------------------------------------------------------------------------
Init ==
    /\ pc = [c \in Calls |-> "idle"]
    /\ msg = [c \in Calls |-> NoMsg]
    /\ ctx = [c \in Calls |-> TRUE]
    /\ seq = [c \in Calls |-> 0]
    /\ to = [c \in Calls |-> {}]
    /\ res = [c \in Calls |-> "transient"]
    /\ dedupe = [m \in Msgs |-> Absent]
    /\ convSeq = [k \in Convs |-> 0]
    /\ rowLock = [k \in Convs |-> NoCall]
    /\ accepted = {}
    /\ published = {}
    /\ members = [k \in Convs |-> Users]
    /\ closed = {}
    /\ acks = {}
    /\ rejected = {}
    /\ faults = 0
    /\ aged = {}
    /\ unknown = {}

(* Steps 1 and 2: the RPC arrives; the overlay window is checked before    *)
(* anything else.  The sender retries until it holds an ack.               *)
CheckOverlayWindow(m) == m \in Windowed => m \notin closed

Start(c, m) ==
    /\ pc[c] = "idle"
    /\ m \notin Settled
    /\ \/ CheckOverlayWindow(m)  /\ Reset(c, "claim", m, "transient")
       \/ ~CheckOverlayWindow(m) /\ Reset(c, "reply", m, "closed")
    /\ UNCHANGED <<dedupe, convSeq, rowLock, accepted, published, members,
                   closed, acks, rejected, faults, aged, unknown>>

\* The claim is won when the key is absent.  Mutant: a pending key counts as
\* free (the marker written before the seq is known is not recognised).
KeyFreeOrPending(m) == dedupe[m] \in {Absent, Pending}
KeyFree(m) == dedupe[m] = Absent

\* A key with a seq answers a duplicate.
KeyCommitted(m) == dedupe[m] \notin {Absent, Pending}

(* Step 3: the get-or-claim script.  On an error the script may still have *)
(* run (the reply was lost).                                               *)
Claim(c) ==
    LET m == msg[c] IN
    /\ pc[c] = "claim"
    /\ \/ /\ MayRun(c)
          /\ KeyFree(m)
          /\ dedupe' = [dedupe EXCEPT ![m] = Pending]
          /\ Goto(c, "begin")
       \/ /\ MayRun(c)
          /\ dedupe[m] = Pending
          /\ Answer(c, "transient")
          /\ UNCHANGED dedupe
       \/ /\ MayRun(c)
          /\ KeyCommitted(m)
          /\ AnswerAck(c, dedupe[m])
          /\ UNCHANGED dedupe
       \/ /\ MayFail(c)
          /\ Answer(c, "transient")
          /\ UNCHANGED dedupe
       \/ /\ MayFail(c)
          /\ ctx[c]
          /\ dedupe[m] = Absent
          /\ dedupe' = [dedupe EXCEPT ![m] = Pending]
          /\ Answer(c, "transient")
    /\ UNCHANGED <<convSeq, rowLock, accepted, published, members, closed,
                   acks, rejected, aged, unknown>>

(* Step 4, the accept transaction.  Every error path rolls back (which     *)
(* frees the row lock) and goes on to release the claim.                   *)
(* Mutant: the error is logged and the accept goes on.                     *)
ErrorIgnored(c, r) ==
    /\ pc' = [pc EXCEPT ![c] = "record"]
    /\ res' = [res EXCEPT ![c] = r]
    /\ UNCHANGED <<msg, ctx, seq, to>>
TxFailed(c, r) ==
    /\ pc' = [pc EXCEPT ![c] = "release"]
    /\ res' = [res EXCEPT ![c] = r]
    /\ UNCHANGED <<msg, ctx, seq, to>>

Unlocked(c) == [k \in Convs |-> IF rowLock[k] = c THEN NoCall ELSE rowLock[k]]

TxError(c) ==
    /\ pc[c] \in {"begin", "assign", "insert", "commit"}
    /\ MayFail(c)
    /\ TxFailed(c, "transient")
    /\ rowLock' = Unlocked(c)
    /\ UNCHANGED <<dedupe, convSeq, accepted, published, members, closed,
                   acks, rejected, aged, unknown>>

\* Begin and the membership check of the sender.
CheckMember(c) ==
    /\ pc[c] = "begin"
    /\ MayRun(c)
    /\ IF UserOf[Sender[msg[c]]] \in members[Conv(c)]
       THEN Goto(c, "assign")
       ELSE TxFailed(c, "notmember")
    /\ UNCHANGED <<dedupe, convSeq, rowLock, accepted, published, members,
                   closed, acks, rejected, aged, unknown>>

\* UPDATE ... seq = seq + 1 waits for the row lock and keeps it to the end of
\* the transaction.  Mutant: the counter is read without the lock.
NoRowLock(c) == TRUE
RowLockFree(c) == rowLock[Conv(c)] = NoCall

AssignSeq(c) ==
    /\ pc[c] = "assign"
    /\ MayRun(c)
    /\ RowLockFree(c)
    /\ rowLock' = [rowLock EXCEPT ![Conv(c)] = c]
    /\ pc' = [pc EXCEPT ![c] = "insert"]
    /\ seq' = [seq EXCEPT ![c] = convSeq[Conv(c)] + 1]
    /\ UNCHANGED <<msg, ctx, to, res>>
    /\ UNCHANGED <<dedupe, convSeq, accepted, published, members, closed,
                   acks, rejected, aged, unknown>>

\* Every device of every member but the sending one gets an inbox row.
Recipients(k, m) == {d \in Devices : UserOf[d] \in members[k] /\ d # Sender[m]}

InsertRows(c) ==
    /\ pc[c] = "insert"
    /\ MayRun(c)
    /\ pc' = [pc EXCEPT ![c] = "commit"]
    /\ to' = [to EXCEPT ![c] = Recipients(Conv(c), msg[c])]
    /\ UNCHANGED <<msg, ctx, seq, res>>
    /\ UNCHANGED <<dedupe, convSeq, rowLock, accepted, published, members,
                   closed, acks, rejected, aged, unknown>>

TakesEffect(c) ==
    /\ accepted' = accepted \cup
         {Accept(Conv(c), seq[c], msg[c], to[c])}
    /\ convSeq' = [convSeq EXCEPT ![Conv(c)] = seq[c]]
    /\ rowLock' = Unlocked(c)
    /\ UNCHANGED <<dedupe, published, members, closed, acks, rejected>>

CommitTx(c) ==
    /\ pc[c] = "commit"
    /\ MayRun(c)
    /\ TakesEffect(c)
    /\ Goto(c, "record")
    /\ UNCHANGED <<aged, unknown>>

\* The COMMIT took effect but its answer was lost: the adapter reports an error.
CommitUnknown(c) ==
    /\ pc[c] = "commit"
    /\ ctx[c]
    /\ MayFail(c)
    /\ TakesEffect(c)
    /\ TxFailed(c, "transient")
    /\ unknown' = unknown \cup {msg[c]}
    /\ UNCHANGED aged

\* The claim is dropped after a failed accept; a failed DEL is only logged.
Release(c) ==
    LET m == msg[c] IN
    /\ pc[c] = "release"
    /\ \/ MayRun(c)  /\ dedupe' = [dedupe EXCEPT ![m] = Absent]
       \/ MayFail(c) /\ UNCHANGED dedupe
    /\ Answer(c, res[c])
    /\ UNCHANGED <<convSeq, rowLock, accepted, published, members, closed,
                   acks, rejected, aged, unknown>>

(* Step 5: the seq replaces the pending marker; a failure is only logged.  *)
Record(c) ==
    LET m == msg[c] IN
    /\ pc[c] = "record"
    /\ \/ MayRun(c)  /\ dedupe' = [dedupe EXCEPT ![m] = seq[c]]
       \/ MayFail(c) /\ UNCHANGED dedupe
    /\ Goto(c, "publish")
    /\ UNCHANGED <<convSeq, rowLock, accepted, published, members, closed,
                   acks, rejected, aged, unknown>>

(* Step 6: live delivery, best effort.                                     *)
Publish(c) ==
    LET it == Accept(Conv(c), seq[c], msg[c], to[c]) IN
    /\ pc[c] = "publish"
    /\ published' \in {published, published \cup {it}}
    /\ AnswerAck(c, seq[c])
    /\ UNCHANGED <<dedupe, convSeq, rowLock, accepted, members, closed, acks,
                   rejected, faults, aged, unknown>>

\* The answer reaches the sender, unless it is lost with the connection or the
\* gateway's deadline has passed.
Reply(c) ==
    LET r == res[c]
        m == msg[c] IN
    /\ pc[c] = "reply"
    /\ \/ /\ MayRun(c)
          /\ acks' = IF r = "ack" THEN acks \cup {[msg |-> m, seq |-> seq[c]]}
                                  ELSE acks
          /\ rejected' = IF r \in {"notmember", "closed"} THEN rejected \cup {m}
                                                          ELSE rejected
       \/ /\ MayFail(c)
          /\ UNCHANGED <<acks, rejected>>
    /\ Free(c)
    /\ UNCHANGED <<dedupe, convSeq, rowLock, accepted, published, members,
                   closed, aged, unknown>>
-----------------------------------------------------------------------------
(* The environment.                                                        *)

\* The gateway's RPC deadline passes; the call's context is cancelled.
Deadline(c) ==
    /\ pc[c] # "idle"
    /\ ctx[c]
    /\ faults < MaxFaults
    /\ faults' = faults + 1
    /\ ctx' = [ctx EXCEPT ![c] = FALSE]
    /\ UNCHANGED <<pc, msg, seq, to, res>>
    /\ UNCHANGED <<dedupe, convSeq, rowLock, accepted, published, members,
                   closed, acks, rejected, aged, unknown>>

\* The process dies; PostgreSQL rolls an open transaction back.
Crash(c) ==
    /\ pc[c] # "idle"
    /\ faults < MaxFaults
    /\ faults' = faults + 1
    /\ Free(c)
    /\ rowLock' = Unlocked(c)
    /\ UNCHANGED <<dedupe, convSeq, accepted, published, members, closed,
                   acks, rejected, aged, unknown>>

\* dedupeTTL (24 h) passes.  It is far longer than a call, which ends with the
\* gateway's 2 s deadline.  Mutant: the claim is written without EX.
NoExpiry(m) == FALSE /\ UNCHANGED vars
Expire(m) ==
    /\ InFlight(m) = {}
    /\ dedupe[m] # Absent
    /\ dedupe' = [dedupe EXCEPT ![m] = Absent]
    /\ aged' = IF \E a \in accepted : a.msg = m THEN aged \cup {m} ELSE aged
    /\ UNCHANGED <<calls, convSeq, rowLock, accepted, published, members,
                   closed, acks, rejected, faults, unknown>>

CloseWindow(m) ==
    /\ m \in Windowed \ closed
    /\ closed' = closed \cup {m}
    /\ UNCHANGED <<calls, dedupe, convSeq, rowLock, accepted, published,
                   members, acks, rejected, faults, aged, unknown>>

ChangeMembers(k, u) ==
    /\ members' = [members EXCEPT ![k] =
                     IF u \in @ THEN @ \ {u} ELSE @ \cup {u}]
    /\ UNCHANGED <<calls, dedupe, convSeq, rowLock, accepted, published,
                   closed, acks, rejected, faults, aged, unknown>>
-----------------------------------------------------------------------------
Step(c) ==
    \/ Claim(c) \/ TxError(c) \/ CheckMember(c) \/ AssignSeq(c)
    \/ InsertRows(c) \/ CommitTx(c) \/ CommitUnknown(c) \/ Release(c)
    \/ Record(c) \/ Publish(c) \/ Reply(c)

Next ==
    \/ \E c \in Calls : Step(c) \/ Deadline(c) \/ Crash(c)
    \/ \E c \in Calls, m \in Msgs : Start(c, m)
    \/ \E m \in Msgs : Expire(m) \/ CloseWindow(m)
    \/ \E k \in Convs, u \in Movers : ChangeMembers(k, u)

Spec == Init /\ [][Next]_vars

(* The scheduler runs every call, Valkey expires keys, and the sender goes *)
(* on retrying.  Strong fairness of Start: the slots are a bound of the    *)
(* model, so a retry is not starved by other sends forever.                *)
Fairness ==
    /\ \A c \in Calls : WF_vars(Step(c))
    /\ \A m \in Msgs : SF_vars(Expire(m)) /\ SF_vars(\E c \in Calls : Start(c, m))

FairSpec == Spec /\ Fairness
-----------------------------------------------------------------------------
AcceptRecords == [conv : Convs, seq : Nat, msg : Msgs, to : SUBSET Devices]

(* Every variable has its type, and a call that is running has a message.  *)
TypeOK ==
    /\ pc \in [Calls -> PCs]
    /\ msg \in [Calls -> Msgs \cup {NoMsg}]
    /\ \A c \in Calls : pc[c] # "idle" => msg[c] \in Msgs
    /\ ctx \in [Calls -> BOOLEAN]
    /\ seq \in [Calls -> Nat]
    /\ to \in [Calls -> SUBSET Devices]
    /\ res \in [Calls -> Results]
    /\ dedupe \in [Msgs -> Nat \cup {Absent, Pending}]
    /\ convSeq \in [Convs -> Nat]
    /\ rowLock \in [Convs -> Calls \cup {NoCall}]
    /\ accepted \subseteq AcceptRecords
    /\ published \subseteq AcceptRecords
    /\ members \in [Convs -> SUBSET Users]
    /\ closed \subseteq Msgs
    /\ acks \subseteq [msg : Msgs, seq : Nat]
    /\ rejected \subseteq Msgs
    /\ faults \in 0..MaxFaults
    /\ aged \subseteq Msgs
    /\ unknown \subseteq Msgs

(* A "sent" acknowledgement is never issued for a message that is not in   *)
(* the inbox under exactly that seq, whatever stores fail and whichever of *)
(* the concurrent calls of the send answers (service.go steps 3 to 6).     *)
AckIsDurable ==
    \A a \in acks : \E r \in accepted : r.msg = a.msg /\ r.seq = a.seq

(* Only what is in the inbox is pushed live (step 6 comes after step 4).   *)
PublishedIsDurable == published \subseteq accepted

(* What the sender or a recipient is told of is in the inbox.              *)
DurableFirst == AckIsDurable /\ PublishedIsDurable

(* The committed seqs of a conversation are 1, 2, ..., convSeq with no gap *)
(* and no number used twice, under rollbacks, crashes and lost COMMIT      *)
(* answers (pg.go: the row lock is the total order).                       *)
SeqsDense ==
    /\ \A a \in accepted : a.seq \in 1..convSeq[a.conv]
    /\ \A k \in Convs : \A n \in 1..convSeq[k] :
          \E a \in accepted : a.conv = k /\ a.seq = n
    /\ \A a, b \in accepted : a.conv = b.conv /\ a.seq = b.seq => a = b

(* A msg_uuid is accepted twice only if its key expired after an accept or *)
(* a COMMIT that was reported as failed took effect: retries, crashes,     *)
(* deadlines and Valkey errors alone never duplicate a message.            *)
AtMostOnce ==
    \A a, b \in accepted : a.msg = b.msg /\ a # b => a.msg \in aged \cup unknown

(* A send that its sender keeps retrying is acknowledged or permanently    *)
(* rejected: no claim, lock or lost answer wedges it forever.  The premise *)
(* is the client's backoff, longer than a call: retries do not overlap     *)
(* without end.                                                            *)
EverySendSettles ==
    \A m \in Msgs :
        []<>(InFlight(m) = {}) => <>(m \in Settled \cup rejected)
=============================================================================
