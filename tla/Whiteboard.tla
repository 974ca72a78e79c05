----------------------------- MODULE Whiteboard -----------------------------
(***************************************************************************)
(* The shared whiteboard of a conversation (whiteboard/service.go,         *)
(* whiteboard/adapters/pg.go): an append-only log of drawing operations.   *)
(* A client stamps an operation with one past the highest seq it knows     *)
(* (whiteboard.ts nextSeq), keeps it, sends it once and polls the log for  *)
(* the operations above its cursor, SyncLimit at a time.  An operation is  *)
(* named by its author and its seq: an author never stamps one seq twice.  *)
(***************************************************************************)
EXTENDS Integers, FiniteSets, FiniteSetsExt

CONSTANTS Clients, MaxSeq, SyncLimit, MaxFaults

VARIABLES
    member,    \* conversation_members
    board,     \* board_ops
    known,     \* the operations each client holds
    cursor,    \* each client's sync cursor
    sending,   \* the operations on their way to the server
    reply,     \* the sync reply on its way to each client, or NoReply
    late,      \* history: operations stored after one of the same or a higher seq
    cut,       \* history: did a sync reply end between operations of one seq
    lost,      \* history: operations whose append failed
    faults

vars == <<member, board, known, cursor, sending, reply, late, cut, lost, faults>>

Op == [author : Clients, seq : 1..MaxSeq]
NoReply == [at |-> "none"]
SeqOf(ops) == {o.seq : o \in ops}
MaxSeqOf(ops) == IF ops = {} THEN 0 ELSE Max(SeqOf(ops))

Init ==
    /\ member = [c \in Clients |-> TRUE]
    /\ board = {} /\ sending = {}
    /\ known = [c \in Clients |-> {}]
    /\ cursor = [c \in Clients |-> 0]
    /\ reply = [c \in Clients |-> NoReply]
    /\ late = {} /\ cut = FALSE /\ lost = {} /\ faults = 0

(* makeStroke, makeErase, makeClear: a Lamport tick.                       *)
Draw(c) ==
    LET op == [author |-> c, seq |-> MaxSeqOf(known[c]) + 1]
    IN  /\ op.seq <= MaxSeq
        /\ known' = [known EXCEPT ![c] = @ \cup {op}]
        /\ sending' = sending \cup {op}
        /\ UNCHANGED <<member, board, cursor, reply, late, cut, lost, faults>>

(* Append: a member's operation is stored, once.                           *)
AppendOp(op) ==
    /\ op \in sending
    /\ sending' = sending \ {op}
    /\ IF member[op.author]
       THEN /\ board' = board \cup {op}
            /\ late' = IF MaxSeqOf(board) >= op.seq THEN late \cup {op} ELSE late
            /\ UNCHANGED lost
       ELSE lost' = lost \cup {op} /\ UNCHANGED <<board, late>>
    /\ UNCHANGED <<member, known, cursor, reply, cut, faults>>

(* The request fails; the client does not retry it.  Or the answer is lost *)
(* after the operation was stored.                                         *)
AppendFails(op) ==
    /\ op \in sending /\ faults < MaxFaults
    /\ sending' = sending \ {op}
    /\ lost' = lost \cup {op}
    /\ faults' = faults + 1
    /\ UNCHANGED <<member, board, known, cursor, reply, late, cut>>

(* Mutant of Listed: the log is read without ORDER BY.                     *)
ListedAnyOrder(since) ==
    LET above == {o \in board : o.seq > since}
    IN  IF Cardinality(above) <= SyncLimit THEN {above} ELSE kSubset(SyncLimit, above)

(* ListOps: above the cursor, ordered by seq, cut at the limit.            *)
Listed(since) ==
    LET above == {o \in board : o.seq > since}
    IN  IF Cardinality(above) <= SyncLimit THEN {above}
        ELSE {page \in kSubset(SyncLimit, above) :
                \A o \in page, q \in above \ page : o.seq <= q.seq}

(* Mutant of NewCursor: the cursor jumps to the board's highest seq.       *)
NewCursorMax(since, page) == MaxSeqOf(board)

NewCursor(since, page) == IF page = {} THEN since ELSE Max(SeqOf(page) \cup {since})

(* Sync: the page and the cursor it ends at.                               *)
Sync(c) ==
    /\ member[c] /\ reply[c] = NoReply
    /\ \E page \in Listed(cursor[c]) :
        /\ reply' = [reply EXCEPT ![c] =
                        [at |-> "reply", ops |-> page, to |-> NewCursor(cursor[c], page)]]
        /\ cut' = (cut \/ \E o \in board \ page, q \in page : o.seq = q.seq)
    /\ UNCHANGED <<member, board, known, cursor, sending, late, lost, faults>>

(* The client merges the page and moves its cursor.                        *)
MergeOps(c) ==
    /\ reply[c] # NoReply
    /\ known' = [known EXCEPT ![c] = @ \cup reply[c].ops]
    /\ cursor' = [cursor EXCEPT ![c] = reply[c].to]
    /\ reply' = [reply EXCEPT ![c] = NoReply]
    /\ UNCHANGED <<member, board, sending, late, cut, lost, faults>>

LeaveConversation(c) ==
    /\ member[c]
    /\ member' = [member EXCEPT ![c] = FALSE]
    /\ UNCHANGED <<board, known, cursor, sending, reply, late, cut, lost, faults>>

Next ==
    \/ \E c \in Clients : Draw(c) \/ Sync(c) \/ MergeOps(c) \/ LeaveConversation(c)
    \/ \E op \in sending : AppendOp(op) \/ AppendFails(op)

Spec ==
    /\ Init /\ [][Next]_vars
    /\ \A c \in Clients : WF_vars(Sync(c)) /\ WF_vars(MergeOps(c))

-----------------------------------------------------------------------------
TypeOK ==
    /\ board \subseteq Op /\ sending \subseteq Op
    /\ cursor \in [Clients -> 0..MaxSeq]

(* The log holds what clients drew, and an operation is in one place: on   *)
(* its way, stored or lost.                                                *)
NothingInvented ==
    /\ \A o \in board \cup sending \cup lost : o \in known[o.author]
    /\ sending \cap board = {} /\ lost \cap (board \cup sending) = {}

(* What a client's cursor has passed it knows, unless the operation was    *)
(* stored after one of the same or a higher seq (another client drew at    *)
(* the same time, or two requests of one client crossed) or a page was cut *)
(* between equal seqs.                                                     *)
MissedCameLate ==
    \A c \in Clients : \A o \in board :
        o.seq <= cursor[c] => o \in known[c] \/ o \in late \/ cut

WhiteboardSound == TypeOK /\ NothingInvented /\ MissedCameLate

(* Where a cursor may stand: at the start, or at an operation of the log.  *)
Reached(n) == n = 0 \/ \E o \in board : o.seq >= n

(* A reply passes over nothing that its client will not know, as a cursor. *)
ReplyFits(c) ==
    reply[c] # NoReply =>
        /\ reply[c].ops \subseteq board
        /\ reply[c].to \in 0..MaxSeq /\ Reached(reply[c].to)
        /\ \A o \in board : o.seq <= reply[c].to =>
              o \in known[c] \/ o \in reply[c].ops \/ o \in late \/ cut

(* The inductive invariant.                                                *)
WhiteboardInv ==
    /\ WhiteboardSound
    /\ known \in [Clients -> SUBSET Op] /\ lost \subseteq Op
    /\ reply = [c \in Clients |-> reply[c]]
    /\ \A c \in Clients : Reached(cursor[c]) /\ ReplyFits(c)
=============================================================================
