---------------------------- MODULE MessageStore ----------------------------
(***************************************************************************)
(* How the client persists inbox batches of one conversation: the cursor   *)
(* in memory, the cursor and the messages on disk, and the ack that lets   *)
(* the server delete.  persistInboxBatch awaits every write, so batches    *)
(* that arrive meanwhile run interleaved with it.  A crash loses what is   *)
(* in memory; a reconnect keeps it.                                        *)
(*                                                                         *)
(* Items are named by their seq.  The server pushes rows in seq order; the *)
(* losses of reordered pushes are the business of Delivery.                *)
(***************************************************************************)
EXTENDS Naturals, FiniteSets, Sequences, SequencesExt

CONSTANTS
    MaxSeq,      \* items of the conversation
    Overlays,    \* those that are edits, deletes, reactions or pins
    BatchSize,   \* items per batch
    MaxJobs,     \* batches that may be persisted at the same time
    MaxCrashes,  \* bound on crashes and reconnects
    MaxFails     \* bound on writes that throw

Items == 1..MaxSeq

VARIABLES
    rows,     \* the server's inbox rows
    sent,     \* highest seq pushed on this connection
    wire,     \* batches on their way to the client
    cursors,  \* Cursors, in memory
    saved,    \* the cursors table
    peak,     \* history: the highest cursor that was ever saved
    stored,   \* messages inserted and overlays applied, on disk
    jobs,     \* running persistInboxBatch calls: writes to do, watermark
    acks,     \* ClientAcks on their way
    dropped,  \* history: items whose write threw, or was cut off by a crash
              \* after a cursor past them had been saved
    crashes, fails

vars == <<rows, sent, wire, cursors, saved, peak, stored, jobs, acks,
          dropped, crashes, fails>>

InProgress == UNION {jobs[j].todo : j \in DOMAIN jobs}
Maximum(S) == CHOOSE n \in S : \A m \in S : m <= n
-----------------------------------------------------------------------------
StartCursor == 0

Init ==
    /\ rows = Items
    /\ sent = 0
    /\ wire = <<>>
    /\ cursors = StartCursor /\ saved = 0 /\ peak = 0
    /\ stored = {}
    /\ jobs = <<>>
    /\ acks = <<>>
    /\ dropped = {}
    /\ crashes = 0 /\ fails = 0

\* The gateway pushes the next rows of the replay.
Push ==
    LET next == {i \in rows : i > sent} IN
    /\ next # {}
    /\ Len(wire) < MaxJobs
    /\ LET batch == {i \in next : Cardinality({j \in next : j <= i}) <= BatchSize}
       IN  /\ wire' = Append(wire, batch)
           /\ sent' = Maximum(batch)
    /\ UNCHANGED <<rows, cursors, saved, peak, stored, jobs, acks, dropped, crashes, fails>>

\* Mutant: an off-by-one skips the message right after the cursor.
PlannedBeyondNext(batch) == {i \in batch \ Overlays : i > cursors + 1} \cup (batch \cap Overlays)

(* planInboxBatch: messages beyond the cursor are inserted, then overlays  *)
(* are applied whatever the cursor is; the cursor in memory advances here. *)
Planned(batch) == {i \in batch \ Overlays : i > cursors} \cup (batch \cap Overlays)

Advanced(batch) == Maximum(batch \cup {cursors})

OnInboxBatch ==
    /\ wire # <<>>
    /\ Len(jobs) < MaxJobs
    /\ wire' = Tail(wire)
    /\ cursors' = Advanced(Head(wire))
    /\ jobs' = Append(jobs, [todo |-> Planned(Head(wire)),
                             mark |-> Advanced(Head(wire))])
    /\ UNCHANGED <<rows, sent, saved, peak, stored, acks, dropped, crashes, fails>>

(* The writes of a batch are in seq order, the inserts first.              *)
NextWrite(todo) ==
    LET first == IF todo \subseteq Overlays THEN todo ELSE todo \ Overlays
    IN  CHOOSE i \in first : \A k \in first : i <= k

(* One awaited INSERT or UPDATE of a batch.                                *)
Write(j) ==
    /\ j \in 1..Len(jobs)
    /\ jobs[j].todo # {}
    /\ stored' = stored \cup {NextWrite(jobs[j].todo)}
    /\ jobs' = [jobs EXCEPT ![j].todo = @ \ {NextWrite(@)}]
    /\ UNCHANGED <<rows, sent, wire, cursors, saved, peak, acks, dropped, crashes, fails>>

(* The writes are done: the cursors table is written, and the promise      *)
(* resolves with the watermark, which goes out as ClientAck.  Mutant: a   *)
(* batch that does not move the saved cursor, a pure duplicate, never      *)
(* resolves.                                                               *)
OnlyProgress(j) == j \in 1..Len(jobs) /\ jobs[j].todo = {} /\ jobs[j].mark > saved
WritesDone(j) == j \in 1..Len(jobs) /\ jobs[j].todo = {}

Finish(j) ==
    /\ WritesDone(j)
    /\ saved' = jobs[j].mark
    /\ peak' = Maximum({peak, jobs[j].mark})
    /\ acks' = Append(acks, jobs[j].mark)
    /\ jobs' = RemoveAt(jobs, j)
    /\ UNCHANGED <<rows, sent, wire, cursors, stored, dropped, crashes, fails>>

\* A write throws: the promise is rejected and nothing is acknowledged.
WriteFails(j) ==
    /\ j \in 1..Len(jobs)
    /\ fails < MaxFails
    /\ fails' = fails + 1
    /\ dropped' = dropped \cup jobs[j].todo
    /\ jobs' = RemoveAt(jobs, j)
    /\ UNCHANGED <<rows, sent, wire, cursors, saved, peak, stored, acks, crashes>>

(* The server deletes the rows up to the acknowledged seq.                 *)
AckDelivered ==
    /\ acks # <<>>
    /\ acks' = Tail(acks)
    /\ rows' = {i \in rows : i > Head(acks)}
    /\ UNCHANGED <<sent, wire, cursors, saved, peak, stored, jobs, dropped, crashes, fails>>

\* The connection breaks and comes back: the replay starts after the cursor
\* of the Hello, or from the start if the resume token is not the current one.
Reconnect ==
    /\ crashes < MaxCrashes
    /\ crashes' = crashes + 1
    /\ wire' = <<>> /\ acks' = <<>>
    /\ sent' \in {0, cursors}
    /\ UNCHANGED <<rows, cursors, saved, peak, stored, jobs, dropped, fails>>

\* Mutant: init does not load the cursors table but the newest message.
FromMessages == Maximum(stored \cup {0})
Loaded == saved

(* The application is killed and starts again: init loads the cursors.     *)
Crash ==
    /\ crashes < MaxCrashes
    /\ crashes' = crashes + 1
    /\ wire' = <<>> /\ acks' = <<>> /\ jobs' = <<>>
    /\ dropped' = dropped \cup {i \in InProgress : i <= peak}
    /\ cursors' = Loaded
    /\ sent' \in {0, Loaded}
    /\ UNCHANGED <<rows, saved, peak, stored, fails>>
-----------------------------------------------------------------------------
Next ==
    \/ Push \/ OnInboxBatch \/ AckDelivered \/ Reconnect \/ Crash
    \/ \E j \in 1..MaxJobs : Write(j) \/ Finish(j) \/ WriteFails(j)

Spec == Init /\ [][Next]_vars

\* The gateway pushes, promises resolve and acks are handled.
Fairness ==
    /\ WF_vars(Push) /\ WF_vars(OnInboxBatch) /\ WF_vars(AckDelivered)
    /\ WF_vars(\E j \in 1..MaxJobs : Write(j) \/ Finish(j))

FairSpec == Spec /\ Fairness
-----------------------------------------------------------------------------
(* Every variable has its type.                                            *)
TypeOK ==
    /\ rows \subseteq Items /\ stored \subseteq Items
    /\ sent \in 0..MaxSeq /\ cursors \in 0..MaxSeq
    /\ saved \in 0..MaxSeq /\ peak \in 0..MaxSeq
    /\ wire \in Seq((SUBSET Items) \ {{}})
    /\ jobs \in Seq([todo : SUBSET Items, mark : Items])
    /\ acks \in Seq(Items)
    /\ dropped \subseteq Items
    /\ crashes \in 0..MaxCrashes /\ fails \in 0..MaxFails

(* "ACK-after-persist", as far as the code keeps it: an item the server    *)
(* has deleted is on the client's disk, is being written, or its write was *)
(* given up behind an advanced cursor; crashes, reconnects and replays     *)
(* between batches lose nothing.                                           *)
LossNeedsDroppedWrite == Items \subseteq rows \cup stored \cup dropped \cup InProgress

(* The saved cursor runs ahead of the saved messages only by such writes:  *)
(* the next Hello skips nothing else that is missing.                      *)
CursorAfterPersist == 1..saved \subseteq stored \cup dropped \cup InProgress

(* The module's state invariant: the types, and the saved cursor.          *)
Inv == TypeOK /\ CursorAfterPersist

(* Every other item the server holds reaches the client's disk, whatever   *)
(* crashes and reconnects come between.                                    *)
EventuallyPersisted == <>(Items \subseteq stored \cup dropped)
-----------------------------------------------------------------------------
(* "The ACK-after-persist rule means the cursor only advances once a       *)
(* message is durably stored": an item the server has deleted is on the    *)
(* client's disk.  The code does not keep this.                            *)
AckAfterPersist == Items \subseteq rows \cup stored

-----------------------------------------------------------------------------
\* The items the client has dealt with, for good or not.
Handled == stored \cup dropped \cup InProgress

\* The items of the first k batches on the wire.
OnWire(k) == UNION {wire[l] : l \in 1..k}

(* No cursor is past an item the client has not dealt with: neither the    *)
(* one in memory nor any that was saved, which bound the batches' marks,   *)
(* the acks and the rows that are deleted.                                 *)
CursorsFit ==
    /\ 1..peak \subseteq Handled /\ 1..cursors \subseteq Handled
    /\ saved <= peak
    /\ \A j \in DOMAIN jobs : jobs[j].mark <= cursors
    /\ \A k \in DOMAIN acks : acks[k] <= peak
    /\ \A i \in Items : i \in rows \/ i <= peak

(* What a connection has jumped over is dealt with or ahead on the wire.   *)
WireFits ==
    /\ \A k \in DOMAIN wire : \A m \in wire[k] : 1..m \subseteq Handled \cup OnWire(k)
    /\ 1..sent \subseteq Handled \cup OnWire(Len(wire))

(* The inductive invariant.                                                *)
StoreInv == TypeOK /\ CursorsFit /\ WireFits
=============================================================================
