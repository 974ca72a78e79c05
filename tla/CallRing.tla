------------------------------ MODULE CallRing ------------------------------
(***************************************************************************)
(* One call in call-ctl: the ring record in Valkey, the index of ringing   *)
(* rings that the miss sweeper scans, the call history row, and the        *)
(* webhooks of the media server.                                           *)
(*                                                                         *)
(* Every handler reads the record, decides with domain.Next and writes the *)
(* record back; nothing compares what it overwrites.  Handlers of several  *)
(* pods run concurrently, so read, write and history upsert are steps of   *)
(* their own.  Webhooks are redelivered: one that was sent may be handled  *)
(* any number of times.                                                    *)
(***************************************************************************)
EXTENDS Naturals, FiniteSets

CONSTANTS
    Caller, Callees,  \* the caller's device, the devices of the callees
    Handlers,         \* requests, webhooks and sweeps in progress at once
    MaxFaults,        \* bound on failed writes, pod crashes, network drops
    NoDevice

Parties == Callees \cup {Caller}
Terminal == {"declined", "missed", "ended"}
RingStates == Terminal \cup {"ringing", "answered"}
Events == {"answer", "decline", "sweep", "joined", "finished"}
Outcomes == {"completed", "missed", "declined", "failed"}

VARIABLES
    ring,     \* call_ring:{id}: state ("gone" without a key), answeredBy
    index,    \* the ring is in call_ringing
    due,      \* the 45 s have elapsed
    hist,     \* call_records.outcome, "none" without a row
    ops,      \* per handler: what it does, for whom, the record it read
    phase,    \* per party: the call as its client shows it
    room,     \* parties whose media is connected
    hooks,    \* webhooks the media server has sent
    answers,  \* history: devices whose Answer was written
    created, faults

vars == <<ring, index, due, hist, ops, phase, room, hooks, answers, created, faults>>

Gone == [state |-> "gone", by |-> NoDevice]
Idle == [step |-> "idle", event |-> "answer", dev |-> NoDevice, rec |-> Gone]
Fault == faults < MaxFaults /\ faults' = faults + 1
-----------------------------------------------------------------------------
Init ==
    /\ ring = Gone /\ index = FALSE /\ due = FALSE /\ hist = "none"
    /\ ops = [h \in Handlers |-> Idle]
    /\ phase = [p \in Parties |-> "idle"]
    /\ room = {} /\ hooks = {} /\ answers = {}
    /\ created = FALSE /\ faults = 0

\* Mutant: an answered ring can be answered again.
AcceptsAgain(state, event) ==
    IF event = "finished" THEN state \notin Terminal
    ELSE state = "ringing" \/ (event = "answer" /\ state = "answered")
(* domain.Next: which events a ring accepts, and where they lead.  The     *)
(* room_finished webhook goes past it and ends any ring that is not over.  *)
Accepts(state, event) ==
    IF event = "finished" THEN state \notin Terminal ELSE state = "ringing"

Target(event) ==
    CASE event \in {"answer", "joined"} -> "answered"
      [] event = "decline" -> "declined"
      [] event = "sweep" -> "missed"
      [] event = "finished" -> "ended"

\* Mutant: the index entry is never added.
NeverIndexed(rec) == ring' = rec /\ index' = FALSE

(* RingStore.Save: record and index in one MULTI.                          *)
Save(rec) ==
    /\ ring' = rec
    /\ index' = (rec.state = "ringing")

(* Create saves the ring and offers it to the callees; if the write errs   *)
(* the caller sees an error, whether it was applied or not.                *)
Create ==
    /\ ~created
    /\ created' = TRUE
    /\ Save([state |-> "ringing", by |-> NoDevice])
    /\ phase' = [p \in Parties |-> "ringing"]
    /\ UNCHANGED <<due, hist, ops, room, hooks, answers, faults>>

CreateErrs ==
    /\ ~created
    /\ created' = TRUE
    /\ Fault
    /\ Save([state |-> "ringing", by |-> NoDevice])
    /\ UNCHANGED <<due, hist, ops, phase, room, hooks, answers>>
-----------------------------------------------------------------------------
\* What starts a handler: a client request, the sweeper's scan, a webhook.
Called(event, d) ==
    CASE event \in {"answer", "decline"} ->
            d \in Callees /\ phase[d] = "ringing" /\ \A h \in Handlers : ops[h].dev # d
      [] event = "sweep" -> d = NoDevice /\ index /\ due
      [] OTHER -> d = NoDevice /\ event \in hooks

\* A client that declines stops ringing before it asks the server.
Locally(event, d) ==
    phase' = IF event = "decline" THEN [phase EXCEPT ![d] = "over"] ELSE phase

(* loadRing: an expired ring is not found.                                 *)
LoadRing == ring # Gone

(* The handler reads the record and accepts the event, or records the      *)
(* outcome of a finished room whose ring is over already.                  *)
Load(h, event, d) ==
    /\ ops[h] = Idle
    /\ Called(event, d)
    /\ LoadRing
    /\ Accepts(ring.state, event) \/ event = "finished"
    /\ ops' = [ops EXCEPT ![h] =
                 [step  |-> IF Accepts(ring.state, event) THEN "save" ELSE "record",
                  event |-> event, dev |-> d, rec |-> ring]]
    /\ Locally(event, d)
    /\ UNCHANGED <<ring, index, due, hist, room, hooks, answers, created, faults>>

\* The ring does not accept the event: a decline is ignored, an answer is
\* rejected unless it comes again from the device that answered.
Refuse(event, d) ==
    /\ event \in {"answer", "decline"}
    /\ Called(event, d)
    /\ ~Accepts(ring.state, event)
    /\ phase' = [phase EXCEPT ![d] =
                   IF event = "decline" THEN "over"
                   ELSE IF ring.state = "answered" /\ ring.by = d THEN "in" ELSE @]
    /\ phase' # phase
    /\ UNCHANGED <<ring, index, due, hist, ops, room, hooks, answers, created, faults>>

\* The record after the event; only Answer names the device.
Updated(op) ==
    [state |-> Target(op.event),
     by |-> IF op.event = "answer" THEN op.dev ELSE op.rec.by]

Answered(op) == IF op.event = "answer" THEN answers \cup {op.dev} ELSE answers

Siblings(d) == Callees \ {d}

(* deviceList: every device, or none if the lookup fails, which is logged. *)
DeviceList(reached) ==
    \/ reached = Parties /\ UNCHANGED faults
    \/ reached = {} /\ Fault

(* The frames that follow the write, and what the clients make of them: an *)
(* answer tells the caller and the other callee devices, a decline the     *)
(* caller only, a miss the caller by frame and the callees by push, a      *)
(* finished room everybody, a join of the media nobody.  The device that   *)
(* answers has the response of its request.                                *)
Signal(event, d, reached) ==
    phase' = [p \in Parties |->
        CASE event = "answer" /\ p = d /\ phase[p] = "ringing" -> "in"
          [] p \notin reached -> phase[p]
          [] event = "answer" /\ p = Caller /\ phase[p] = "ringing" -> "in"
          [] event = "answer" /\ p \in Siblings(d) /\ phase[p] = "ringing" -> "over"
          [] event = "decline" /\ p = Caller /\ phase[p] = "ringing" -> "over"
          [] event = "sweep" /\ phase[p] = "ringing" -> "over"
          [] event = "finished" -> "over"
          [] OTHER -> phase[p]]

\* Mutant: the sweeper marks the ring missed and forgets the history row.
SweepForgets(event) == event \in {"decline", "finished"}
\* Answer and participant_joined write no history.
Recorded(event) == event \in {"decline", "sweep", "finished"}

(* The handler writes the record and signals; decline, sweep and finished  *)
(* go on to the history.  participant_joined ignores an error, the others  *)
(* give up, in both cases with the write applied or not (SaveErrs).        *)
Write(h) ==
    LET op == ops[h] IN
    /\ op.step = "save"
    /\ Save(Updated(op))
    /\ \E reached \in {Parties, {}} :
          DeviceList(reached) /\ Signal(op.event, op.dev, reached)
    /\ answers' = Answered(op)
    /\ ops' = [ops EXCEPT ![h] =
                 IF Recorded(op.event) THEN [op EXCEPT !.step = "record"] ELSE Idle]
    /\ UNCHANGED <<due, hist, room, hooks, created>>

SaveErrs(h) ==
    LET op == ops[h] IN
    /\ op.step = "save"
    /\ Fault
    /\ \/ Save(Updated(op)) /\ answers' = Answered(op)
       \/ UNCHANGED <<ring, index, answers>>
    /\ ops' = [ops EXCEPT ![h] = Idle]
    /\ UNCHANGED <<due, hist, phase, room, hooks, created>>

\* Mutant: every finished room counts as a completed call.
OutcomeOptimistic(op) ==
    CASE op.event = "decline" -> "declined"
      [] op.event = "sweep" -> "missed"
      [] OTHER -> "completed"
OutcomeOf(op) ==
    CASE op.event = "decline" -> "declined"
      [] op.event = "sweep" -> "missed"
      [] op.rec.by # NoDevice -> "completed"
      [] OTHER -> "failed"

(* recordOutcome: the upsert overwrites the outcome of an earlier one; an  *)
(* error is logged.                                                        *)
Record(h) ==
    /\ ops[h].step = "record"
    /\ \/ hist' = OutcomeOf(ops[h]) /\ UNCHANGED faults
       \/ Fault /\ UNCHANGED hist
    /\ ops' = [ops EXCEPT ![h] = Idle]
    /\ UNCHANGED <<ring, index, due, phase, room, hooks, answers, created>>

\* The pod of a handler dies.
Crash(h) ==
    /\ ops[h] # Idle
    /\ Fault
    /\ ops' = [ops EXCEPT ![h] = Idle]
    /\ UNCHANGED <<ring, index, due, hist, phase, room, hooks, answers, created>>
-----------------------------------------------------------------------------
DeadlinePasses ==
    /\ created /\ ~due
    /\ due' = TRUE
    /\ UNCHANGED <<ring, index, hist, ops, phase, room, hooks, answers, created, faults>>

\* The TTL of a record, two minutes at least, is longer than the deadline of
\* a ring and longer than any handler that has read the record runs.
Expire ==
    /\ ring # Gone
    /\ \A h \in Handlers : ops[h] = Idle
    /\ ring.state = "ringing" => due
    /\ ring' = Gone
    /\ UNCHANGED <<index, due, hist, ops, phase, room, hooks, answers, created, faults>>

(* The sweeper drops an index entry whose record has expired.              *)
SweepClean ==
    /\ index /\ due /\ ring = Gone
    /\ index' = FALSE
    /\ UNCHANGED <<ring, due, hist, ops, phase, room, hooks, answers, created, faults>>

\* A party connects its media; the media server reports it.
Join(p) ==
    /\ phase[p] = "in" /\ p \notin room
    /\ room' = room \cup {p}
    /\ hooks' = hooks \cup {"joined"}
    /\ UNCHANGED <<ring, index, due, hist, ops, phase, answers, created, faults>>

(* Rejoin gives a token to any participant of a ring that is not over, a   *)
(* callee that has not answered included.                                  *)
Rejoin(p) ==
    /\ ring # Gone /\ ring.state \notin Terminal
    /\ p \notin room
    /\ phase[p] = "in" \/ (p \in Callees /\ phase[p] = "ringing")
    /\ phase' = [phase EXCEPT ![p] = "in"]
    /\ room' = room \cup {p}
    /\ hooks' = hooks \cup {"joined"}
    /\ UNCHANGED <<ring, index, due, hist, ops, answers, created, faults>>

Left(p) ==
    /\ room' = room \ {p}
    /\ hooks' = IF room = {p} THEN hooks \cup {"finished"} ELSE hooks

\* A party hangs up: its client leaves the room and tells the server nothing.
HangUp(p) ==
    /\ phase[p] = "in" \/ (p = Caller /\ phase[p] = "ringing")
    /\ phase' = [phase EXCEPT ![p] = "over"]
    /\ Left(p)
    /\ UNCHANGED <<ring, index, due, hist, ops, answers, created, faults>>

\* A party whose client shows the end of the call disconnects its media.
Disconnect(p) ==
    /\ phase[p] = "over" /\ p \in room
    /\ Left(p)
    /\ UNCHANGED <<ring, index, due, hist, ops, phase, answers, created, faults>>

\* The network of a party drops.
Drop(p) ==
    /\ p \in room
    /\ Fault
    /\ Left(p)
    /\ UNCHANGED <<ring, index, due, hist, ops, phase, answers, created>>
-----------------------------------------------------------------------------
Answer(h, d) == Load(h, "answer", d)

Decline(h, d) == Load(h, "decline", d)

Sweep(h) == Load(h, "sweep", NoDevice)

HandleWebhook(h, event) == Load(h, event, NoDevice)

Next ==
    \/ Create \/ CreateErrs \/ DeadlinePasses \/ Expire \/ SweepClean
    \/ \E h \in Handlers : Write(h) \/ SaveErrs(h) \/ Record(h) \/ Crash(h)
    \/ \E h \in Handlers :
          \/ \E d \in Callees : Answer(h, d) \/ Decline(h, d)
          \/ Sweep(h) \/ \E e \in {"joined", "finished"} : HandleWebhook(h, e)
    \/ \E e \in {"answer", "decline"}, d \in Callees : Refuse(e, d)
    \/ \E p \in Parties : Join(p) \/ Rejoin(p) \/ HangUp(p) \/ Disconnect(p) \/ Drop(p)

Spec == Init /\ [][Next]_vars

\* Time passes, the sweeper ticks, and started handlers go on.
Fairness ==
    /\ WF_vars(DeadlinePasses) /\ WF_vars(SweepClean)
    /\ WF_vars(\E h \in Handlers : Sweep(h))
    /\ \A h \in Handlers : WF_vars(Write(h)) /\ WF_vars(Record(h))

FairSpec == Spec /\ Fairness
-----------------------------------------------------------------------------
Records == [state : RingStates, by : Callees \cup {NoDevice}]

(* Every variable has its type.                                            *)
TypeOK ==
    /\ ring \in Records \cup {Gone}
    /\ index \in BOOLEAN /\ due \in BOOLEAN /\ created \in BOOLEAN
    /\ hist \in Outcomes \cup {"none"}
    /\ ops \in [Handlers -> [step : {"idle", "save", "record"}, event : Events,
                             dev : Callees \cup {NoDevice}, rec : Records \cup {Gone}]]
    /\ phase \in [Parties -> {"idle", "ringing", "in", "over"}]
    /\ room \subseteq Parties /\ hooks \subseteq {"joined", "finished"}
    /\ answers \subseteq Callees
    /\ faults \in 0..MaxFaults

(* The sweeper's index and the record agree: a ringing ring is always      *)
(* found, and an entry without a ringing record is one that has expired.   *)
IndexExact ==
    /\ ring.state = "ringing" => index
    /\ index => ring.state \in {"ringing", "gone"}

(* A call in the history as completed is one that some device answered,    *)
(* whatever later writes have made of the record.                          *)
CompletedWasAnswered == hist = "completed" => answers # {}

(* The module's state invariant: the types, the index and the history.     *)
Inv == TypeOK /\ IndexExact /\ CompletedWasAnswered

\* A handler writes back a record that is not the one it has read.
StaleWrite ==
    \E h \in Handlers : ops[h].step = "save" /\ ops'[h].step # "save" /\ ops[h].rec # ring

(* "Transitions are one-way": the stored record only follows the arrows of *)
(* domain.Next or expires, and an answered ring keeps its answerer, except *)
(* where a handler writes over what another has written since its read.    *)
OneWay ==
    [][ring' # ring /\ created =>
         \/ ring.state = "ringing"
         \/ ring.state = "answered" /\ ring'.state = "ended"
         \/ ring' = Gone
         \/ StaleWrite]_vars

(* The server-authoritative timeout: no ring rings for ever, whatever the  *)
(* clients do and one step of a handler fails, and the sweeper's index     *)
(* does not leak.                                                          *)
RingEnds == created ~> (ring.state # "ringing" /\ ~index)

(* Without faults, a ring that is declined or missed gets its history row. *)
OutcomeKept ==
    (ring.state \in {"declined", "missed"}) ~> (hist # "none" \/ faults > 0)

-----------------------------------------------------------------------------
(* A handler that will write holds a record that accepts its event, and an *)
(* answer names the device that gave it.                                   *)
OpFits(h) ==
    ops[h].step = "save" =>
        /\ Accepts(ops[h].rec.state, ops[h].event)
        /\ ops[h].rec # Gone
        /\ ops[h].event = "answer" => ops[h].dev \in Callees

(* A record names a device only once an answer was written.                *)
NamesAnswerer(rec) == rec.by # NoDevice => answers # {}

(* The inductive invariant.                                                *)
RingInv ==
    /\ Inv
    /\ \A h \in Handlers : OpFits(h) /\ NamesAnswerer(ops[h].rec)
    /\ NamesAnswerer(ring)
=============================================================================
