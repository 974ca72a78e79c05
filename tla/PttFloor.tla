------------------------------ MODULE PttFloor ------------------------------
(***************************************************************************)
(* Push-to-talk floor control of one room (server/internal/ptt).           *)
(*                                                                         *)
(* The floor, its FIFO queue and the fence counter live in Valkey and are  *)
(* changed only by one Lua script, atomically (adapters/valkey.go).  The   *)
(* script answers with the effects its caller must apply: index the room   *)
(* for the sweep, mute an evicted speaker, unmute a new one and send the   *)
(* frames (service.go).  Those effects are separate calls to Valkey, the   *)
(* SFU and NATS, made one after the other by whichever pod ran the script, *)
(* so the effects of two handlers interleave.                              *)
(*                                                                         *)
(* domain/floor.go holds the same algorithm for the in-memory store; the   *)
(* Domain operators below translate it so that the two can be compared.    *)
(***************************************************************************)
EXTENDS Integers, Sequences

CONSTANTS
    Devices,   \* participants "userID:deviceID"
    NoDevice,  \* the empty string
    MaxQueue,  \* domain.MaxQueue
    Lease,     \* domain.FloorTTL, in clock ticks
    MaxFence,  \* bound: turns granted or waited for in one behaviour
    Slots,     \* handlers that run at the same time, on any pod
    MaxFaults  \* bound on failed calls, crashes and expiries of the floor key

ASSUME NoDeviceAssumption == NoDevice \notin Devices
ASSUME LeaseAssumption == Lease \in Nat \ {0}
ASSUME BoundsAssumption == MaxQueue \in Nat /\ MaxFence \in Nat /\ MaxFaults \in Nat

VARIABLES
    room,     \* the keys floor, queue and fence, and what is left of the lease
    indexed,  \* whether the room is in the set ptt:rooms
    mic,      \* the fence each device may publish under at the SFU, 0 when muted
    told,     \* the last frame sent to each device ("revoke": none, or the floor is lost)
    job,      \* the calls each running handler has still to make
    unmuted,  \* history: speakers evicted without being named to the caller
    crossed,  \* history: a handler started while another had calls to make
    faults

vars == <<room, indexed, mic, told, job, unmuted, crossed, faults>>

Someone == Devices \cup {NoDevice}

Free == [holder |-> NoDevice, fence |-> 0, lease |-> 0, queue |-> << >>, seq |-> 0]

-----------------------------------------------------------------------------
(* The Lua script.                                                         *)

Lapsed(r) == r.holder # NoDevice /\ r.lease = 0

Evicted(r) == [r EXCEPT !.holder = NoDevice, !.fence = 0, !.lease = 0]

Waits(q, d) == \E i \in 1..Len(q) : q[i] = d

Place(q, d) == CHOOSE i \in 1..Len(q) : q[i] = d

Without(q, d) == IF Waits(q, d) THEN SelectSeq(q, LAMBDA x : x # d) ELSE q

Reply(status, fence, pos, promoted, demoted) ==
    [status |-> status, fence |-> fence, pos |-> pos,
     promoted |-> promoted, demoted |-> demoted]

(* grantTo: INCR the fence, set the floor, drop the device from the queue. *)
GrantTo(r, d) ==
    [r EXCEPT !.holder = d, !.seq = r.seq + 1, !.fence = r.seq + 1,
              !.lease = Lease, !.queue = Without(r.queue, d)]

Popped(r) == [r EXCEPT !.queue = Tail(r.queue)]

(* Mutants of Enqueued: RPUSH without looking for the device first; LPUSH.  *)
PushesAgain(r, d) == [r EXCEPT !.queue = Append(r.queue, d)]

PushesFront(r, d) ==
    IF Waits(r.queue, d) THEN r ELSE [r EXCEPT !.queue = <<d>> \o r.queue]

Enqueued(r, d) ==
    IF Waits(r.queue, d) THEN r ELSE [r EXCEPT !.queue = Append(r.queue, d)]

Current(r) == IF Lapsed(r) THEN Evicted(r) ELSE r

Demoted(r) == IF Lapsed(r) THEN r.holder ELSE NoDevice

Outcome(r, reply) == [room |-> r, reply |-> reply]

LuaAcquire(r0, d) ==
    LET r    == Current(r0)
        dem  == Demoted(r0)
        won  == GrantTo(IF r.queue # << >> THEN Popped(r) ELSE r, d)
        head == Head(r.queue)
        up   == Enqueued(GrantTo(Popped(r), head), d)
        back == Enqueued(r, d)
    IN  IF r.holder = NoDevice
        THEN IF r.queue # << >> /\ head # d
             THEN Outcome(up, Reply("queued", up.fence, Place(up.queue, d), head, dem))
             ELSE Outcome(won, Reply("granted", won.fence, 0, NoDevice, dem))
        ELSE IF r.holder = d
        THEN Outcome([r EXCEPT !.lease = Lease], Reply("granted", r.fence, 0, NoDevice, NoDevice))
        ELSE IF ~Waits(r.queue, d) /\ Len(r.queue) >= MaxQueue
        THEN Outcome(r, Reply("full", 0, 0, NoDevice, dem))
        ELSE Outcome(back, Reply("queued", 0, Place(back.queue, d), NoDevice, dem))

LuaHeartbeat(r0, d) ==
    LET r == Current(r0)
    IN  IF r.holder = d
        THEN Outcome([r EXCEPT !.lease = Lease], Reply("ok", r.fence, 0, NoDevice, NoDevice))
        ELSE Outcome(r, Reply("lost", 0, 0, NoDevice, NoDevice))

(* Mutant of LuaRelease: the promoted waiter inherits the released fence.   *)
HandsOverFence(r0, d) ==
    LET r    == Current(r0)
        next == [Popped(r) EXCEPT !.holder = Head(r.queue), !.lease = Lease]
    IN  IF r.holder # d
        THEN Outcome(r, Reply("noop", 0, 0, NoDevice, NoDevice))
        ELSE IF r.queue = << >>
        THEN Outcome(Evicted(r), Reply("released", 0, 0, NoDevice, NoDevice))
        ELSE Outcome(next, Reply("released", next.fence, 0, Head(r.queue), NoDevice))

LuaRelease(r0, d) ==
    LET r    == Current(r0)
        next == GrantTo(Popped(Evicted(r)), Head(r.queue))
    IN  IF r.holder # d
        THEN Outcome(r, Reply("noop", 0, 0, NoDevice, NoDevice))
        ELSE IF r.queue = << >>
        THEN Outcome(Evicted(r), Reply("released", 0, 0, NoDevice, NoDevice))
        ELSE Outcome(next, Reply("released", next.fence, 0, Head(r.queue), NoDevice))

(* Mutant of LuaSweep: it evicts the lapsed holder and promotes nobody.     *)
SweepOnlyEvicts(r0) == Outcome(Current(r0), Reply("swept", 0, 0, NoDevice, Demoted(r0)))

LuaSweep(r0) ==
    LET r    == Current(r0)
        next == GrantTo(Popped(r), Head(r.queue))
    IN  IF r.holder = NoDevice /\ r.queue # << >>
        THEN Outcome(next, Reply("swept", next.fence, 0, Head(r.queue), Demoted(r0)))
        ELSE Outcome(r, Reply("swept", 0, 0, NoDevice, Demoted(r0)))

-----------------------------------------------------------------------------
(* The algorithm of domain/floor.go, on the same state.                    *)

DomainGrant(r, d) ==
    [r EXCEPT !.holder = d, !.seq = r.seq + 1, !.fence = r.seq + 1, !.lease = Lease]

DomainAcquire(r0, d) ==
    LET r    == Current(r0)
        dem  == Demoted(r0)
        up   == Enqueued(DomainGrant(Popped(r), Head(r.queue)), d)
        won  == DomainGrant(IF r.queue # << >> THEN Popped(r) ELSE r, d)
        back == Enqueued(r, d)
    IN  IF r.holder = NoDevice
        THEN IF r.queue # << >> /\ Head(r.queue) # d
             THEN Outcome(up, Reply("queued", up.fence, Place(up.queue, d), Head(r.queue), dem))
             ELSE Outcome(won, Reply("granted", won.fence, 0, NoDevice, dem))
        ELSE IF r.holder = d
        THEN Outcome([r EXCEPT !.lease = Lease], Reply("granted", r.fence, 0, NoDevice, NoDevice))
        ELSE IF Waits(r.queue, d)
        THEN Outcome(r, Reply("queued", 0, Place(r.queue, d), NoDevice, dem))
        ELSE IF Len(r.queue) >= MaxQueue
        THEN Outcome(r, Reply("full", 0, 0, NoDevice, dem))
        ELSE Outcome(back, Reply("queued", 0, Place(back.queue, d), NoDevice, dem))

DomainHeartbeat(r, d) ==
    IF r.holder = d /\ r.lease > 0
    THEN Outcome([r EXCEPT !.lease = Lease], Reply("ok", r.fence, 0, NoDevice, NoDevice))
    ELSE Outcome(r, Reply("lost", 0, 0, NoDevice, NoDevice))

DomainRelease(r, d) ==
    LET next == DomainGrant(Popped(Evicted(r)), Head(r.queue))
    IN  IF r.holder # d
        THEN Outcome(r, Reply("noop", 0, 0, NoDevice, NoDevice))
        ELSE IF r.queue = << >>
        THEN Outcome(Evicted(r), Reply("released", 0, 0, NoDevice, NoDevice))
        ELSE Outcome(next, Reply("released", next.fence, 0, Head(r.queue), NoDevice))

DomainSweep(r0) ==
    LET r    == Current(r0)
        next == DomainGrant(Popped(r), Head(r.queue))
    IN  IF r.holder = NoDevice /\ r.queue # << >>
        THEN Outcome(next, Reply("swept", next.fence, 0, Head(r.queue), Demoted(r0)))
        ELSE Outcome(r, Reply("swept", 0, 0, NoDevice, Demoted(r0)))

-----------------------------------------------------------------------------
(* The calls a handler makes after the script, in order.                   *)

Call(do, d, fence) == [do |-> do, dev |-> d, fence |-> fence]

ApplyGrant(d, fence) ==
    IF d = NoDevice THEN << >> ELSE <<Call("allow", d, fence), Call("grant", d, fence)>>

ApplyDemote(d) ==
    IF d = NoDevice THEN << >> ELSE <<Call("deny", d, 0), Call("revoke", d, 0)>>

(* ValkeyFloorStore.Acquire adds the room to the index, then Service.Acquire *)
(* mutes, promotes and answers.                                             *)
AfterAcquire(d, a) ==
    <<Call("sadd", NoDevice, 0)>> \o ApplyDemote(a.demoted)
    \o (IF a.promoted # NoDevice THEN ApplyGrant(a.promoted, a.fence) ELSE << >>)
    \o (CASE a.status = "granted" -> ApplyGrant(d, a.fence)
          [] a.status = "full"    -> <<Call("revoke", d, 0)>>
          [] OTHER                -> <<Call("queuepos", d, 0)>>)

AfterHeartbeat(d, a) ==
    IF a.status = "lost" THEN <<Call("deny", d, 0), Call("revoke", d, 0)>> ELSE << >>

(* Mutant of AfterRelease: the next speaker is not told.                    *)
ReleaseForgetsNext(d, a) == IF a.status = "released" THEN <<Call("deny", d, 0)>> ELSE << >>

AfterRelease(d, a) ==
    IF a.status = "released"
    THEN <<Call("deny", d, 0)>> \o ApplyGrant(a.promoted, a.fence)
    ELSE << >>

(* ValkeyFloorStore.Sweep checks an idle room before it leaves the index.   *)
AfterSweep(a) ==
    (IF a.promoted = NoDevice THEN <<Call("exists", NoDevice, 0)>> ELSE << >>)
    \o ApplyDemote(a.demoted) \o ApplyGrant(a.promoted, a.fence)

-----------------------------------------------------------------------------
Init ==
    /\ room = Free
    /\ indexed = FALSE
    /\ mic = [d \in Devices |-> 0]
    /\ told = [d \in Devices |-> "revoke"]
    /\ job = [s \in Slots |-> << >>]
    /\ unmuted = {}
    /\ crossed = FALSE
    /\ faults = 0

Idle(s) == job[s] = << >>

Alone(s) == \A t \in Slots \ {s} : Idle(t)

Fault == faults < MaxFaults /\ faults' = faults + 1

(* A speaker the script evicts and does not name in its answer.            *)
Unnamed(r0, a) == {d \in {r0.holder} : Lapsed(r0) /\ a.demoted # d}

Ran(s, out, calls) ==
    /\ room' = out.room
    /\ job' = [job EXCEPT ![s] = calls]
    /\ unmuted' = unmuted \cup Unnamed(room, out.reply)
    /\ crossed' = (crossed \/ ~Alone(s))
    /\ UNCHANGED <<indexed, mic, told, faults>>

Acquire(s, d) ==
    LET out == LuaAcquire(room, d)
    IN  /\ Idle(s)
        /\ out.room.seq + Len(out.room.queue) <= MaxFence
        /\ Ran(s, out, AfterAcquire(d, out.reply))

Heartbeat(s, d) ==
    LET out == LuaHeartbeat(room, d)
    IN  Idle(s) /\ Ran(s, out, AfterHeartbeat(d, out.reply))

Release(s, d) ==
    LET out == LuaRelease(room, d)
    IN  Idle(s) /\ Ran(s, out, AfterRelease(d, out.reply))

(* The ticker of one core-api pod: ActiveRooms lists the room.             *)
SweepAll(s) ==
    /\ Idle(s) /\ indexed
    /\ job' = [job EXCEPT ![s] = <<Call("sweep", NoDevice, 0)>>]
    /\ crossed' = (crossed \/ ~Alone(s))
    /\ UNCHANGED <<room, indexed, mic, told, unmuted, faults>>

Doing(s, do) == job[s] # << >> /\ Head(job[s]).do = do

Done(s) == job' = [job EXCEPT ![s] = Tail(job[s])]

(* The room listed by ActiveRooms is swept, whatever happened since.       *)
Sweep(s) ==
    LET out == LuaSweep(room)
    IN  Doing(s, "sweep") /\ Ran(s, out, AfterSweep(out.reply))

Index(s) ==
    /\ Doing(s, "sadd") /\ Done(s)
    /\ indexed' = TRUE
    /\ UNCHANGED <<room, mic, told, unmuted, crossed, faults>>

(* EXISTS floor: a failed call answers 0, as an absent key does.           *)
CheckFloor(s) ==
    /\ Doing(s, "exists")
    /\ \/ /\ \/ room.holder = NoDevice /\ UNCHANGED faults
             \/ Fault
          /\ job' = [job EXCEPT ![s] = <<Call("llen", NoDevice, 0)>> \o Tail(job[s])]
       \/ room.holder # NoDevice /\ Done(s) /\ UNCHANGED faults
    /\ UNCHANGED <<room, indexed, mic, told, unmuted, crossed>>

CheckQueue(s) ==
    /\ Doing(s, "llen")
    /\ \/ /\ \/ room.queue = << >> /\ UNCHANGED faults
             \/ Fault
          /\ job' = [job EXCEPT ![s] = <<Call("srem", NoDevice, 0)>> \o Tail(job[s])]
       \/ room.queue # << >> /\ Done(s) /\ UNCHANGED faults
    /\ UNCHANGED <<room, indexed, mic, told, unmuted, crossed>>

Unindex(s) ==
    /\ Doing(s, "srem") /\ Done(s)
    /\ indexed' = FALSE
    /\ UNCHANGED <<room, mic, told, unmuted, crossed, faults>>

AllowPublish(s) ==
    /\ Doing(s, "allow") /\ Done(s)
    /\ mic' = [mic EXCEPT ![Head(job[s]).dev] = Head(job[s]).fence]
    /\ UNCHANGED <<room, indexed, told, unmuted, crossed, faults>>

DenyPublish(s) ==
    /\ Doing(s, "deny") /\ Done(s)
    /\ mic' = [mic EXCEPT ![Head(job[s]).dev] = 0]
    /\ unmuted' = unmuted \ {Head(job[s]).dev}
    /\ UNCHANGED <<room, indexed, told, crossed, faults>>

Signals == {"grant", "queuepos", "revoke"}

Signal(s) ==
    /\ \E f \in Signals :
          Doing(s, f) /\ told' = [told EXCEPT ![Head(job[s]).dev] = f]
    /\ Done(s)
    /\ UNCHANGED <<room, indexed, mic, unmuted, crossed, faults>>

(* s.try logs a failed call and goes on; the SADD and SREM errors are      *)
(* ignored.                                                                *)
CallFails(s) ==
    /\ Fault
    /\ \E f \in Signals \cup {"sadd", "srem", "allow", "deny"} : Doing(s, f)
    /\ Done(s)
    /\ UNCHANGED <<room, indexed, mic, told, unmuted, crossed>>

(* The pod dies, or the script's answer is lost: its effects never happen. *)
Crash(s) ==
    /\ Fault /\ ~Idle(s)
    /\ job' = [job EXCEPT ![s] = << >>]
    /\ UNCHANGED <<room, indexed, mic, told, unmuted, crossed>>

(* The lease runs down by one tick of Valkey's clock.                      *)
ClockTick ==
    /\ room.lease > 0
    /\ room' = [room EXCEPT !.lease = @ - 1]
    /\ UNCHANGED <<indexed, mic, told, job, unmuted, crossed, faults>>

(* The floor key is set with PX ttl + 5000: it expires when nothing has    *)
(* touched it for five seconds after the lapse.                            *)
KeyExpires ==
    /\ Fault /\ Lapsed(room)
    /\ room' = Evicted(room)
    /\ unmuted' = unmuted \cup {room.holder}
    /\ UNCHANGED <<indexed, mic, told, job, crossed>>

Request(s) == \E d \in Devices : Acquire(s, d) \/ Heartbeat(s, d) \/ Release(s, d)

Effect(s) ==
    \/ Sweep(s) \/ Index(s) \/ CheckFloor(s) \/ CheckQueue(s) \/ Unindex(s)
    \/ AllowPublish(s) \/ DenyPublish(s) \/ Signal(s)

Next ==
    \/ \E s \in Slots : Request(s) \/ SweepAll(s) \/ Effect(s) \/ CallFails(s) \/ Crash(s)
    \/ ClockTick
    \/ KeyExpires

Spec == Init /\ [][Next]_vars

(* Time passes, a handler that runs makes its next call, and the ticker    *)
(* finds its turn however many requests arrive in between.                 *)
FairSpec ==
    /\ Spec
    /\ WF_vars(ClockTick)
    /\ \A s \in Slots : WF_vars(Effect(s)) /\ SF_vars(SweepAll(s))

-----------------------------------------------------------------------------
Quiet == \A s \in Slots : Idle(s)

KeyCalls == [do : {"sweep", "sadd", "exists", "llen", "srem"}, dev : {NoDevice}, fence : Nat]

DeviceCalls == [do : Signals \cup {"allow", "deny"}, dev : Devices, fence : Nat]

Calls == KeyCalls \cup DeviceCalls

RoomStates ==
    [holder : Someone, fence : Nat, lease : 0..Lease, queue : Seq(Devices), seq : Nat]

(* The keys of the room, the permissions and the pending calls are of the  *)
(* shapes the script and the handlers give them.                           *)
TypeOK ==
    /\ room \in RoomStates
    /\ indexed \in BOOLEAN
    /\ mic \in [Devices -> Nat]
    /\ told \in [Devices -> Signals]
    /\ job \in [Slots -> Seq(Calls)]
    /\ unmuted \subseteq Devices
    /\ crossed \in BOOLEAN
    /\ faults \in 0..MaxFaults

(* valkey.go: a device waits at most once and never while it speaks, so a  *)
(* speaker is never promoted over itself and a position is well defined.   *)
QueueSound ==
    /\ \A i, j \in 1..Len(room.queue) : room.queue[i] = room.queue[j] => i = j
    /\ ~Waits(room.queue, room.holder)

Extends(p, q) == Len(q) >= Len(p) /\ SubSeq(q, 1, Len(p)) = p

(* floor.go "FIFO": whoever waits leaves the queue only by getting the     *)
(* floor, and only from its head; nobody is moved behind a later arrival.  *)
NoOvertaking ==
    [][\/ Extends(room.queue, room'.queue)
       \/ /\ room.queue # << >>
          /\ room'.holder = Head(room.queue)
          /\ Extends(Tail(room.queue), room'.queue)]_vars

Claim(d, f) == [dev |-> d, fence |-> f]

(* Who speaks under which fence: at the SFU, in the room, and in the calls *)
(* that running handlers have still to make.                               *)
Claims ==
    {Claim(d, mic[d]) : d \in {e \in Devices : mic[e] # 0}}
    \cup {Claim(h, room.fence) : h \in {room.holder} \ {NoDevice}}
    \cup UNION {{Claim(job[s][i].dev, job[s][i].fence) :
                   i \in {k \in 1..Len(job[s]) : job[s][k].do = "allow"}} : s \in Slots}

(* floor.go "every grant carries a monotonic fence": however handlers      *)
(* overlap, fail or die, one fence never stands for two speakers, and none *)
(* is ahead of the counter.                                                *)
FenceNamesOne ==
    \A c \in Claims :
       /\ c.fence \in 1..room.seq
       /\ \A e \in Claims : c.fence = e.fence => c.dev = e.dev

(* No call has failed, and no handler ran into the calls of another.       *)
Undisturbed == faults = 0 /\ ~crossed

(* Nothing is disturbed, and no handler is running.                        *)
Clean == Undisturbed /\ Quiet

(* service.go "Any lapsed holder is muted", as far as the script keeps it: *)
(* between handlers, a microphone that is open and is not the holder's     *)
(* under its own fence belongs to a speaker evicted by a heartbeat or a    *)
(* release, whose answers do not name whom they evicted.                   *)
OnlyUnnamedSpeak ==
    Clean => \A d \in Devices :
                mic[d] # 0 => d \in unmuted \/ (d = room.holder /\ mic[d] = room.fence)

(* service.go Acquire and applyGrant: between handlers the frames agree    *)
(* with the floor: a device last told a position still waits, one that     *)
(* waits was not last told it has the floor, and the holder was told of    *)
(* its grant and may publish under its fence.                              *)
FramesAgree ==
    Clean =>
       /\ \A d \in Devices :
             /\ told[d] = "queuepos" => Waits(room.queue, d)
             /\ Waits(room.queue, d) => told[d] # "grant"
       /\ room.holder # NoDevice =>
             told[room.holder] = "grant" /\ mic[room.holder] = room.fence

(* ptt.go "ActiveRooms lists rooms with a held floor or waiters": between  *)
(* handlers a room that is held or waited for is in the sweep index.       *)
BusyIsIndexed == Clean /\ (room.holder # NoDevice \/ room.queue # << >>) => indexed

(* Between handlers, and as long as nothing fails and no handler starts    *)
(* while another has calls to make, microphones, frames and sweep index    *)
(* agree with the floor.                                                   *)
EffectsAgree == OnlyUnnamedSpeak /\ FramesAgree /\ BusyIsIndexed

(* floor.go "the Valkey Lua script reproduces it": from every state the    *)
(* script and the domain algorithm acquire and sweep alike, although only  *)
(* the script removes a granted device from the whole queue; and they      *)
(* heartbeat and release alike while the lease of the floor runs.  On a     *)
(* lapsed floor only the script evicts, so the two differ there.           *)
ScriptMatchesDomain ==
    /\ \A d \in Devices : LuaAcquire(room, d) = DomainAcquire(room, d)
    /\ LuaSweep(room) = DomainSweep(room)
    /\ ~Lapsed(room) => \A d \in Devices :
          /\ LuaHeartbeat(room, d) = DomainHeartbeat(room, d)
          /\ LuaRelease(room, d) = DomainRelease(room, d)

(* service.go "so a waiter still gets the floor when the holder vanishes   *)
(* and no one else acquires": a floor nobody holds is not left to waiters, *)
(* as long as nothing fails and handlers do not cross.                     *)
Abandoned == room.queue # << >> /\ (room.holder = NoDevice \/ Lapsed(room))
WaitersServed == Abandoned ~> (~Abandoned \/ ~Undisturbed)
=============================================================================
