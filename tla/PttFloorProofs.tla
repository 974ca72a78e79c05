--------------------------- MODULE PttFloorProofs ---------------------------
(***************************************************************************)
(* Proofs about PttFloor, for any devices, queue limit, lease, number of   *)
(* handlers and with faults: types, soundness of the queue, the agreement  *)
(* of the script with the domain algorithm, the order of the queue, one    *)
(* speaker to a fence, and the effects that follow the floor.              *)
(***************************************************************************)
EXTENDS PttFloor, TLAPS

Distinct(q) == \A i, j \in 1..Len(q) : q[i] = q[j] => i = j

SoundRoom(r) ==
    r \in RoomStates /\ Distinct(r.queue) /\ ~Waits(r.queue, r.holder)

ReplyOK(a) == a.fence \in Nat /\ a.promoted \in Someone /\ a.demoted \in Someone

(* What a run of the script may do to the queue: leave it or extend it at  *)
(* its end, or take off its head, which then holds the floor.              *)
InOrder(r, n) ==
    \/ Extends(r.queue, n.queue)
    \/ r.queue # << >> /\ n.holder = Head(r.queue) /\ Extends(Tail(r.queue), n.queue)

(* What it may do to the fence: a room keeps its speaker and fence, or has *)
(* none, or has a new speaker under a fence never used before.             *)
FenceStep(r, n) ==
    \/ n.seq = r.seq /\ (n.holder = NoDevice \/ (n.holder = r.holder /\ n.fence = r.fence))
    \/ n.seq = r.seq + 1 /\ n.fence = r.seq + 1

-----------------------------------------------------------------------------
(* popHead: the rest of a sound queue is sound and does not hold the head. *)
LEMMA TailSound ==
    ASSUME NEW q \in Seq(Devices), q # << >>, Distinct(q)
    PROVE  /\ Head(q) \in Devices
           /\ Tail(q) \in Seq(Devices)
           /\ Distinct(Tail(q))
           /\ ~Waits(Tail(q), Head(q))
<1>1. Head(q) = q[1] /\ q[1] \in Devices /\ 1 \in 1..Len(q)
  OBVIOUS
<1>2. Tail(q) \in Seq(Devices) /\ Len(Tail(q)) = Len(q) - 1
      /\ \A i \in 1..Len(q) - 1 : Tail(q)[i] = q[i + 1] /\ i + 1 \in 1..Len(q)
  OBVIOUS
<1>3. Distinct(Tail(q))
  BY <1>2 DEF Distinct
<1>4. ~Waits(Tail(q), Head(q))
  BY <1>1, <1>2 DEF Waits, Distinct
<1> QED BY <1>1, <1>2, <1>3, <1>4

(* enqueue: a device that does not wait goes to the end, once.             *)
LEMMA AppendSound ==
    ASSUME NEW q \in Seq(Devices), NEW d \in Devices, Distinct(q), ~Waits(q, d)
    PROVE  /\ Append(q, d) \in Seq(Devices)
           /\ Distinct(Append(q, d))
           /\ Extends(q, Append(q, d))
           /\ \A e : e # d /\ ~Waits(q, e) => ~Waits(Append(q, d), e)
<1>1. Append(q, d) \in Seq(Devices) /\ Len(Append(q, d)) = Len(q) + 1
      /\ \A i \in 1..Len(q) : Append(q, d)[i] = q[i]
      /\ Append(q, d)[Len(q) + 1] = d
  OBVIOUS
<1>2. Distinct(Append(q, d))
  BY <1>1 DEF Distinct, Waits
<1>3. Extends(q, Append(q, d))
  BY <1>1 DEF Extends
<1>4. \A e : e # d /\ ~Waits(q, e) => ~Waits(Append(q, d), e)
  BY <1>1 DEF Waits
<1> QED BY <1>1, <1>2, <1>3, <1>4

LEMMA ExtendsItself ==
    ASSUME NEW q \in Seq(Devices)
    PROVE  Extends(q, q)
  BY DEF Extends

LEMMA EnqueuedSound ==
    ASSUME NEW r, SoundRoom(r), NEW d \in Devices, r.holder # d
    PROVE  /\ SoundRoom(Enqueued(r, d))
           /\ Enqueued(r, d).holder = r.holder /\ Enqueued(r, d).fence = r.fence
           /\ Enqueued(r, d).seq = r.seq
           /\ Extends(r.queue, Enqueued(r, d).queue)
           /\ Waits(Enqueued(r, d).queue, d)
<1>1. r.queue \in Seq(Devices) /\ Distinct(r.queue)
  BY DEF SoundRoom, RoomStates
<1>2. CASE Waits(r.queue, d)
  BY <1>1, <1>2, ExtendsItself DEF Enqueued
<1>3. CASE ~Waits(r.queue, d)
  <2>1. Enqueued(r, d) = [r EXCEPT !.queue = Append(r.queue, d)]
    BY <1>3 DEF Enqueued
  <2>2. Enqueued(r, d) \in RoomStates
    BY <1>1, <1>3, <2>1, AppendSound DEF SoundRoom, RoomStates
  <2>3. Enqueued(r, d).queue = Append(r.queue, d) /\ Enqueued(r, d).holder = r.holder
        /\ Enqueued(r, d).fence = r.fence /\ Enqueued(r, d).seq = r.seq
    BY <2>1 DEF SoundRoom, RoomStates
  <2>4. Waits(Append(r.queue, d), d)
    <3>1. Append(r.queue, d)[Len(r.queue) + 1] = d
          /\ Len(r.queue) + 1 \in 1..Len(Append(r.queue, d))
      BY <1>1
    <3> QED BY <3>1 DEF Waits
  <2> QED BY <1>1, <1>3, <2>2, <2>3, <2>4, AppendSound DEF SoundRoom
<1> QED BY <1>2, <1>3

(* The common first step of the script: a lapsed holder is evicted.        *)
LEMMA CurrentSound ==
    ASSUME NEW r, SoundRoom(r)
    PROVE  /\ SoundRoom(Current(r)) /\ FenceStep(r, Current(r))
           /\ Current(r).queue = r.queue /\ Current(r).seq = r.seq
           /\ Demoted(r) \in Someone
           /\ SoundRoom(Evicted(r)) /\ Evicted(r).queue = r.queue
           /\ Evicted(r).seq = r.seq /\ Evicted(r).holder = NoDevice
<1>1. r \in RoomStates /\ r.queue \in Seq(Devices)
  BY DEF SoundRoom, RoomStates
<1>2. Evicted(r) \in RoomStates /\ Evicted(r).queue = r.queue
      /\ Evicted(r).seq = r.seq /\ Evicted(r).holder = NoDevice
  <2>1. 0 \in 0..Lease /\ 0 \in Nat /\ NoDevice \in Someone
    BY LeaseAssumption DEF Someone
  <2>2. Evicted(r) \in RoomStates
    BY <1>1, <2>1 DEF Evicted, RoomStates
  <2> QED BY <1>1, <2>2 DEF Evicted, RoomStates
<1>3. ~Waits(r.queue, NoDevice)
  BY <1>1, NoDeviceAssumption DEF Waits
<1>4. SoundRoom(Evicted(r))
  BY <1>2, <1>3 DEF SoundRoom
<1>5. Demoted(r) \in Someone
  BY <1>1 DEF Demoted, RoomStates, Someone
<1> QED BY <1>2, <1>4, <1>5 DEF Current, FenceStep

(* A device that does not wait takes the floor: LREM has nothing to do.    *)
LEMMA GrantSound ==
    ASSUME NEW r, SoundRoom(r), NEW d \in Devices, ~Waits(r.queue, d)
    PROVE  /\ SoundRoom(GrantTo(r, d)) /\ GrantTo(r, d) = DomainGrant(r, d)
           /\ GrantTo(r, d).queue = r.queue /\ GrantTo(r, d).holder = d
           /\ GrantTo(r, d).fence = r.seq + 1 /\ GrantTo(r, d).seq = r.seq + 1
<1>1. r \in RoomStates /\ r.queue \in Seq(Devices) /\ r.seq \in Nat
  BY DEF SoundRoom, RoomStates
<1>2. Without(r.queue, d) = r.queue
  BY DEF Without
<1>3. GrantTo(r, d) = DomainGrant(r, d)
  BY <1>1, <1>2 DEF GrantTo, DomainGrant, RoomStates
<1>4. /\ DomainGrant(r, d) \in RoomStates
      /\ DomainGrant(r, d).queue = r.queue /\ DomainGrant(r, d).holder = d
      /\ DomainGrant(r, d).fence = r.seq + 1 /\ DomainGrant(r, d).seq = r.seq + 1
  <2>1. Lease \in 0..Lease /\ r.seq + 1 \in Nat /\ d \in Someone
    BY <1>1, LeaseAssumption DEF Someone
  <2>2. DomainGrant(r, d) \in RoomStates
    BY <1>1, <2>1 DEF DomainGrant, RoomStates
  <2> QED BY <1>1, <2>2 DEF DomainGrant, RoomStates
<1> QED BY <1>3, <1>4 DEF SoundRoom

(* The head of the queue takes the floor.                                  *)
LEMMA PromoteSound ==
    ASSUME NEW r, SoundRoom(r), r.queue # << >>
    PROVE  LET n == GrantTo(Popped(r), Head(r.queue))
           IN  /\ SoundRoom(n) /\ n = DomainGrant(Popped(r), Head(r.queue))
               /\ n.holder = Head(r.queue) /\ Head(r.queue) \in Devices
               /\ n.queue = Tail(r.queue)
               /\ n.fence = r.seq + 1 /\ n.seq = r.seq + 1
<1>1. r.queue \in Seq(Devices) /\ Distinct(r.queue)
  BY DEF SoundRoom, RoomStates
<1>2. /\ Head(r.queue) \in Devices /\ Tail(r.queue) \in Seq(Devices)
      /\ Distinct(Tail(r.queue)) /\ ~Waits(Tail(r.queue), Head(r.queue))
  BY <1>1, TailSound
<1>3. ~Waits(Tail(r.queue), r.holder)
  <2>1. \A i \in 1..Len(Tail(r.queue)) :
           Tail(r.queue)[i] = r.queue[i + 1] /\ i + 1 \in 1..Len(r.queue)
    BY <1>1
  <2> QED BY <2>1 DEF Waits, SoundRoom
<1>4. /\ Popped(r) \in RoomStates /\ Popped(r).queue = Tail(r.queue)
      /\ Popped(r).holder = r.holder /\ Popped(r).seq = r.seq
  BY <1>2 DEF Popped, SoundRoom, RoomStates
<1>5. SoundRoom(Popped(r))
  BY <1>2, <1>3, <1>4 DEF SoundRoom
<1> QED BY <1>2, <1>4, <1>5, GrantSound

(* setFloor by the holder: only the lease changes.                         *)
LEMMA RenewSound ==
    ASSUME NEW r, SoundRoom(r)
    PROVE  LET n == [r EXCEPT !.lease = Lease]
           IN  /\ SoundRoom(n) /\ n.queue = r.queue /\ n.holder = r.holder
               /\ n.fence = r.fence /\ n.seq = r.seq
<1>1. Lease \in 0..Lease
  BY LeaseAssumption
<1>2. [r EXCEPT !.lease = Lease] \in RoomStates
  BY <1>1 DEF SoundRoom, RoomStates
<1>3. /\ [r EXCEPT !.lease = Lease].queue = r.queue
      /\ [r EXCEPT !.lease = Lease].holder = r.holder
      /\ [r EXCEPT !.lease = Lease].fence = r.fence
      /\ [r EXCEPT !.lease = Lease].seq = r.seq
  BY DEF SoundRoom, RoomStates
<1> QED BY <1>2, <1>3 DEF SoundRoom

Good(r, d, out) ==
    /\ SoundRoom(out.room) /\ ReplyOK(out.reply)
    /\ InOrder(r, out.room) /\ FenceStep(r, out.room)
    /\ out.reply.promoted # NoDevice =>
          out.reply.promoted = out.room.holder /\ out.reply.fence = out.room.fence
    /\ out.reply.status = "granted" =>
          d = out.room.holder /\ out.reply.fence = out.room.fence

LEMMA GoodOutcome ==
    ASSUME NEW r, NEW n, SoundRoom(n), InOrder(r, n), FenceStep(r, n),
           NEW st, NEW f \in Nat, NEW pos, NEW p \in Someone, NEW dem \in Someone, NEW d,
           p # NoDevice => p = n.holder /\ f = n.fence,
           st = "granted" => d = n.holder /\ f = n.fence
    PROVE  Good(r, d, Outcome(n, Reply(st, f, pos, p, dem)))
  BY DEF Good, Outcome, Reply, ReplyOK

LEMMA AcquireGood ==
    ASSUME NEW r0, SoundRoom(r0), NEW d \in Devices
    PROVE  Good(r0, d, LuaAcquire(r0, d)) /\ LuaAcquire(r0, d) = DomainAcquire(r0, d)
<1> DEFINE r    == Current(r0)
           dem  == Demoted(r0)
           head == Head(r.queue)
           top  == GrantTo(Popped(r), head)
           up   == Enqueued(top, d)
<1>1. /\ SoundRoom(r) /\ r.queue = r0.queue /\ dem \in Someone
      /\ FenceStep(r0, r) /\ r.seq = r0.seq /\ r0.seq \in Nat
      /\ r.queue \in Seq(Devices) /\ r.seq \in Nat /\ r.fence \in Nat /\ r.holder \in Someone
  BY CurrentSound DEF SoundRoom, RoomStates
<1>2. NoDevice \in Someone /\ 0 \in Nat /\ d # NoDevice
  BY NoDeviceAssumption DEF Someone
<1> HIDE DEF r, dem
<1>3. CASE r.holder = NoDevice /\ r.queue # << >> /\ head # d
  <2>1. /\ SoundRoom(top) /\ top = DomainGrant(Popped(r), head)
        /\ top.holder = head /\ head \in Devices /\ top.queue = Tail(r.queue)
        /\ top.fence = r.seq + 1 /\ top.seq = r.seq + 1
    BY <1>1, <1>3, PromoteSound
  <2>2. /\ SoundRoom(up) /\ up.holder = head /\ up.fence = r.seq + 1 /\ up.seq = r.seq + 1
        /\ Extends(Tail(r.queue), up.queue)
    <3> HIDE DEF top
    <3> QED BY <1>3, <2>1, EnqueuedSound
  <2>3. InOrder(r0, up) /\ FenceStep(r0, up) /\ up.fence \in Nat /\ head \in Someone
    BY <1>1, <1>3, <2>1, <2>2 DEF InOrder, FenceStep, Someone
  <2>4. /\ LuaAcquire(r0, d) =
             Outcome(up, Reply("queued", up.fence, Place(up.queue, d), head, dem))
        /\ DomainAcquire(r0, d) = LuaAcquire(r0, d)
    BY <1>3, <2>1 DEF LuaAcquire, DomainAcquire, r, dem
  <2> HIDE DEF up, head
  <2> QED BY <1>1, <2>2, <2>3, <2>4, GoodOutcome
<1>4. CASE r.holder = NoDevice /\ (r.queue = << >> \/ head = d)
  <2> DEFINE base == IF r.queue # << >> THEN Popped(r) ELSE r
             won  == GrantTo(base, d)
  <2>1. /\ SoundRoom(won) /\ won = DomainGrant(base, d) /\ won.fence = r.seq + 1
        /\ won.holder = d /\ won.seq = r.seq + 1 /\ InOrder(r0, won)
    <3>1. CASE r.queue = << >>
      <4>1. ~Waits(r.queue, d)
        BY <3>1 DEF Waits
      <4> QED BY <1>1, <3>1, <4>1, GrantSound, ExtendsItself DEF InOrder
    <3>2. CASE r.queue # << >>
      <4>1. head = d
        BY <1>4, <3>2
      <4>2. /\ SoundRoom(won) /\ won = DomainGrant(base, d) /\ won.fence = r.seq + 1
            /\ won.holder = d /\ won.seq = r.seq + 1 /\ won.queue = Tail(r.queue)
        BY <1>1, <3>2, <4>1, PromoteSound
      <4>3. Extends(Tail(r.queue), Tail(r.queue))
        BY <1>1, <3>2, ExtendsItself, TailSound DEF SoundRoom
      <4> HIDE DEF won
      <4> QED BY <1>1, <3>2, <4>1, <4>2, <4>3 DEF InOrder
    <3> QED BY <3>1, <3>2
  <2>2. /\ LuaAcquire(r0, d) = Outcome(won, Reply("granted", won.fence, 0, NoDevice, dem))
        /\ DomainAcquire(r0, d) = LuaAcquire(r0, d)
    BY <1>4, <2>1 DEF LuaAcquire, DomainAcquire, r, dem
  <2>3. won.fence \in Nat /\ FenceStep(r0, won)
    BY <1>1, <2>1 DEF FenceStep
  <2> HIDE DEF won
  <2> QED BY <1>1, <1>2, <2>1, <2>2, <2>3, GoodOutcome
<1>5. CASE r.holder = d
  <2> DEFINE n == [r EXCEPT !.lease = Lease]
  <2>1. SoundRoom(n) /\ InOrder(r0, n) /\ FenceStep(r0, n) /\ n.holder = d /\ n.fence = r.fence
    BY <1>1, <1>5, RenewSound, ExtendsItself DEF InOrder, FenceStep
  <2>2. /\ LuaAcquire(r0, d) = Outcome(n, Reply("granted", r.fence, 0, NoDevice, NoDevice))
        /\ DomainAcquire(r0, d) = LuaAcquire(r0, d)
    BY <1>2, <1>5 DEF LuaAcquire, DomainAcquire, r, dem
  <2> HIDE DEF n
  <2> QED BY <1>1, <1>2, <2>1, <2>2, GoodOutcome
<1>6. CASE r.holder # NoDevice /\ r.holder # d /\ ~Waits(r.queue, d) /\ Len(r.queue) >= MaxQueue
  <2>1. /\ LuaAcquire(r0, d) = Outcome(r, Reply("full", 0, 0, NoDevice, dem))
        /\ DomainAcquire(r0, d) = LuaAcquire(r0, d)
    BY <1>6 DEF LuaAcquire, DomainAcquire, r, dem
  <2>2. InOrder(r0, r)
    BY <1>1, ExtendsItself DEF InOrder
  <2> QED BY <1>1, <1>2, <2>1, <2>2, GoodOutcome
<1>7. CASE r.holder # NoDevice /\ r.holder # d /\ (Waits(r.queue, d) \/ ~(Len(r.queue) >= MaxQueue))
  <2> DEFINE back == Enqueued(r, d)
  <2>1. /\ SoundRoom(back) /\ Extends(r.queue, back.queue)
        /\ back.holder = r.holder /\ back.fence = r.fence /\ back.seq = r.seq
    BY <1>1, <1>7, EnqueuedSound
  <2>2. /\ LuaAcquire(r0, d) =
             Outcome(back, Reply("queued", 0, Place(back.queue, d), NoDevice, dem))
        /\ DomainAcquire(r0, d) = LuaAcquire(r0, d)
    BY <1>7 DEF LuaAcquire, DomainAcquire, Enqueued, r, dem
  <2>3. InOrder(r0, back) /\ FenceStep(r0, back)
    BY <1>1, <2>1 DEF InOrder, FenceStep
  <2> HIDE DEF back
  <2> QED BY <1>1, <1>2, <2>1, <2>2, <2>3, GoodOutcome
<1> QED BY <1>3, <1>4, <1>5, <1>6, <1>7

LEMMA HeartbeatGood ==
    ASSUME NEW r0, SoundRoom(r0), NEW d \in Devices
    PROVE  Good(r0, d, LuaHeartbeat(r0, d))
<1> DEFINE r == Current(r0)
           n == [r EXCEPT !.lease = Lease]
<1>1. /\ SoundRoom(r) /\ FenceStep(r0, r) /\ r.seq = r0.seq
      /\ r.queue = r0.queue /\ r.queue \in Seq(Devices) /\ r.fence \in Nat
  BY CurrentSound DEF SoundRoom, RoomStates
<1>2. NoDevice \in Someone /\ 0 \in Nat
  BY DEF Someone
<1>3. InOrder(r0, r)
  BY <1>1, ExtendsItself DEF InOrder
<1>4. SoundRoom(n) /\ InOrder(r0, n) /\ FenceStep(r0, n)
  <2> HIDE DEF r
  <2> QED BY <1>1, RenewSound, ExtendsItself DEF InOrder, FenceStep
<1>5. \/ LuaHeartbeat(r0, d) = Outcome(n, Reply("ok", r.fence, 0, NoDevice, NoDevice))
      \/ LuaHeartbeat(r0, d) = Outcome(r, Reply("lost", 0, 0, NoDevice, NoDevice))
  BY DEF LuaHeartbeat
<1> HIDE DEF r, n
<1> QED BY <1>1, <1>2, <1>3, <1>4, <1>5, GoodOutcome

LEMMA ReleaseGood ==
    ASSUME NEW r0, SoundRoom(r0), NEW d \in Devices
    PROVE  Good(r0, d, LuaRelease(r0, d))
<1> DEFINE r == Current(r0)
           e == Evicted(r)
           n == GrantTo(Popped(e), Head(r.queue))
<1>1. /\ SoundRoom(r) /\ FenceStep(r0, r) /\ r.seq = r0.seq
      /\ r.queue = r0.queue /\ r.queue \in Seq(Devices)
  BY CurrentSound DEF SoundRoom, RoomStates
<1>2. NoDevice \in Someone /\ 0 \in Nat
  BY DEF Someone
<1>3. /\ SoundRoom(e) /\ e.queue = r.queue /\ e.seq \in Nat
      /\ e.seq = r.seq /\ e.holder = NoDevice
  <2> HIDE DEF r
  <2> QED BY <1>1, CurrentSound DEF SoundRoom, RoomStates
<1> HIDE DEF r, e
<1>4. InOrder(r0, r) /\ InOrder(r0, e) /\ FenceStep(r0, e)
  BY <1>1, <1>3, ExtendsItself DEF InOrder, FenceStep
<1>5. CASE r.holder # d
  <2>1. LuaRelease(r0, d) = Outcome(r, Reply("noop", 0, 0, NoDevice, NoDevice))
    BY <1>5 DEF LuaRelease, r
  <2> QED BY <1>1, <1>2, <1>4, <2>1, GoodOutcome
<1>6. CASE r.holder = d /\ r.queue = << >>
  <2>1. LuaRelease(r0, d) = Outcome(e, Reply("released", 0, 0, NoDevice, NoDevice))
    BY <1>6 DEF LuaRelease, r, e
  <2> QED BY <1>2, <1>3, <1>4, <2>1, GoodOutcome
<1>7. CASE r.holder = d /\ r.queue # << >>
  <2>1. /\ SoundRoom(n) /\ n.holder = Head(r.queue) /\ Head(r.queue) \in Devices
        /\ n.queue = Tail(r.queue) /\ n.fence = e.seq + 1 /\ n.seq = e.seq + 1
    BY <1>3, <1>7, PromoteSound
  <2>2. Extends(Tail(r.queue), Tail(r.queue))
    BY <1>1, <1>7, ExtendsItself, TailSound DEF SoundRoom
  <2>3. LuaRelease(r0, d) =
          Outcome(n, Reply("released", n.fence, 0, Head(r.queue), NoDevice))
    BY <1>7 DEF LuaRelease, r, e
  <2> HIDE DEF n
  <2>4. InOrder(r0, n) /\ FenceStep(r0, n) /\ n.fence \in Nat /\ Head(r.queue) \in Someone
    BY <1>1, <1>3, <1>7, <2>1, <2>2 DEF InOrder, FenceStep, Someone
  <2> QED BY <1>2, <2>1, <2>3, <2>4, GoodOutcome
<1> QED BY <1>5, <1>6, <1>7

LEMMA SweepGood ==
    ASSUME NEW r0, SoundRoom(r0)
    PROVE  Good(r0, NoDevice, LuaSweep(r0)) /\ LuaSweep(r0) = DomainSweep(r0)
<1> DEFINE r   == Current(r0)
           dem == Demoted(r0)
           n   == GrantTo(Popped(r), Head(r.queue))
<1>1. /\ SoundRoom(r) /\ r.queue = r0.queue /\ r.queue \in Seq(Devices)
      /\ r.seq \in Nat /\ dem \in Someone /\ FenceStep(r0, r) /\ r.seq = r0.seq
  BY CurrentSound DEF SoundRoom, RoomStates
<1>2. NoDevice \in Someone /\ 0 \in Nat
  BY DEF Someone
<1> HIDE DEF r, dem
<1>3. CASE r.holder = NoDevice /\ r.queue # << >>
  <2>1. /\ SoundRoom(n) /\ n.holder = Head(r.queue) /\ Head(r.queue) \in Devices
        /\ n.queue = Tail(r.queue) /\ n.fence = r.seq + 1 /\ n.seq = r.seq + 1
        /\ n = DomainGrant(Popped(r), Head(r.queue))
    BY <1>1, <1>3, PromoteSound
  <2>2. Extends(Tail(r.queue), Tail(r.queue))
    BY <1>1, <1>3, ExtendsItself, TailSound DEF SoundRoom
  <2>3. /\ LuaSweep(r0) = Outcome(n, Reply("swept", n.fence, 0, Head(r.queue), dem))
        /\ DomainSweep(r0) = LuaSweep(r0)
    BY <1>3, <2>1 DEF LuaSweep, DomainSweep, r, dem
  <2> HIDE DEF n
  <2>4. InOrder(r0, n) /\ FenceStep(r0, n) /\ n.fence \in Nat /\ Head(r.queue) \in Someone
    BY <1>1, <1>3, <2>1, <2>2 DEF InOrder, FenceStep, Someone
  <2> QED BY <1>1, <2>1, <2>3, <2>4, GoodOutcome
<1>4. CASE ~(r.holder = NoDevice /\ r.queue # << >>)
  <2>1. /\ LuaSweep(r0) = Outcome(r, Reply("swept", 0, 0, NoDevice, dem))
        /\ DomainSweep(r0) = LuaSweep(r0)
    BY <1>4 DEF LuaSweep, DomainSweep, r, dem
  <2>2. InOrder(r0, r)
    BY <1>1, ExtendsItself DEF InOrder
  <2> QED BY <1>1, <1>2, <2>1, <2>2, GoodOutcome
<1> QED BY <1>3, <1>4

-----------------------------------------------------------------------------
(* Whatever step is taken, the room stays sound and the queue in order.    *)
LEMMA RoomStep ==
    ASSUME SoundRoom(room), [Next]_vars
    PROVE  SoundRoom(room') /\ (InOrder(room, room') \/ room' = room)
<1>1. ASSUME NEW s, NEW d, NEW out, NEW calls, Ran(s, out, calls), Good(room, d, out)
      PROVE  SoundRoom(room') /\ InOrder(room, room')
  BY <1>1 DEF Ran, Good
<1>2. ASSUME NEW s \in Slots, NEW d \in Devices, Acquire(s, d)
      PROVE  SoundRoom(room') /\ InOrder(room, room')
  BY <1>1, <1>2, AcquireGood DEF Acquire
<1>3. ASSUME NEW s \in Slots, NEW d \in Devices, Heartbeat(s, d)
      PROVE  SoundRoom(room') /\ InOrder(room, room')
  BY <1>1, <1>3, HeartbeatGood DEF Heartbeat
<1>4. ASSUME NEW s \in Slots, NEW d \in Devices, Release(s, d)
      PROVE  SoundRoom(room') /\ InOrder(room, room')
  BY <1>1, <1>4, ReleaseGood DEF Release
<1>5. ASSUME NEW s \in Slots, Sweep(s)
      PROVE  SoundRoom(room') /\ InOrder(room, room')
  BY <1>1, <1>5, SweepGood DEF Sweep
<1>6. ASSUME NEW s \in Slots,
             \/ SweepAll(s) \/ Index(s) \/ CheckFloor(s) \/ CheckQueue(s) \/ Unindex(s)
             \/ AllowPublish(s) \/ DenyPublish(s) \/ Signal(s) \/ CallFails(s) \/ Crash(s)
      PROVE  room' = room
  BY <1>6 DEF SweepAll, Index, CheckFloor, CheckQueue, Unindex, AllowPublish,
              DenyPublish, Signal, CallFails, Crash
<1>7. ASSUME ClockTick
      PROVE  SoundRoom(room') /\ InOrder(room, room')
  <2>1. room.lease - 1 \in 0..Lease
    BY <1>7, LeaseAssumption DEF ClockTick, SoundRoom, RoomStates
  <2>2. room' \in RoomStates
    BY <1>7, <2>1 DEF ClockTick, SoundRoom, RoomStates
  <2>3. room'.queue = room.queue /\ room'.holder = room.holder /\ room.queue \in Seq(Devices)
    BY <1>7 DEF ClockTick, SoundRoom, RoomStates
  <2> QED BY <2>2, <2>3, ExtendsItself DEF SoundRoom, InOrder
<1>8. ASSUME KeyExpires
      PROVE  SoundRoom(room') /\ InOrder(room, room')
  <2>1. room' = Evicted(room) /\ room.queue \in Seq(Devices)
    BY <1>8 DEF KeyExpires, SoundRoom, RoomStates
  <2>2. SoundRoom(Evicted(room)) /\ Evicted(room).queue = room.queue
    BY CurrentSound
  <2> QED BY <2>1, <2>2, ExtendsItself DEF InOrder
<1>9. ASSUME UNCHANGED vars
      PROVE  room' = room
  BY <1>9 DEF vars
<1> QED BY <1>2, <1>3, <1>4, <1>5, <1>6, <1>7, <1>8, <1>9 DEF Next, Request, Effect

LEMMA RoomInit == Init => SoundRoom(room)
<1> SUFFICES ASSUME Init PROVE SoundRoom(room)
  OBVIOUS
<1>1. room = Free /\ 0 \in 0..Lease
  BY LeaseAssumption DEF Init
<1>2. Free \in RoomStates /\ Free.queue = << >>
  BY <1>1 DEF Free, RoomStates, Someone
<1> QED BY <1>1, <1>2 DEF SoundRoom, Distinct, Waits

LEMMA RoomAlways == Spec => []SoundRoom(room)
<1>1. SoundRoom(room) /\ [Next]_vars => SoundRoom(room)'
  BY RoomStep
<1> QED BY <1>1, RoomInit, PTL DEF Spec

(* valkey.go: a device waits at most once and never while it speaks.       *)
THEOREM QueueStaysSound == Spec => []QueueSound
<1>1. SoundRoom(room) => QueueSound
  BY DEF SoundRoom, Distinct, QueueSound
<1> QED BY <1>1, RoomAlways, PTL

(* floor.go "the Valkey Lua script reproduces it": acquire and sweep do in *)
(* every reachable state what the domain algorithm does, and heartbeat and *)
(* release while the lease runs.                                           *)
THEOREM ScriptFollowsDomain == Spec => []ScriptMatchesDomain
<1>1. ASSUME SoundRoom(room), ~Lapsed(room), NEW d \in Devices
      PROVE  LuaHeartbeat(room, d) = DomainHeartbeat(room, d)
  <2>1. Current(room) = room /\ (room.holder = d => room.lease > 0)
    BY <1>1, NoDeviceAssumption, LeaseAssumption DEF Current, Lapsed, SoundRoom, RoomStates
  <2> QED BY <2>1 DEF LuaHeartbeat, DomainHeartbeat
<1>2. ASSUME SoundRoom(room), ~Lapsed(room), NEW d \in Devices
      PROVE  LuaRelease(room, d) = DomainRelease(room, d)
  <2> DEFINE e == Evicted(room)
  <2>1. Current(room) = room
    BY <1>2 DEF Current
  <2>2. SoundRoom(e) /\ e.queue = room.queue /\ e.holder = NoDevice
    BY <1>2, CurrentSound DEF SoundRoom, RoomStates
  <2>3. CASE room.queue # << >>
    <3>1. GrantTo(Popped(e), Head(e.queue)) = DomainGrant(Popped(e), Head(e.queue))
      <4> HIDE DEF e
      <4> QED BY <2>2, <2>3, PromoteSound
    <3> QED BY <2>1, <2>2, <3>1 DEF LuaRelease, DomainRelease
  <2>4. CASE room.queue = << >>
    BY <2>1, <2>4 DEF LuaRelease, DomainRelease
  <2> QED BY <2>3, <2>4
<1>3. SoundRoom(room) => ScriptMatchesDomain
  BY <1>1, <1>2, AcquireGood, SweepGood DEF ScriptMatchesDomain
<1> QED BY <1>3, RoomAlways, PTL

(* floor.go "FIFO": nobody who waits is overtaken or dropped.              *)
THEOREM NobodyOvertaken == Spec => NoOvertaking
<1> DEFINE A == \/ Extends(room.queue, room'.queue)
                \/ /\ room.queue # << >>
                   /\ room'.holder = Head(room.queue)
                   /\ Extends(Tail(room.queue), room'.queue)
<1>1. SoundRoom(room) /\ [Next]_vars => [A]_vars
  <2> SUFFICES ASSUME SoundRoom(room), [Next]_vars PROVE A
    OBVIOUS
  <2>1. CASE InOrder(room, room')
    BY <2>1 DEF InOrder
  <2>2. CASE room' = room
    BY <2>2, ExtendsItself DEF SoundRoom, RoomStates
  <2> QED BY <2>1, <2>2, RoomStep
<1> QED BY <1>1, RoomAlways, PTL DEF Spec, NoOvertaking

-----------------------------------------------------------------------------
(* The calls planned after a run of the script that left the room n: typed, *)
(* and unmuting nobody but the holder, under its fence.                    *)
Plan(q, n) ==
    /\ q \in Seq(Calls)
    /\ \A i \in 1..Len(q) : q[i].do = "allow" =>
          q[i].dev = n.holder /\ q[i].fence = n.fence /\ n.holder # NoDevice

LEMMA PlanParts ==
    ASSUME NEW n
    PROVE  /\ Plan(<< >>, n)
           /\ \A c \in Calls : c.do # "allow" => Plan(<<c>>, n)
           /\ \A c, e \in Calls : c.do # "allow" /\ e.do # "allow" => Plan(<<c, e>>, n)
           /\ \A c, e \in Calls :
                 c.dev = n.holder /\ c.fence = n.fence /\ n.holder # NoDevice /\ e.do # "allow"
                    => Plan(<<c, e>>, n)
  BY DEF Plan

LEMMA PlanJoin ==
    ASSUME NEW n, NEW p, NEW q, Plan(p, n), Plan(q, n)
    PROVE  Plan(p \o q, n)
<1>1. p \in Seq(Calls) /\ q \in Seq(Calls)
  BY DEF Plan
<1>2. /\ p \o q \in Seq(Calls) /\ Len(p \o q) = Len(p) + Len(q)
      /\ \A i \in 1..Len(p) : (p \o q)[i] = p[i]
      /\ \A i \in Len(p) + 1..Len(p) + Len(q) :
            (p \o q)[i] = q[i - Len(p)] /\ i - Len(p) \in 1..Len(q)
  BY <1>1
<1>3. ASSUME NEW i \in 1..Len(p \o q), (p \o q)[i].do = "allow"
      PROVE  /\ (p \o q)[i].dev = n.holder /\ (p \o q)[i].fence = n.fence
             /\ n.holder # NoDevice
  <2>1. CASE i \in 1..Len(p)
    BY <1>2, <1>3, <2>1 DEF Plan
  <2>2. CASE i \in Len(p) + 1..Len(p) + Len(q)
    BY <1>2, <1>3, <2>2 DEF Plan
  <2> QED BY <1>1, <1>2, <2>1, <2>2
<1> QED BY <1>2, <1>3 DEF Plan

LEMMA PlanApply ==
    ASSUME NEW n
    PROVE  /\ \A d \in Someone : Plan(ApplyDemote(d), n)
           /\ \A d \in Someone, f \in Nat :
                 (d # NoDevice => d = n.holder /\ f = n.fence) => Plan(ApplyGrant(d, f), n)
<1>1. \A d \in Devices, f \in Nat :
         /\ Call("allow", d, f) \in Calls /\ Call("grant", d, f) \in Calls
         /\ Call("deny", d, f) \in Calls /\ Call("revoke", d, f) \in Calls
  BY DEF Call, Calls, DeviceCalls, Signals
<1>2. \A x, d, f : Call(x, d, f).do = x /\ Call(x, d, f).dev = d /\ Call(x, d, f).fence = f
  BY DEF Call
<1>3. \A d \in Someone : d # NoDevice => d \in Devices
  BY DEF Someone
<1>4. ASSUME NEW d \in Someone PROVE Plan(ApplyDemote(d), n)
  <2>1. CASE d = NoDevice
    BY <2>1, PlanParts DEF ApplyDemote
  <2>2. CASE d # NoDevice
    <3>1. Call("deny", d, 0) \in Calls /\ Call("revoke", d, 0) \in Calls
      BY <1>1, <1>3, <2>2
    <3> QED BY <1>2, <2>2, <3>1, PlanParts DEF ApplyDemote
  <2> QED BY <2>1, <2>2
<1>5. ASSUME NEW d \in Someone, NEW f \in Nat, d # NoDevice => d = n.holder /\ f = n.fence
      PROVE  Plan(ApplyGrant(d, f), n)
  <2>1. CASE d = NoDevice
    BY <2>1, PlanParts DEF ApplyGrant
  <2>2. CASE d # NoDevice
    <3>1. Call("allow", d, f) \in Calls /\ Call("grant", d, f) \in Calls
      BY <1>1, <1>3, <2>2
    <3> QED BY <1>2, <1>5, <2>2, <3>1, PlanParts DEF ApplyGrant
  <2> QED BY <2>1, <2>2
<1> QED BY <1>4, <1>5

LEMMA SingleCalls ==
    /\ \A d \in Devices : /\ Call("revoke", d, 0) \in Calls /\ Call("deny", d, 0) \in Calls
                          /\ Call("queuepos", d, 0) \in Calls
    /\ Call("sadd", NoDevice, 0) \in Calls /\ Call("exists", NoDevice, 0) \in Calls
    /\ Call("llen", NoDevice, 0) \in Calls /\ Call("srem", NoDevice, 0) \in Calls
    /\ Call("sweep", NoDevice, 0) \in Calls
    /\ \A x, d, f : Call(x, d, f).do = x /\ Call(x, d, f).dev = d /\ Call(x, d, f).fence = f
  BY DEF Call, Calls, DeviceCalls, KeyCalls, Signals

(* Service.Acquire, Heartbeat, Release and SweepAll plan only such calls.  *)
LEMMA PlansGood ==
    ASSUME NEW r, NEW out
    PROVE  /\ \A d \in Devices : Good(r, d, out) =>
                 /\ Plan(AfterAcquire(d, out.reply), out.room)
                 /\ Plan(AfterHeartbeat(d, out.reply), out.room)
                 /\ Plan(AfterRelease(d, out.reply), out.room)
           /\ Good(r, NoDevice, out) => Plan(AfterSweep(out.reply), out.room)
<1> DEFINE n == out.room
           a == out.reply
<1>1. ASSUME NEW d, Good(r, d, out)
      PROVE  /\ Plan(ApplyDemote(a.demoted), n) /\ Plan(ApplyGrant(a.promoted, a.fence), n)
             /\ a.promoted \in Someone /\ a.fence \in Nat
  BY <1>1, PlanApply DEF Good, ReplyOK
<1>2. ASSUME NEW d \in Devices, Good(r, d, out)
      PROVE  Plan(AfterAcquire(d, a), n)
  <2> DEFINE ans == CASE a.status = "granted" -> ApplyGrant(d, a.fence)
                      [] a.status = "full"    -> <<Call("revoke", d, 0)>>
                      [] OTHER                -> <<Call("queuepos", d, 0)>>
             up  == IF a.promoted # NoDevice THEN ApplyGrant(a.promoted, a.fence) ELSE << >>
  <2>1. Plan(ans, n)
    <3>1. CASE a.status = "granted"
      <4>1. d = n.holder /\ a.fence = n.fence /\ d \in Someone /\ a.fence \in Nat
        BY <1>1, <1>2, <3>1 DEF Good, Someone
      <4> QED BY <3>1, <4>1, PlanApply
    <3>2. CASE a.status = "full"
      BY <3>2, SingleCalls, PlanParts
    <3>3. CASE a.status # "granted" /\ a.status # "full"
      <4>1. ans = <<Call("queuepos", d, 0)>>
        BY <3>3
      <4>2. Plan(<<Call("queuepos", d, 0)>>, n)
        BY SingleCalls, PlanParts
      <4> HIDE DEF ans
      <4> QED BY <4>1, <4>2
    <3> QED BY <3>1, <3>2, <3>3
  <2>2. Plan(up, n)
    BY <1>1, <1>2, PlanParts
  <2>3. Plan(<<Call("sadd", NoDevice, 0)>>, n)
    BY SingleCalls, PlanParts
  <2>4. AfterAcquire(d, a) =
          <<Call("sadd", NoDevice, 0)>> \o ApplyDemote(a.demoted) \o up \o ans
    BY DEF AfterAcquire
  <2> HIDE DEF ans, up
  <2> QED BY <1>1, <1>2, <2>1, <2>2, <2>3, <2>4, PlanJoin
<1>3. ASSUME NEW d \in Devices, Good(r, d, out)
      PROVE  Plan(AfterHeartbeat(d, a), n)
  BY SingleCalls, PlanParts DEF AfterHeartbeat
<1>4. ASSUME NEW d \in Devices, Good(r, d, out)
      PROVE  Plan(AfterRelease(d, a), n)
  <2>1. Plan(<<Call("deny", d, 0)>>, n)
    BY SingleCalls, PlanParts
  <2> QED BY <1>1, <1>4, <2>1, PlanParts, PlanJoin DEF AfterRelease
<1>5. ASSUME Good(r, NoDevice, out)
      PROVE  Plan(AfterSweep(a), n)
  <2>1. Plan(<<Call("exists", NoDevice, 0)>>, n) /\ Plan(<< >>, n)
    BY SingleCalls, PlanParts
  <2>2. Plan(IF a.promoted = NoDevice THEN <<Call("exists", NoDevice, 0)>> ELSE << >>, n)
    BY <2>1
  <2> QED BY <1>1, <1>5, <2>2, PlanJoin DEF AfterSweep
<1> QED BY <1>2, <1>3, <1>4, <1>5

-----------------------------------------------------------------------------
IInv == TypeOK /\ SoundRoom(room) /\ FenceNamesOne

(* A step that adds no claim and keeps the counter, or only claims for one *)
(* device under the next fence, keeps fences apart.                        *)
LEMMA ClaimsKeep ==
    ASSUME FenceNamesOne, room.seq \in Nat,
           \/ room'.seq = room.seq /\ Claims' \subseteq Claims
           \/ /\ room'.seq = room.seq + 1
              /\ \E h : Claims' \subseteq Claims \cup {Claim(h, room.seq + 1)}
    PROVE  FenceNamesOne'
<1>1. CASE room'.seq = room.seq /\ Claims' \subseteq Claims
  BY <1>1 DEF FenceNamesOne
<1>2. CASE /\ room'.seq = room.seq + 1
           /\ \E h : Claims' \subseteq Claims \cup {Claim(h, room.seq + 1)}
  <2>1. PICK h : Claims' \subseteq Claims \cup {Claim(h, room.seq + 1)}
    BY <1>2
  <2>2. Claim(h, room.seq + 1).fence = room.seq + 1 /\ Claim(h, room.seq + 1).dev = h
    BY DEF Claim
  <2>3. \A c \in Claims : c.fence \in 1..room.seq
    BY DEF FenceNamesOne
  <2> QED BY <1>2, <2>1, <2>2, <2>3 DEF FenceNamesOne
<1> QED BY <1>1, <1>2

(* Every claim is one of three kinds.                                      *)
LEMMA ClaimKinds ==
    ASSUME NEW c
    PROVE  c \in Claims <=>
             \/ \E d \in Devices : mic[d] # 0 /\ c = Claim(d, mic[d])
             \/ room.holder # NoDevice /\ c = Claim(room.holder, room.fence)
             \/ \E s \in Slots : \E i \in 1..Len(job[s]) :
                   job[s][i].do = "allow" /\ c = Claim(job[s][i].dev, job[s][i].fence)
  BY DEF Claims

LEMMA ClaimKindsNext ==
    ASSUME NEW c
    PROVE  c \in Claims' <=>
             \/ \E d \in Devices : mic'[d] # 0 /\ c = Claim(d, mic'[d])
             \/ room'.holder # NoDevice /\ c = Claim(room'.holder, room'.fence)
             \/ \E s \in Slots : \E i \in 1..Len(job'[s]) :
                   job'[s][i].do = "allow" /\ c = Claim(job'[s][i].dev, job'[s][i].fence)
  BY DEF Claims

(* One run of the script, with the calls it leaves to make.                *)
LEMMA RanStep ==
    ASSUME IInv, NEW s \in Slots, NEW d, NEW out, NEW calls,
           Ran(s, out, calls), Good(room, d, out), Plan(calls, out.room)
    PROVE  TypeOK' /\ FenceNamesOne'
<1>1. /\ room' = out.room /\ job' = [job EXCEPT ![s] = calls]
      /\ indexed' = indexed /\ mic' = mic /\ told' = told
      /\ unmuted' = unmuted \cup Unnamed(room, out.reply) /\ faults' = faults
      /\ crossed' \in BOOLEAN
  BY DEF Ran, IInv, TypeOK
<1>2. TypeOK'
  <2>1. room' \in RoomStates
    BY <1>1 DEF Good, SoundRoom
  <2>2. job' \in [Slots -> Seq(Calls)]
    BY <1>1 DEF IInv, TypeOK, Plan
  <2>3. Unnamed(room, out.reply) \subseteq Devices
    BY DEF Unnamed, Lapsed, IInv, TypeOK, RoomStates, Someone
  <2> QED BY <1>1, <2>1, <2>2, <2>3 DEF IInv, TypeOK
<1>3. FenceStep(room, room') /\ room.seq \in Nat /\ room'.seq \in Nat
  BY <1>1 DEF Good, IInv, TypeOK, RoomStates, SoundRoom
<1>4. ASSUME NEW c \in Claims'
      PROVE  c \in Claims \/ (room'.holder # NoDevice /\ c = Claim(room'.holder, room'.fence))
  <2>1. CASE \E e \in Devices : mic'[e] # 0 /\ c = Claim(e, mic'[e])
    BY <1>1, <2>1, ClaimKinds
  <2>2. CASE \E k \in Slots : \E i \in 1..Len(job'[k]) :
               job'[k][i].do = "allow" /\ c = Claim(job'[k][i].dev, job'[k][i].fence)
    <3>0. PICK k \in Slots : \E i \in 1..Len(job'[k]) :
               job'[k][i].do = "allow" /\ c = Claim(job'[k][i].dev, job'[k][i].fence)
      BY <2>2
    <3>1. PICK i \in 1..Len(job'[k]) :
               job'[k][i].do = "allow" /\ c = Claim(job'[k][i].dev, job'[k][i].fence)
      BY <3>0
    <3>2. CASE k = s
      <4>1. job'[k] = calls
        BY <1>1, <3>2 DEF IInv, TypeOK
      <4> QED BY <1>1, <3>1, <4>1 DEF Plan
    <3>3. CASE k # s
      <4>1. job'[k] = job[k]
        BY <1>1, <3>3 DEF IInv, TypeOK
      <4> QED BY <3>1, <4>1, ClaimKinds
    <3> QED BY <3>2, <3>3
  <2> QED BY <1>4, <2>1, <2>2, ClaimKindsNext
<1>5. CASE room'.seq = room.seq + 1 /\ room'.fence = room.seq + 1
  <2>1. Claims' \subseteq Claims \cup {Claim(room'.holder, room.seq + 1)}
    BY <1>4, <1>5
  <2>2. \E h : Claims' \subseteq Claims \cup {Claim(h, room.seq + 1)}
    BY <2>1
  <2> QED BY <1>2, <1>3, <1>5, <2>2, ClaimsKeep DEF IInv
<1>6. CASE /\ room'.seq = room.seq
           /\ room'.holder = NoDevice
              \/ (room'.holder = room.holder /\ room'.fence = room.fence)
  <2>1. Claims' \subseteq Claims
    BY <1>4, <1>6, ClaimKinds
  <2> QED BY <1>2, <1>3, <1>6, <2>1, ClaimsKeep DEF IInv
<1> QED BY <1>3, <1>5, <1>6 DEF FenceStep

(* A handler drops or makes its next call without touching the room.       *)
LEMMA CallStep ==
    ASSUME IInv, NEW s \in Slots, room' = room,
           NEW q \in Seq(Calls), job' = [job EXCEPT ![s] = q],
           \A i \in 1..Len(q) : q[i].do = "allow" =>
              \E j \in 1..Len(job[s]) : job[s][j] = q[i],
           \A d \in Devices : mic'[d] # 0 =>
              \/ mic'[d] = mic[d]
              \/ \E j \in 1..Len(job[s]) :
                    /\ job[s][j].do = "allow"
                    /\ job[s][j].dev = d /\ job[s][j].fence = mic'[d]
    PROVE  job' \in [Slots -> Seq(Calls)] /\ FenceNamesOne'
<1>1. job' \in [Slots -> Seq(Calls)] /\ job'[s] = q
      /\ \A k \in Slots \ {s} : job'[k] = job[k]
  BY DEF IInv, TypeOK
<1>2. ASSUME NEW c \in Claims' PROVE c \in Claims
  <2>1. CASE \E e \in Devices : mic'[e] # 0 /\ c = Claim(e, mic'[e])
    <3>1. PICK e \in Devices : mic'[e] # 0 /\ c = Claim(e, mic'[e])
      BY <2>1
    <3>2. CASE mic'[e] = mic[e]
      BY <3>1, <3>2, ClaimKinds
    <3>3. CASE mic'[e] # mic[e]
      <4>1. PICK j \in 1..Len(job[s]) : /\ job[s][j].do = "allow"
                                        /\ job[s][j].dev = e /\ job[s][j].fence = mic'[e]
        BY <3>1, <3>3
      <4> QED BY <3>1, <4>1, ClaimKinds
    <3> QED BY <3>2, <3>3
  <2>2. CASE \E k \in Slots : \E i \in 1..Len(job'[k]) :
               job'[k][i].do = "allow" /\ c = Claim(job'[k][i].dev, job'[k][i].fence)
    <3>0. PICK k \in Slots : \E i \in 1..Len(job'[k]) :
               job'[k][i].do = "allow" /\ c = Claim(job'[k][i].dev, job'[k][i].fence)
      BY <2>2
    <3>1. PICK i \in 1..Len(job'[k]) :
               job'[k][i].do = "allow" /\ c = Claim(job'[k][i].dev, job'[k][i].fence)
      BY <3>0
    <3>2. CASE k = s
      <4>1. PICK j \in 1..Len(job[s]) : job[s][j] = q[i]
        BY <1>1, <3>1, <3>2
      <4> QED BY <1>1, <3>1, <3>2, <4>1, ClaimKinds
    <3>3. CASE k # s
      BY <1>1, <3>1, <3>3, ClaimKinds
    <3> QED BY <3>2, <3>3
  <2>3. CASE room'.holder # NoDevice /\ c = Claim(room'.holder, room'.fence)
    BY <2>3, ClaimKinds
  <2> QED BY <1>2, <2>1, <2>2, <2>3, ClaimKindsNext
<1>3. Claims' \subseteq Claims /\ room'.seq = room.seq /\ room.seq \in Nat
  BY <1>2 DEF IInv, TypeOK, RoomStates
<1> QED BY <1>1, <1>3, ClaimsKeep DEF IInv

LEMMA RestOfJob ==
    ASSUME NEW p \in Seq(Calls), p # << >>
    PROVE  /\ Head(p) \in Calls /\ Head(p) = p[1] /\ 1 \in 1..Len(p)
           /\ Tail(p) \in Seq(Calls)
           /\ \A i \in 1..Len(Tail(p)) : \E j \in 1..Len(p) : p[j] = Tail(p)[i]
           /\ \A c \in Calls : /\ <<c>> \o Tail(p) \in Seq(Calls)
                               /\ \A i \in 1..Len(<<c>> \o Tail(p)) :
                                     \/ (<<c>> \o Tail(p))[i] = c
                                     \/ \E j \in 1..Len(p) : p[j] = (<<c>> \o Tail(p))[i]
<1>1. Head(p) \in Calls /\ Head(p) = p[1] /\ 1 \in 1..Len(p)
  OBVIOUS
<1>2. Tail(p) \in Seq(Calls) /\ Len(Tail(p)) = Len(p) - 1
      /\ \A i \in 1..Len(p) - 1 : Tail(p)[i] = p[i + 1] /\ i + 1 \in 1..Len(p)
  OBVIOUS
<1>3. ASSUME NEW c \in Calls
      PROVE  /\ <<c>> \o Tail(p) \in Seq(Calls)
             /\ \A i \in 1..Len(<<c>> \o Tail(p)) :
                   \/ (<<c>> \o Tail(p))[i] = c
                   \/ \E j \in 1..Len(p) : p[j] = (<<c>> \o Tail(p))[i]
  <2>1. /\ <<c>> \o Tail(p) \in Seq(Calls) /\ Len(<<c>> \o Tail(p)) = Len(p)
        /\ (<<c>> \o Tail(p))[1] = c
        /\ \A i \in 2..Len(p) : (<<c>> \o Tail(p))[i] = Tail(p)[i - 1] /\ i - 1 \in 1..Len(p) - 1
    BY <1>2
  <2>2. \A i \in 2..Len(p) : (<<c>> \o Tail(p))[i] = p[i]
    BY <1>2, <2>1
  <2> QED BY <1>1, <2>1, <2>2
<1>4. \A i \in 1..Len(Tail(p)) : \E j \in 1..Len(p) : p[j] = Tail(p)[i]
  BY <1>2
<1> QED BY <1>1, <1>2, <1>3, <1>4

(* The faults are counted up to their bound.                               *)
LEMMA FaultsBounded ==
    ASSUME faults \in 0..MaxFaults, [Next]_vars
    PROVE  faults' \in 0..MaxFaults
<1>1. ASSUME Fault PROVE faults' \in 0..MaxFaults
  BY <1>1, BoundsAssumption DEF Fault
<1>2. ASSUME NEW s \in Slots, Request(s) \/ SweepAll(s) \/ Sweep(s)
      PROVE  faults' = faults
  BY <1>2 DEF Request, Acquire, Heartbeat, Release, SweepAll, Sweep, Ran
<1>3. ASSUME NEW s \in Slots,
             Index(s) \/ Unindex(s) \/ AllowPublish(s) \/ DenyPublish(s) \/ Signal(s)
      PROVE  faults' = faults
  BY <1>3 DEF Index, Unindex, AllowPublish, DenyPublish, Signal
<1>4. ASSUME NEW s \in Slots, CheckFloor(s) \/ CheckQueue(s) \/ CallFails(s) \/ Crash(s)
      PROVE  faults' = faults \/ Fault
  BY <1>4 DEF CheckFloor, CheckQueue, CallFails, Crash
<1>5. ASSUME ClockTick \/ KeyExpires \/ UNCHANGED vars
      PROVE  faults' = faults \/ Fault
  BY <1>5 DEF ClockTick, KeyExpires, vars
<1> QED BY <1>1, <1>2, <1>3, <1>4, <1>5 DEF Next, Effect

LEMMA CrossedTyped ==
    ASSUME crossed \in BOOLEAN, [Next]_vars
    PROVE  crossed' \in BOOLEAN
<1>1. ASSUME NEW s \in Slots, Request(s) \/ SweepAll(s) \/ Sweep(s)
      PROVE  crossed' = (crossed \/ ~Alone(s))
  BY <1>1 DEF Request, Acquire, Heartbeat, Release, SweepAll, Sweep, Ran
<1>2. ASSUME NEW s \in Slots,
             \/ Index(s) \/ CheckFloor(s) \/ CheckQueue(s) \/ Unindex(s)
             \/ AllowPublish(s) \/ DenyPublish(s) \/ Signal(s) \/ CallFails(s) \/ Crash(s)
      PROVE  crossed' = crossed
  BY <1>2 DEF Index, CheckFloor, CheckQueue, Unindex, AllowPublish, DenyPublish,
              Signal, CallFails, Crash
<1>3. ASSUME ClockTick \/ KeyExpires \/ UNCHANGED vars
      PROVE  crossed' = crossed
  BY <1>3 DEF ClockTick, KeyExpires, vars
<1> QED BY <1>1, <1>2, <1>3 DEF Next, Effect

LEMMA NextKeepsIInv == IInv /\ [Next]_vars => IInv'
<1> SUFFICES ASSUME IInv, [Next]_vars PROVE IInv'
  OBVIOUS
<1>0. SoundRoom(room') /\ SoundRoom(room)
  BY RoomStep DEF IInv
<1>12. faults' \in 0..MaxFaults /\ crossed' \in BOOLEAN
  BY FaultsBounded, CrossedTyped DEF IInv, TypeOK
<1>1. ASSUME NEW s \in Slots, Request(s)
      PROVE  TypeOK' /\ FenceNamesOne'
  <2>1. PICK d \in Devices : Acquire(s, d) \/ Heartbeat(s, d) \/ Release(s, d)
    BY <1>1 DEF Request
  <2>2. CASE Acquire(s, d)
    BY <1>0, <2>2, AcquireGood, PlansGood, RanStep DEF Acquire
  <2>3. CASE Heartbeat(s, d)
    BY <1>0, <2>3, HeartbeatGood, PlansGood, RanStep DEF Heartbeat
  <2>4. CASE Release(s, d)
    BY <1>0, <2>4, ReleaseGood, PlansGood, RanStep DEF Release
  <2> QED BY <2>1, <2>2, <2>3, <2>4
<1>2. ASSUME NEW s \in Slots, Sweep(s)
      PROVE  TypeOK' /\ FenceNamesOne'
  BY <1>0, <1>2, SweepGood, PlansGood, RanStep DEF Sweep
<1>3. ASSUME NEW s \in Slots, SweepAll(s)
      PROVE  TypeOK' /\ FenceNamesOne'
  <2> DEFINE q == <<Call("sweep", NoDevice, 0)>>
  <2>1. q \in Seq(Calls) /\ \A i \in 1..Len(q) : q[i].do # "allow"
    BY SingleCalls
  <2>2. /\ job' = [job EXCEPT ![s] = q] /\ room' = room /\ indexed' = indexed
        /\ mic' = mic /\ told' = told /\ unmuted' = unmuted
    BY <1>3 DEF SweepAll
  <2> HIDE DEF q
  <2>3. job' \in [Slots -> Seq(Calls)] /\ FenceNamesOne'
    BY <2>1, <2>2, CallStep
  <2> QED BY <1>12, <2>2, <2>3 DEF IInv, TypeOK
<1>4. ASSUME NEW s \in Slots, Crash(s)
      PROVE  TypeOK' /\ FenceNamesOne'
  <2> DEFINE q == << >>
  <2>1. q \in Seq(Calls) /\ \A i \in 1..Len(q) : q[i].do # "allow"
    OBVIOUS
  <2>2. /\ job' = [job EXCEPT ![s] = q] /\ room' = room /\ indexed' = indexed
        /\ mic' = mic /\ told' = told /\ unmuted' = unmuted
    BY <1>4 DEF Crash
  <2> HIDE DEF q
  <2>3. job' \in [Slots -> Seq(Calls)] /\ FenceNamesOne'
    BY <2>1, <2>2, CallStep
  <2> QED BY <1>12, <2>2, <2>3 DEF IInv, TypeOK
<1>5. ASSUME NEW s \in Slots, job[s] # << >>, Done(s), room' = room,
             mic' \in [Devices -> Nat],
             \A d \in Devices : mic'[d] # 0 =>
                mic'[d] = mic[d] \/ (/\ Head(job[s]).do = "allow" /\ Head(job[s]).dev = d
                                     /\ Head(job[s]).fence = mic'[d])
      PROVE  job' \in [Slots -> Seq(Calls)] /\ FenceNamesOne'
  <2>1. job[s] \in Seq(Calls)
    BY DEF IInv, TypeOK
  <2>2. /\ Tail(job[s]) \in Seq(Calls) /\ Head(job[s]) = job[s][1] /\ 1 \in 1..Len(job[s])
        /\ \A i \in 1..Len(Tail(job[s])) : \E j \in 1..Len(job[s]) : job[s][j] = Tail(job[s])[i]
    BY <1>5, <2>1, RestOfJob
  <2>3. job' = [job EXCEPT ![s] = Tail(job[s])]
    BY <1>5 DEF Done
  <2>4. \A d \in Devices : mic'[d] # 0 =>
           \/ mic'[d] = mic[d]
           \/ \E j \in 1..Len(job[s]) :
                 /\ job[s][j].do = "allow"
                 /\ job[s][j].dev = d /\ job[s][j].fence = mic'[d]
    BY <1>5, <2>2
  <2> DEFINE q == Tail(job[s])
  <2>5. /\ q \in Seq(Calls) /\ job' = [job EXCEPT ![s] = q]
        /\ \A i \in 1..Len(q) : q[i].do = "allow" =>
              \E j \in 1..Len(job[s]) : job[s][j] = q[i]
    BY <2>2, <2>3
  <2> HIDE DEF q
  <2> QED BY <1>5, <2>4, <2>5, CallStep
<1>6. ASSUME NEW s \in Slots, NEW x, job[s] # << >>, room' = room, mic' = mic,
             x \in {"llen", "srem"},
             job' = [job EXCEPT ![s] = <<Call(x, NoDevice, 0)>> \o Tail(job[s])]
      PROVE  job' \in [Slots -> Seq(Calls)] /\ FenceNamesOne'
  <2>1. Call(x, NoDevice, 0) \in Calls /\ Call(x, NoDevice, 0).do # "allow"
    BY <1>6, SingleCalls
  <2> DEFINE q == <<Call(x, NoDevice, 0)>> \o Tail(job[s])
  <2>2. job[s] \in Seq(Calls)
    BY DEF IInv, TypeOK
  <2>3. q \in Seq(Calls) /\ \A i \in 1..Len(q) : q[i].do = "allow" =>
              \E j \in 1..Len(job[s]) : job[s][j] = q[i]
    BY <1>6, <2>1, <2>2, RestOfJob
  <2> HIDE DEF q
  <2>4. job' = [job EXCEPT ![s] = q]
    BY <1>6 DEF q
  <2> QED BY <1>6, <2>3, <2>4, CallStep
<1>7. ASSUME NEW s \in Slots, CheckFloor(s) \/ CheckQueue(s)
      PROVE  TypeOK' /\ FenceNamesOne'
  <2>1. /\ job[s] # << >> /\ room' = room /\ mic' = mic /\ indexed' = indexed
        /\ told' = told /\ unmuted' = unmuted
        /\ \/ Done(s)
           \/ \E x \in {"llen", "srem"} :
                 job' = [job EXCEPT ![s] = <<Call(x, NoDevice, 0)>> \o Tail(job[s])]
    BY <1>7 DEF CheckFloor, CheckQueue, Doing
  <2>2. job' \in [Slots -> Seq(Calls)] /\ FenceNamesOne'
    BY <1>5, <1>6, <2>1 DEF IInv, TypeOK
  <2> QED BY <1>12, <2>1, <2>2 DEF IInv, TypeOK
<1>8. ASSUME NEW s \in Slots, Index(s) \/ Unindex(s) \/ CallFails(s)
      PROVE  TypeOK' /\ FenceNamesOne'
  <2>1. /\ job[s] # << >> /\ room' = room /\ mic' = mic /\ indexed' \in BOOLEAN
        /\ told' = told /\ unmuted' = unmuted /\ Done(s)
    BY <1>8 DEF Index, Unindex, CallFails, Doing, IInv, TypeOK
  <2>2. job' \in [Slots -> Seq(Calls)] /\ FenceNamesOne'
    BY <1>5, <2>1 DEF IInv, TypeOK
  <2> QED BY <1>12, <2>1, <2>2 DEF IInv, TypeOK
<1>9. ASSUME NEW s \in Slots, AllowPublish(s) \/ DenyPublish(s)
      PROVE  TypeOK' /\ FenceNamesOne'
  <2>1. /\ job[s] # << >> /\ Done(s) /\ room' = room /\ indexed' = indexed
        /\ told' = told /\ unmuted' \subseteq unmuted
    BY <1>9 DEF AllowPublish, DenyPublish, Doing
  <2>2. Head(job[s]) \in Calls
    BY <2>1, RestOfJob DEF IInv, TypeOK
  <2>3. Head(job[s]).fence \in Nat
    BY <2>2 DEF Calls, KeyCalls, DeviceCalls
  <2>4. mic' \in [Devices -> Nat]
    <3>1. mic \in [Devices -> Nat]
      BY DEF IInv, TypeOK
    <3>2. CASE AllowPublish(s)
      BY <2>3, <3>1, <3>2 DEF AllowPublish
    <3>3. CASE DenyPublish(s)
      BY <3>1, <3>3 DEF DenyPublish
    <3> QED BY <1>9, <3>2, <3>3
  <2>5. \A d \in Devices : mic'[d] # 0 =>
           mic'[d] = mic[d] \/ (/\ Head(job[s]).do = "allow" /\ Head(job[s]).dev = d
                                /\ Head(job[s]).fence = mic'[d])
    BY <1>9 DEF AllowPublish, DenyPublish, Doing, IInv, TypeOK
  <2>6. job' \in [Slots -> Seq(Calls)] /\ FenceNamesOne'
    BY <1>5, <2>1, <2>4, <2>5
  <2> QED BY <1>12, <2>1, <2>4, <2>6 DEF IInv, TypeOK
<1>10. ASSUME NEW s \in Slots, Signal(s)
       PROVE  TypeOK' /\ FenceNamesOne'
  <2>1. /\ job[s] # << >> /\ Done(s) /\ room' = room /\ indexed' = indexed
        /\ mic' = mic /\ unmuted' = unmuted
        /\ told' \in [Devices -> Signals]
    BY <1>10 DEF Signal, Doing, IInv, TypeOK
  <2>2. job' \in [Slots -> Seq(Calls)] /\ FenceNamesOne'
    BY <1>5, <2>1 DEF IInv, TypeOK
  <2> QED BY <1>12, <2>1, <2>2 DEF IInv, TypeOK
<1>11. ASSUME ClockTick \/ KeyExpires \/ UNCHANGED vars
       PROVE  TypeOK' /\ FenceNamesOne'
  <2>1. /\ indexed' = indexed /\ mic' = mic /\ told' = told /\ job' = job
        /\ unmuted' \subseteq Devices
    BY <1>11 DEF ClockTick, KeyExpires, Lapsed, vars, IInv, TypeOK, RoomStates, Someone
  <2>2. room'.seq = room.seq /\ room.seq \in Nat
        /\ (room'.holder = NoDevice \/ (room'.holder = room.holder /\ room'.fence = room.fence))
    BY <1>11 DEF ClockTick, KeyExpires, Evicted, vars, IInv, TypeOK, RoomStates
  <2>3. Claims' \subseteq Claims
    BY <2>1, <2>2, ClaimKinds, ClaimKindsNext
  <2>4. FenceNamesOne'
    BY <2>2, <2>3, ClaimsKeep DEF IInv
  <2> QED BY <1>0, <1>12, <2>1, <2>4 DEF IInv, TypeOK, SoundRoom
<1> QED BY <1>0, <1>1, <1>2, <1>3, <1>4, <1>7, <1>8, <1>9, <1>10, <1>11 DEF Next, Effect, IInv

LEMMA InitIInv == Init => IInv
<1> SUFFICES ASSUME Init PROVE IInv
  OBVIOUS
<1>1. SoundRoom(room)
  BY RoomInit
<1>2. TypeOK
  <2>1. mic \in [Devices -> Nat] /\ told \in [Devices -> Signals]
    BY DEF Init, Signals
  <2>2. job \in [Slots -> Seq(Calls)]
    <3>1. << >> \in Seq(Calls)
      OBVIOUS
    <3> QED BY <3>1 DEF Init
  <2>3. faults \in 0..MaxFaults
    BY BoundsAssumption DEF Init
  <2> QED BY <1>1, <2>1, <2>2, <2>3 DEF Init, TypeOK, SoundRoom
<1>3. ASSUME NEW c \in Claims PROVE FALSE
  BY <1>3, ClaimKinds DEF Init, Free
<1> QED BY <1>1, <1>2, <1>3 DEF IInv, FenceNamesOne

(* The keys, permissions and pending calls keep their shapes.              *)
THEOREM FloorTypes == Spec => []TypeOK
<1>1. IInv => TypeOK
  BY DEF IInv
<1> QED BY <1>1, InitIInv, NextKeepsIInv, PTL DEF Spec

(* floor.go "every grant carries a monotonic fence": one fence never       *)
(* stands for two speakers, however handlers overlap, fail or die.         *)
THEOREM FencesNameOneSpeaker == Spec => []FenceNamesOne
<1>1. IInv => FenceNamesOne
  BY DEF IInv
<1> QED BY <1>1, InitIInv, NextKeepsIInv, PTL DEF Spec

-----------------------------------------------------------------------------
(* Who hears what: the last call of a kind that a handler has still to     *)
(* make on a device decides.  Ends(q, K, d, r): the last call of kind K on *)
(* d in the plan q fits the room r.                                        *)
MicCalls == {"allow", "deny"}

On(c, K, d) == c.do \in K /\ c.dev = d

Busy(r) == r.holder # NoDevice \/ r.queue # << >>

(* What a device may have been told, and a microphone may be set to.       *)
TellFits(r, d, f) ==
    /\ f = "queuepos" => Waits(r.queue, d)
    /\ Waits(r.queue, d) => f # "grant"
    /\ d = r.holder => f = "grant"

MicFits(r, u, d, v) ==
    /\ v # 0 => d \in u \/ (d = r.holder /\ v = r.fence)
    /\ d = r.holder => v = r.fence

Fits(r, c) ==
    /\ c.do = "allow" => c.dev = r.holder /\ c.fence = r.fence
    /\ c.do = "deny" => c.dev # r.holder
    /\ c.do \in Signals => TellFits(r, c.dev, c.do)

Never(q, K, d) == \A i \in 1..Len(q) : ~On(q[i], K, d)

Ends(q, K, d, r) ==
    \E i \in 1..Len(q) :
       /\ On(q[i], K, d) /\ Fits(r, q[i])
       /\ \A j \in 1..Len(q) : j > i => ~On(q[j], K, d)

(* The sweep is listed alone; the floor is free when the queue is looked   *)
(* at, and the room idle when it is about to leave the index.              *)
KeyFits(q, r, do) ==
    /\ do = "sweep" => Len(q) = 1
    /\ do = "llen" => r.holder = NoDevice
    /\ do = "srem" => ~Busy(r)

(* With the calls of q made, microphones m, frames t and index x agree     *)
(* with the room r, except for the speakers u whom nobody was told of.     *)
Settled(q, r, m, t, u, x) ==
    /\ \A d \in Devices :
          Ends(q, MicCalls, d, r) \/ (Never(q, MicCalls, d) /\ MicFits(r, u, d, m[d]))
    /\ \A d \in Devices :
          Ends(q, Signals, d, r) \/ (Never(q, Signals, d) /\ TellFits(r, d, t[d]))
    /\ Busy(r) => x \/ \E i \in 1..Len(q) : q[i].do = "sadd"
    /\ \A i \in 1..Len(q) : KeyFits(q, r, q[i].do)

SettledAfter(q) == Settled(q, room, mic, told, unmuted, indexed)

(* While nothing is disturbed, at most one handler runs, and its calls     *)
(* settle everything.                                                      *)
OneSettles ==
    Undisturbed =>
       \/ Quiet /\ SettledAfter(<< >>)
       \/ \E s \in Slots : Alone(s) /\ SettledAfter(job[s])

-----------------------------------------------------------------------------
(* Part(q, K, r, S, X): the calls q touch only devices of S, and end on    *)
(* each of them, except perhaps those of X, with a call that fits r; none  *)
(* of them is one that the sweeper adds as it goes.                        *)
Plain(q) == \A i \in 1..Len(q) : q[i].do \notin {"sweep", "llen", "srem"}

Part(q, K, r, S, X) ==
    /\ q \in Seq(Calls) /\ Plain(q)
    /\ \A d \in Devices : d \notin S => Never(q, K, d)
    /\ \A d \in Devices : d \in S /\ d \notin X => Ends(q, K, d, r)

LEMMA JoinNever ==
    ASSUME NEW p \in Seq(Calls), NEW q \in Seq(Calls), NEW K, NEW d,
           Never(p, K, d), Never(q, K, d)
    PROVE  Never(p \o q, K, d)
<1>1. /\ Len(p \o q) = Len(p) + Len(q)
      /\ \A i \in 1..Len(p) + Len(q) :
            (p \o q)[i] = IF i <= Len(p) THEN p[i] ELSE q[i - Len(p)]
  OBVIOUS
<1>2. ASSUME NEW i \in 1..Len(p) + Len(q) PROVE ~On((p \o q)[i], K, d)
  <2>1. CASE i <= Len(p)
    BY <1>1, <2>1 DEF Never
  <2>2. CASE ~(i <= Len(p))
    <3>1. i - Len(p) \in 1..Len(q) /\ (p \o q)[i] = q[i - Len(p)]
      BY <1>1, <2>2
    <3> QED BY <3>1 DEF Never
  <2> QED BY <2>1, <2>2
<1> QED BY <1>1, <1>2 DEF Never

LEMMA JoinPlain ==
    ASSUME NEW p \in Seq(Calls), NEW q \in Seq(Calls), Plain(p), Plain(q)
    PROVE  Plain(p \o q)
<1>1. /\ Len(p \o q) = Len(p) + Len(q)
      /\ \A i \in 1..Len(p) + Len(q) :
            (p \o q)[i] = IF i <= Len(p) THEN p[i] ELSE q[i - Len(p)]
  OBVIOUS
<1>2. ASSUME NEW i \in 1..Len(p) + Len(q)
      PROVE  (p \o q)[i].do \notin {"sweep", "llen", "srem"}
  <2>1. CASE i <= Len(p)
    BY <1>1, <2>1 DEF Plain
  <2>2. CASE ~(i <= Len(p))
    <3>1. i - Len(p) \in 1..Len(q) /\ (p \o q)[i] = q[i - Len(p)]
      BY <1>1, <2>2
    <3> QED BY <3>1 DEF Plain
  <2> QED BY <2>1, <2>2
<1> QED BY <1>1, <1>2 DEF Plain

LEMMA JoinEnds ==
    ASSUME NEW p \in Seq(Calls), NEW q \in Seq(Calls), NEW K, NEW d, NEW r,
           Ends(q, K, d, r) \/ (Ends(p, K, d, r) /\ Never(q, K, d))
    PROVE  Ends(p \o q, K, d, r)
<1>1. /\ Len(p \o q) = Len(p) + Len(q) /\ Len(p) \in Nat /\ Len(q) \in Nat
      /\ \A i \in 1..Len(p) + Len(q) :
            (p \o q)[i] = IF i <= Len(p) THEN p[i] ELSE q[i - Len(p)]
  OBVIOUS
<1>2. CASE Ends(q, K, d, r)
  <2>1. PICK i \in 1..Len(q) : /\ On(q[i], K, d) /\ Fits(r, q[i])
                               /\ \A j \in 1..Len(q) : j > i => ~On(q[j], K, d)
    BY <1>2 DEF Ends
  <2>2. i + Len(p) \in 1..Len(p) + Len(q) /\ (p \o q)[i + Len(p)] = q[i]
    BY <1>1
  <2>3. ASSUME NEW j \in 1..Len(p) + Len(q), j > i + Len(p)
        PROVE  ~On((p \o q)[j], K, d)
    <3>1. j - Len(p) \in 1..Len(q) /\ j - Len(p) > i /\ (p \o q)[j] = q[j - Len(p)]
      BY <1>1, <2>3
    <3> QED BY <2>1, <3>1
  <2> QED BY <1>1, <2>1, <2>2, <2>3 DEF Ends
<1>3. CASE Ends(p, K, d, r) /\ Never(q, K, d)
  <2>1. PICK i \in 1..Len(p) : /\ On(p[i], K, d) /\ Fits(r, p[i])
                               /\ \A j \in 1..Len(p) : j > i => ~On(p[j], K, d)
    BY <1>3 DEF Ends
  <2>2. i \in 1..Len(p) + Len(q) /\ (p \o q)[i] = p[i]
    BY <1>1
  <2>3. ASSUME NEW j \in 1..Len(p) + Len(q), j > i PROVE ~On((p \o q)[j], K, d)
    <3>1. CASE j <= Len(p)
      BY <1>1, <2>1, <2>3, <3>1
    <3>2. CASE ~(j <= Len(p))
      <4>1. j - Len(p) \in 1..Len(q) /\ (p \o q)[j] = q[j - Len(p)]
        BY <1>1, <3>2
      <4> QED BY <1>3, <4>1 DEF Never
    <3> QED BY <3>1, <3>2
  <2> QED BY <1>1, <2>1, <2>2, <2>3 DEF Ends
<1> QED BY <1>2, <1>3

LEMMA FirstCall ==
    ASSUME NEW p \in Seq(Calls), NEW q \in Seq(Calls), p # << >>
    PROVE  p \o q \in Seq(Calls) /\ p \o q # << >> /\ (p \o q)[1] = p[1]
  OBVIOUS

LEMMA JoinParts ==
    ASSUME NEW p, NEW q, NEW K, NEW r, NEW S, NEW X, NEW T, NEW Y,
           Part(p, K, r, S, X), Part(q, K, r, T, Y)
    PROVE  Part(p \o q, K, r, S \cup T, (X \ T) \cup Y)
<1>1. p \in Seq(Calls) /\ q \in Seq(Calls)
  BY DEF Part
<1>2. p \o q \in Seq(Calls) /\ Plain(p \o q)
  BY <1>1, JoinPlain DEF Part
<1>3. ASSUME NEW d \in Devices, d \notin S \cup T PROVE Never(p \o q, K, d)
  BY <1>1, <1>3, JoinNever DEF Part
<1>4. ASSUME NEW d \in Devices, d \in S \cup T, d \notin (X \ T) \cup Y
      PROVE  Ends(p \o q, K, d, r)
  <2>1. CASE d \in T
    BY <1>1, <1>4, <2>1, JoinEnds DEF Part
  <2>2. CASE d \notin T
    BY <1>1, <1>4, <2>2, JoinEnds DEF Part
  <2> QED BY <2>1, <2>2
<1> QED BY <1>2, <1>3, <1>4 DEF Part

LEMMA NoCalls == \A K, r : Part(<< >>, K, r, {}, {})
<1>1. << >> \in Seq(Calls) /\ Len(<< >>) = 0
  OBVIOUS
<1> QED BY <1>1 DEF Part, Never, Plain

(* One call: on its device if it is of the kind, on nobody otherwise.      *)
LEMMA OneCall ==
    ASSUME NEW c \in Calls, NEW K, NEW r, c.do \notin {"sweep", "llen", "srem"}
    PROVE  /\ c.do \notin K => Part(<<c>>, K, r, {}, {})
           /\ c.do \in K => Part(<<c>>, K, r, {c.dev}, IF Fits(r, c) THEN {} ELSE {c.dev})
<1>1. <<c>> \in Seq(Calls) /\ Len(<<c>>) = 1 /\ <<c>>[1] = c /\ Plain(<<c>>)
  BY DEF Plain
<1>2. ASSUME c.do \notin K PROVE Part(<<c>>, K, r, {}, {})
  BY <1>1, <1>2 DEF Part, Never, On
<1>3. ASSUME c.do \in K
      PROVE  Part(<<c>>, K, r, {c.dev}, IF Fits(r, c) THEN {} ELSE {c.dev})
  <2>1. \A d : d # c.dev => Never(<<c>>, K, d)
    BY <1>1 DEF Never, On
  <2>2. Fits(r, c) => Ends(<<c>>, K, c.dev, r)
    BY <1>1, <1>3 DEF Ends, On
  <2> QED BY <1>1, <2>1, <2>2 DEF Part
<1> QED BY <1>2, <1>3

(* Service.applyDemote: the evicted speaker is muted and told; that fits   *)
(* unless it holds the floor again.                                        *)
LEMMA DemoteParts ==
    ASSUME NEW d \in Someone, NEW r
    PROVE  /\ Part(ApplyDemote(d), MicCalls, r, {d}, {r.holder})
           /\ Part(ApplyDemote(d), Signals, r, {d}, {r.holder})
<1>1. CASE d = NoDevice
  <2>1. ApplyDemote(d) = << >> /\ \A e \in Devices : e \notin {} /\ e \notin {d}
    BY <1>1, NoDeviceAssumption DEF ApplyDemote
  <2> QED BY <2>1, NoCalls DEF Part
<1>2. CASE d # NoDevice
  <2> DEFINE a == Call("deny", d, 0)
             b == Call("revoke", d, 0)
  <2>1. a \in Calls /\ b \in Calls /\ a.do = "deny" /\ b.do = "revoke"
        /\ a.dev = d /\ b.dev = d
    BY <1>2, SingleCalls DEF Someone
  <2>2. ApplyDemote(d) = <<a>> \o <<b>>
    BY <1>2 DEF ApplyDemote
  <2> HIDE DEF a, b
  <2>3. d # r.holder => Fits(r, a) /\ Fits(r, b)
    BY <2>1 DEF Fits, TellFits, Signals
  <2>4. a.do \in MicCalls /\ b.do \notin MicCalls /\ a.do \notin Signals /\ b.do \in Signals
    BY <2>1 DEF MicCalls, Signals
  <2>5. /\ Part(<<a>>, MicCalls, r, {d}, {r.holder}) /\ Part(<<b>>, MicCalls, r, {}, {})
        /\ Part(<<a>>, Signals, r, {}, {}) /\ Part(<<b>>, Signals, r, {d}, {r.holder})
    <3>1. /\ Part(<<a>>, MicCalls, r, {d}, IF Fits(r, a) THEN {} ELSE {d})
          /\ Part(<<b>>, MicCalls, r, {}, {}) /\ Part(<<a>>, Signals, r, {}, {})
          /\ Part(<<b>>, Signals, r, {d}, IF Fits(r, b) THEN {} ELSE {d})
      BY <2>1, <2>4, OneCall
    <3>2. CASE d = r.holder
      BY <3>1, <3>2 DEF Part
    <3>3. CASE d # r.holder
      BY <2>3, <3>1, <3>3 DEF Part
    <3> QED BY <3>2, <3>3
  <2>6. /\ Part(<<a>> \o <<b>>, MicCalls, r, {d} \cup {}, ({r.holder} \ {}) \cup {})
        /\ Part(<<a>> \o <<b>>, Signals, r, {} \cup {d}, ({} \ {d}) \cup {r.holder})
    BY <2>5, JoinParts
  <2> QED BY <2>2, <2>6 DEF Part
<1> QED BY <1>1, <1>2

(* Service.applyGrant: the new speaker is unmuted under its fence and told. *)
LEMMA GrantParts ==
    ASSUME NEW d \in Devices, NEW r, NEW f \in Nat,
           d = r.holder, f = r.fence, ~Waits(r.queue, d)
    PROVE  /\ Part(ApplyGrant(d, f), MicCalls, r, {d}, {})
           /\ Part(ApplyGrant(d, f), Signals, r, {d}, {})
<1> DEFINE a == Call("allow", d, f)
           b == Call("grant", d, f)
<1>1. a \in Calls /\ b \in Calls /\ a.do = "allow" /\ b.do = "grant"
      /\ a.dev = d /\ b.dev = d /\ a.fence = f
  BY DEF Call, Calls, DeviceCalls, Signals
<1>2. ApplyGrant(d, f) = <<a>> \o <<b>>
  BY NoDeviceAssumption DEF ApplyGrant
<1> HIDE DEF a, b
<1>3. Fits(r, a) /\ Fits(r, b)
  BY <1>1 DEF Fits, TellFits, Signals
<1>4. a.do \in MicCalls /\ b.do \notin MicCalls /\ a.do \notin Signals /\ b.do \in Signals
  BY <1>1 DEF MicCalls, Signals
<1>5. /\ Part(<<a>>, MicCalls, r, {d}, {}) /\ Part(<<b>>, MicCalls, r, {}, {})
      /\ Part(<<a>>, Signals, r, {}, {}) /\ Part(<<b>>, Signals, r, {d}, {})
  BY <1>1, <1>3, <1>4, OneCall
<1>6. /\ Part(<<a>> \o <<b>>, MicCalls, r, {d} \cup {}, ({} \ {}) \cup {})
      /\ Part(<<a>> \o <<b>>, Signals, r, {} \cup {d}, ({} \ {d}) \cup {})
  BY <1>5, JoinParts
<1> QED BY <1>2, <1>6 DEF Part

(* The calls of Service.Acquire: the demoted, the promoted and the caller  *)
(* hear of it, and nobody else.                                            *)
LEMMA AcquireParts ==
    ASSUME NEW n, NEW a, NEW d \in Devices, a.demoted \in Someone, a.promoted \in Someone,
           a.fence \in Nat, ~Waits(n.queue, n.holder),
           a.promoted # NoDevice => a.promoted = n.holder /\ a.fence = n.fence,
           a.status = "granted" => d = n.holder /\ a.fence = n.fence,
           a.status # "granted" => d # n.holder,
           a.status # "granted" /\ a.status # "full" => Waits(n.queue, d)
    PROVE  LET q == AfterAcquire(d, a)
               S == {a.demoted, a.promoted} \cup (IF a.status = "granted" THEN {d} ELSE {})
               T == {a.demoted, a.promoted, d}
           IN  /\ Part(q, MicCalls, n, S, {n.holder} \ {a.promoted, d})
               /\ Part(q, Signals, n, T, {n.holder} \ {a.promoted, d})
               /\ 1 \in 1..Len(q) /\ q[1].do = "sadd"
<1> DEFINE s   == Call("sadd", NoDevice, 0)
           up  == IF a.promoted # NoDevice THEN ApplyGrant(a.promoted, a.fence) ELSE << >>
           ans == CASE a.status = "granted" -> ApplyGrant(d, a.fence)
                    [] a.status = "full"    -> <<Call("revoke", d, 0)>>
                    [] OTHER                -> <<Call("queuepos", d, 0)>>
           G   == IF a.status = "granted" THEN {d} ELSE {}
<1>1. AfterAcquire(d, a) = ((<<s>> \o ApplyDemote(a.demoted)) \o up) \o ans
  BY DEF AfterAcquire
<1>2. Part(<<s>>, MicCalls, n, {}, {}) /\ Part(<<s>>, Signals, n, {}, {}) /\ s.do = "sadd"
  <2>1. s \in Calls /\ s.do = "sadd"
    BY SingleCalls
  <2>2. s.do \notin MicCalls /\ s.do \notin Signals /\ s.do \notin {"sweep", "llen", "srem"}
    BY <2>1 DEF MicCalls, Signals
  <2> HIDE DEF s
  <2> QED BY <2>1, <2>2, OneCall
<1>3. /\ Part(up, MicCalls, n, {a.promoted}, {})
      /\ Part(up, Signals, n, {a.promoted}, {})
  <2>1. CASE a.promoted = NoDevice
    <3>1. up = << >> /\ \A e \in Devices : e \notin {} /\ e \notin {a.promoted}
      BY <2>1, NoDeviceAssumption
    <3> HIDE DEF up
    <3> QED BY <3>1, NoCalls DEF Part
  <2>2. CASE a.promoted # NoDevice
    <3>1. a.promoted \in Devices /\ up = ApplyGrant(a.promoted, a.fence)
      BY <2>2 DEF Someone
    <3> HIDE DEF up
    <3> QED BY <2>2, <3>1, GrantParts
  <2> QED BY <2>1, <2>2
<1>4. Part(ans, MicCalls, n, G, {}) /\ Part(ans, Signals, n, {d}, {})
  <2>1. CASE a.status = "granted"
    <3>1. ans = ApplyGrant(d, a.fence) /\ G = {d}
      BY <2>1
    <3> HIDE DEF ans, G
    <3> QED BY <2>1, <3>1, GrantParts
  <2>2. CASE a.status # "granted"
    <3> DEFINE c == IF a.status = "full" THEN Call("revoke", d, 0) ELSE Call("queuepos", d, 0)
    <3>1. ans = <<c>> /\ G = {}
      BY <2>2
    <3>2. /\ c \in Calls /\ c.dev = d /\ c.do \in {"revoke", "queuepos"}
          /\ c.do = "queuepos" => Waits(n.queue, d)
      BY <2>2, SingleCalls
    <3> HIDE DEF ans, G, c
    <3>3. Fits(n, c)
      BY <2>2, <3>2 DEF Fits, TellFits, Signals
    <3>4. c.do \notin MicCalls /\ c.do \in Signals /\ c.do \notin {"sweep", "llen", "srem"}
      BY <3>2 DEF MicCalls, Signals
    <3> QED BY <3>1, <3>2, <3>3, <3>4, OneCall
  <2> QED BY <2>1, <2>2
<1>5. /\ Part(ApplyDemote(a.demoted), MicCalls, n, {a.demoted}, {n.holder})
      /\ Part(ApplyDemote(a.demoted), Signals, n, {a.demoted}, {n.holder})
  BY DemoteParts
<1> DEFINE p1 == <<s>> \o ApplyDemote(a.demoted)
           p2 == p1 \o up
           p3 == p2 \o ans
<1>6. 1 \in 1..Len(p3) /\ p3[1].do = "sadd"
  <2>1. <<s>> # << >> /\ <<s>>[1] = s
    OBVIOUS
  <2>2. <<s>> \in Seq(Calls) /\ ApplyDemote(a.demoted) \in Seq(Calls)
        /\ up \in Seq(Calls) /\ ans \in Seq(Calls)
    BY <1>2, <1>3, <1>4, <1>5 DEF Part
  <2> HIDE DEF s, up, ans
  <2>3. p1 \in Seq(Calls) /\ p1 # << >> /\ p1[1] = s
    BY <2>1, <2>2, FirstCall
  <2> HIDE DEF p1
  <2>4. p2 \in Seq(Calls) /\ p2 # << >> /\ p2[1] = s
    BY <2>2, <2>3, FirstCall
  <2> HIDE DEF p2
  <2>5. p3 \in Seq(Calls) /\ p3 # << >> /\ p3[1] = s
    BY <2>2, <2>4, FirstCall
  <2> HIDE DEF p3
  <2> QED BY <1>2, <2>5
<1> HIDE DEF s, up, ans, G
<1>7. /\ Part(p1, MicCalls, n, {} \cup {a.demoted}, ({} \ {a.demoted}) \cup {n.holder})
      /\ Part(p1, Signals, n, {} \cup {a.demoted}, ({} \ {a.demoted}) \cup {n.holder})
  BY <1>2, <1>5, JoinParts
<1>8. /\ Part(p1, MicCalls, n, {a.demoted}, {n.holder})
      /\ Part(p1, Signals, n, {a.demoted}, {n.holder})
  BY <1>7 DEF Part
<1> HIDE DEF p1
<1>9. /\ Part(p2, MicCalls, n, {a.demoted} \cup {a.promoted}, ({n.holder} \ {a.promoted}) \cup {})
      /\ Part(p2, Signals, n, {a.demoted} \cup {a.promoted}, ({n.holder} \ {a.promoted}) \cup {})
  BY <1>3, <1>8, JoinParts
<1> HIDE DEF p2
<1>10. /\ Part(p3, MicCalls, n, ({a.demoted} \cup {a.promoted}) \cup G,
               ((({n.holder} \ {a.promoted}) \cup {}) \ G) \cup {})
       /\ Part(p3, Signals, n, ({a.demoted} \cup {a.promoted}) \cup {d},
               ((({n.holder} \ {a.promoted}) \cup {}) \ {d}) \cup {})
  BY <1>4, <1>9, JoinParts
<1>11. AfterAcquire(d, a) = p3
  BY <1>1 DEF p1, p2
<1> HIDE DEF p3
<1>12. G = (IF a.status = "granted" THEN {d} ELSE {}) /\ (a.status # "granted" => d # n.holder)
  BY DEF G
<1> QED BY <1>6, <1>10, <1>11, <1>12 DEF Part

(* A room changes and a plan is made: it settles everything if it reaches  *)
(* each device for which something changed.                                *)
LEMMA Settling ==
    ASSUME NEW r, NEW n, NEW m, NEW t, NEW u, NEW v, NEW x, NEW q,
           NEW S, NEW X, NEW T, NEW Y,
           Settled(<< >>, r, m, t, u, x), u \subseteq v,
           Part(q, MicCalls, n, S, X), Part(q, Signals, n, T, Y),
           \A d \in Devices : (d \in S => d \notin X) /\ (d \in T => d \notin Y),
           \A d \in Devices : d \notin S =>
              /\ d = n.holder => d = r.holder /\ n.fence = r.fence
              /\ d = r.holder => d = n.holder \/ d \in v,
           \A d \in Devices : d \notin T =>
              /\ d = n.holder => d = r.holder
              /\ Waits(n.queue, d) <=> Waits(r.queue, d),
           Busy(n) => Busy(r) \/ \E i \in 1..Len(q) : q[i].do = "sadd"
    PROVE  Settled(q, n, m, t, v, x)
<1>1. /\ \A d \in Devices : MicFits(r, u, d, m[d]) /\ TellFits(r, d, t[d])
      /\ Busy(r) => x
  <2>1. Len(<< >>) = 0 /\ \A K, d, k : ~Ends(<< >>, K, d, k)
    BY DEF Ends
  <2> QED BY <2>1 DEF Settled
<1>2. ASSUME NEW d \in Devices
      PROVE  Ends(q, MicCalls, d, n) \/ (Never(q, MicCalls, d) /\ MicFits(n, v, d, m[d]))
  <2>1. CASE d \in S
    BY <2>1 DEF Part
  <2>2. CASE d \notin S
    BY <1>1, <2>2 DEF Part, MicFits
  <2> QED BY <2>1, <2>2
<1>3. ASSUME NEW d \in Devices
      PROVE  Ends(q, Signals, d, n) \/ (Never(q, Signals, d) /\ TellFits(n, d, t[d]))
  <2>1. CASE d \in T
    BY <2>1 DEF Part
  <2>2. CASE d \notin T
    BY <1>1, <2>2 DEF Part, TellFits
  <2> QED BY <2>1, <2>2
<1>4. \A i \in 1..Len(q) : KeyFits(q, n, q[i].do)
  BY DEF Part, Plain, KeyFits
<1>5. Busy(n) => x \/ \E i \in 1..Len(q) : q[i].do = "sadd"
  BY <1>1
<1> QED BY <1>2, <1>3, <1>4, <1>5 DEF Settled

(* Who waits behind a head that has left, and behind one who has come.     *)
LEMMA TailWaits ==
    ASSUME NEW q \in Seq(Devices), q # << >>
    PROVE  \A e : e # Head(q) => (Waits(Tail(q), e) <=> Waits(q, e))
<1>1. Head(q) = q[1] /\ Len(q) >= 1 /\ Len(Tail(q)) = Len(q) - 1
      /\ \A i \in 1..Len(q) - 1 : Tail(q)[i] = q[i + 1]
  OBVIOUS
<1>2. ASSUME NEW e, e # Head(q), Waits(q, e) PROVE Waits(Tail(q), e)
  <2>1. PICK i \in 1..Len(q) : q[i] = e
    BY <1>2 DEF Waits
  <2>2. i - 1 \in 1..Len(q) - 1 /\ Tail(q)[i - 1] = q[(i - 1) + 1] /\ (i - 1) + 1 = i
    BY <1>1, <1>2, <2>1
  <2> QED BY <1>1, <2>1, <2>2 DEF Waits
<1>3. ASSUME NEW e, Waits(Tail(q), e) PROVE Waits(q, e)
  <2>1. PICK i \in 1..Len(q) - 1 : Tail(q)[i] = e
    BY <1>1, <1>3 DEF Waits
  <2>2. i + 1 \in 1..Len(q)
    BY <1>1
  <2> QED BY <1>1, <2>1, <2>2 DEF Waits
<1> QED BY <1>2, <1>3

LEMMA EnqueuedWaits ==
    ASSUME NEW r, r \in RoomStates, NEW d \in Devices
    PROVE  \A e : e # d => (Waits(Enqueued(r, d).queue, e) <=> Waits(r.queue, e))
<1>1. r.queue \in Seq(Devices)
  BY DEF RoomStates
<1>2. CASE Waits(r.queue, d)
  BY <1>2 DEF Enqueued
<1>3. CASE ~Waits(r.queue, d)
  <2>1. Enqueued(r, d).queue = Append(r.queue, d)
    BY <1>3 DEF Enqueued, RoomStates
  <2>2. Len(Append(r.queue, d)) = Len(r.queue) + 1
        /\ \A i \in 1..Len(r.queue) : Append(r.queue, d)[i] = r.queue[i]
        /\ Append(r.queue, d)[Len(r.queue) + 1] = d
    BY <1>1
  <2> QED BY <1>1, <2>1, <2>2 DEF Waits
<1> QED BY <1>2, <1>3

(* A lapsed room has one holder to demote; another keeps its own.          *)
LEMMA CurrentFloor ==
    ASSUME NEW r, SoundRoom(r)
    PROVE  /\ Current(r).holder # NoDevice =>
                 /\ Current(r) = r /\ ~Lapsed(r) /\ Demoted(r) = NoDevice
           /\ Current(r).holder = NoDevice => Demoted(r) = r.holder
           /\ Lapsed(r) => Current(r).holder = NoDevice /\ r.holder \in Devices
           /\ r.holder \in Someone /\ (r.holder # NoDevice => r.holder \in Devices)
<1>1. Evicted(r).holder = NoDevice /\ r.holder \in Someone
  BY CurrentSound DEF SoundRoom, RoomStates
<1>2. CASE Lapsed(r)
  BY <1>1, <1>2 DEF Current, Demoted, Lapsed, Someone
<1>3. CASE ~Lapsed(r)
  BY <1>1, <1>3 DEF Current, Demoted, Lapsed, Someone
<1> QED BY <1>2, <1>3

(* The calls of Service.Acquire settle what its run of the script changed. *)
LEMMA AcquireRuns ==
    ASSUME NEW r, NEW n, NEW a, NEW d \in Devices,
           NEW m, NEW t, NEW u, NEW v, NEW x, Settled(<< >>, r, m, t, u, x), u \subseteq v,
           a.demoted \in Someone, a.promoted \in Someone,
           a.fence \in Nat, ~Waits(n.queue, n.holder),
           a.promoted # NoDevice => a.promoted = n.holder /\ a.fence = n.fence,
           a.status = "granted" => d = n.holder /\ a.fence = n.fence,
           a.status # "granted" => d # n.holder,
           a.status # "granted" /\ a.status # "full" => Waits(n.queue, d),
           n.holder \in {a.promoted, d} \/ (n.holder = r.holder /\ n.fence = r.fence),
           n.holder = a.demoted => n.holder \in {a.promoted, d},
           r.holder \in {a.demoted, n.holder},
           \A e \in Devices : e \notin {a.demoted, a.promoted, d} =>
              (Waits(n.queue, e) <=> Waits(r.queue, e))
    PROVE  Settled(AfterAcquire(d, a), n, m, t, v, x)
<1> DEFINE q == AfterAcquire(d, a)
           S == {a.demoted, a.promoted} \cup (IF a.status = "granted" THEN {d} ELSE {})
           T == {a.demoted, a.promoted, d}
           X == {n.holder} \ {a.promoted, d}
<1>1. /\ Part(q, MicCalls, n, S, X) /\ Part(q, Signals, n, T, X)
      /\ \E i \in 1..Len(q) : q[i].do = "sadd"
  BY AcquireParts
<1>2. \A e \in Devices : (e \in S => e \notin X) /\ (e \in T => e \notin X)
  OBVIOUS
<1>3. \A e \in Devices : e \notin S =>
         /\ e = n.holder => e = r.holder /\ n.fence = r.fence
         /\ e = r.holder => e = n.holder \/ e \in v
  OBVIOUS
<1>4. \A e \in Devices : e \notin T =>
         /\ e = n.holder => e = r.holder
         /\ Waits(n.queue, e) <=> Waits(r.queue, e)
  OBVIOUS
<1> HIDE DEF q, S, T, X
<1>5. Settled(q, n, m, t, v, x)
  BY <1>1, <1>2, <1>3, <1>4, Settling
<1> QED BY <1>5 DEF q

(* Service.Acquire: whatever the script answers, its calls settle.         *)
LEMMA AcquireSettles ==
    ASSUME NEW r0, SoundRoom(r0), NEW d \in Devices,
           NEW m, NEW t, NEW u, NEW v, NEW x, Settled(<< >>, r0, m, t, u, x), u \subseteq v
    PROVE  LET out == LuaAcquire(r0, d)
           IN  Settled(AfterAcquire(d, out.reply), out.room, m, t, v, x)
<1> DEFINE r    == Current(r0)
           dem  == Demoted(r0)
           head == Head(r.queue)
           top  == GrantTo(Popped(r), head)
           up   == Enqueued(top, d)
<1>1. /\ SoundRoom(r) /\ r.queue = r0.queue /\ dem \in Someone
      /\ r.queue \in Seq(Devices) /\ r.seq \in Nat /\ r.fence \in Nat /\ r.holder \in Someone
      /\ ~Waits(r.queue, r.holder)
  BY CurrentSound DEF SoundRoom, RoomStates
<1>2. NoDevice \in Someone /\ 0 \in Nat /\ d # NoDevice
  BY NoDeviceAssumption DEF Someone
<1>3. /\ r.holder # NoDevice => r = r0 /\ dem = NoDevice
      /\ r.holder = NoDevice => dem = r0.holder
  BY CurrentFloor
<1> HIDE DEF r, dem
<1>4. CASE r.holder = NoDevice /\ r.queue # << >> /\ head # d
  <2>1. /\ SoundRoom(top) /\ top.holder = head /\ head \in Devices /\ top.queue = Tail(r.queue)
        /\ top.fence = r.seq + 1
    BY <1>1, <1>4, PromoteSound
  <2>2. /\ SoundRoom(up) /\ up.holder = head /\ up.fence = r.seq + 1 /\ Waits(up.queue, d)
        /\ \A e : e # d => (Waits(up.queue, e) <=> Waits(Tail(r.queue), e))
    <3> HIDE DEF top, head
    <3> QED BY <1>4, <2>1, EnqueuedSound, EnqueuedWaits DEF SoundRoom
  <2>3. LuaAcquire(r0, d) =
           Outcome(up, Reply("queued", up.fence, Place(up.queue, d), head, dem))
    BY <1>4 DEF LuaAcquire, r, dem
  <2>4. \A e : e # head => (Waits(Tail(r.queue), e) <=> Waits(r.queue, e))
    BY <1>1, <1>4, TailWaits
  <2> DEFINE a == Reply("queued", up.fence, Place(up.queue, d), head, dem)
  <2>5. /\ a.status = "queued" /\ a.fence = up.fence /\ a.promoted = head /\ a.demoted = dem
        /\ LuaAcquire(r0, d).room = up /\ LuaAcquire(r0, d).reply = a
    BY <2>3 DEF Outcome, Reply
  <2> HIDE DEF a, up, head
  <2>6. up.fence \in Nat /\ head \in Someone /\ ~Waits(up.queue, up.holder)
    BY <1>1, <2>1, <2>2 DEF SoundRoom, Someone
  <2>7. Settled(AfterAcquire(d, a), up, m, t, v, x)
    BY <1>1, <1>3, <1>4, <2>2, <2>4, <2>5, <2>6, AcquireRuns
  <2> QED BY <2>5, <2>7
<1>5. CASE r.holder = NoDevice /\ (r.queue = << >> \/ head = d)
  <2> DEFINE base == IF r.queue # << >> THEN Popped(r) ELSE r
             won  == GrantTo(base, d)
             a    == Reply("granted", won.fence, 0, NoDevice, dem)
  <2>1. /\ SoundRoom(won) /\ won.fence = r.seq + 1 /\ won.holder = d
        /\ \A e : e # d => (Waits(won.queue, e) <=> Waits(r.queue, e))
    <3>1. CASE r.queue = << >>
      <4>1. ~Waits(r.queue, d)
        BY <3>1 DEF Waits
      <4> QED BY <1>1, <3>1, <4>1, GrantSound
    <3>2. CASE r.queue # << >>
      <4>1. head = d
        BY <1>5, <3>2
      <4>2. /\ SoundRoom(won) /\ won.fence = r.seq + 1
            /\ won.holder = d /\ won.queue = Tail(r.queue)
        BY <1>1, <3>2, <4>1, PromoteSound
      <4> HIDE DEF won
      <4> QED BY <1>1, <3>2, <4>1, <4>2, TailWaits
    <3> QED BY <3>1, <3>2
  <2>2. LuaAcquire(r0, d) = Outcome(won, a)
    BY <1>5 DEF LuaAcquire, r, dem
  <2>3. /\ a.status = "granted" /\ a.fence = won.fence /\ a.promoted = NoDevice /\ a.demoted = dem
        /\ LuaAcquire(r0, d).room = won /\ LuaAcquire(r0, d).reply = a
    BY <2>2 DEF Outcome, Reply
  <2> HIDE DEF a, won
  <2>4. won.fence \in Nat /\ ~Waits(won.queue, won.holder)
    BY <1>1, <2>1 DEF SoundRoom
  <2>5. Settled(AfterAcquire(d, a), won, m, t, v, x)
    BY <1>1, <1>2, <1>3, <1>5, <2>1, <2>3, <2>4, AcquireRuns
  <2> QED BY <2>3, <2>5
<1>6. CASE r.holder = d
  <2> DEFINE n == [r EXCEPT !.lease = Lease]
             a == Reply("granted", r.fence, 0, NoDevice, NoDevice)
  <2>1. n.queue = r.queue /\ n.holder = d /\ n.fence = r.fence
    BY <1>1, <1>6, RenewSound
  <2>2. LuaAcquire(r0, d) = Outcome(n, a)
    BY <1>2, <1>6 DEF LuaAcquire, r, dem
  <2>3. /\ a.status = "granted" /\ a.fence = r.fence /\ a.promoted = NoDevice
        /\ a.demoted = NoDevice
        /\ LuaAcquire(r0, d).room = n /\ LuaAcquire(r0, d).reply = a
    BY <2>2 DEF Outcome, Reply
  <2> HIDE DEF a, n
  <2>4. Settled(AfterAcquire(d, a), n, m, t, v, x)
    BY <1>1, <1>2, <1>3, <1>6, <2>1, <2>3, AcquireRuns
  <2> QED BY <2>3, <2>4
<1>7. CASE r.holder # NoDevice /\ r.holder # d /\ ~Waits(r.queue, d) /\ Len(r.queue) >= MaxQueue
  <2> DEFINE a == Reply("full", 0, 0, NoDevice, dem)
  <2>1. LuaAcquire(r0, d) = Outcome(r, a)
    BY <1>7 DEF LuaAcquire, r, dem
  <2>2. /\ a.status = "full" /\ a.fence = 0 /\ a.promoted = NoDevice /\ a.demoted = dem
        /\ LuaAcquire(r0, d).room = r /\ LuaAcquire(r0, d).reply = a
    BY <2>1 DEF Outcome, Reply
  <2> HIDE DEF a
  <2>3. Settled(AfterAcquire(d, a), r, m, t, v, x)
    BY <1>1, <1>2, <1>3, <1>7, <2>2, AcquireRuns
  <2> QED BY <2>2, <2>3
<1>8. CASE r.holder # NoDevice /\ r.holder # d /\ (Waits(r.queue, d) \/ ~(Len(r.queue) >= MaxQueue))
  <2> DEFINE back == Enqueued(r, d)
             a    == Reply("queued", 0, Place(back.queue, d), NoDevice, dem)
  <2>1. /\ SoundRoom(back) /\ back.holder = r.holder /\ back.fence = r.fence
        /\ Waits(back.queue, d)
        /\ \A e : e # d => (Waits(back.queue, e) <=> Waits(r.queue, e))
    BY <1>1, <1>8, EnqueuedSound, EnqueuedWaits DEF SoundRoom
  <2>2. LuaAcquire(r0, d) = Outcome(back, a)
    BY <1>8 DEF LuaAcquire, r, dem
  <2>3. /\ a.status = "queued" /\ a.fence = 0 /\ a.promoted = NoDevice /\ a.demoted = dem
        /\ LuaAcquire(r0, d).room = back /\ LuaAcquire(r0, d).reply = a
    BY <2>2 DEF Outcome, Reply
  <2> HIDE DEF a, back
  <2>4. ~Waits(back.queue, back.holder)
    BY <2>1 DEF SoundRoom
  <2>5. Settled(AfterAcquire(d, a), back, m, t, v, x)
    BY <1>1, <1>2, <1>3, <1>8, <2>1, <2>3, <2>4, AcquireRuns
  <2> QED BY <2>3, <2>5
<1> QED BY <1>4, <1>5, <1>6, <1>7, <1>8

LEMMA HeartbeatSettles ==
    ASSUME NEW r0, SoundRoom(r0), NEW d \in Devices,
           NEW m, NEW t, NEW u, NEW v, NEW x, Settled(<< >>, r0, m, t, u, x), u \subseteq v,
           Unnamed(r0, LuaHeartbeat(r0, d).reply) \subseteq v
    PROVE  LET out == LuaHeartbeat(r0, d)
           IN  Settled(AfterHeartbeat(d, out.reply), out.room, m, t, v, x)
<1> DEFINE r == Current(r0)
           n == [r EXCEPT !.lease = Lease]
           a == Reply("ok", r.fence, 0, NoDevice, NoDevice)
           b == Reply("lost", 0, 0, NoDevice, NoDevice)
<1>1. SoundRoom(r) /\ r.queue = r0.queue /\ d # NoDevice
  BY CurrentSound, NoDeviceAssumption
<1>2. /\ r.holder # NoDevice => r = r0
      /\ r.holder = NoDevice => (r0.holder # NoDevice => Lapsed(r0))
      /\ r0.holder # NoDevice => r0.holder \in Devices
  BY CurrentFloor DEF Current
<1>3. CASE r.holder = d
  <2>1. LuaHeartbeat(r0, d) = Outcome(n, a)
    BY <1>3 DEF LuaHeartbeat
  <2>2. n.queue = r.queue /\ n.holder = d /\ n.fence = r.fence
    <3> HIDE DEF r
    <3> QED BY <1>1, <1>3, RenewSound
  <2>3. AfterHeartbeat(d, a) = << >> /\ LuaHeartbeat(r0, d).room = n
        /\ LuaHeartbeat(r0, d).reply = a
    BY <2>1 DEF Outcome, AfterHeartbeat, Reply
  <2> HIDE DEF a, n, r
  <2>4. Settled(<< >>, n, m, t, v, x)
    <3>1. Part(<< >>, MicCalls, n, {}, {}) /\ Part(<< >>, Signals, n, {}, {})
      BY NoCalls
    <3>2. r = r0
      BY <1>1, <1>2, <1>3
    <3>3. Busy(n) => Busy(r0)
      BY <1>1, <1>3, <3>2 DEF Busy
    <3> QED BY <1>1, <1>3, <2>2, <3>1, <3>2, <3>3, Settling
  <2> QED BY <2>3, <2>4
<1>4. CASE r.holder # d
  <2>1. LuaHeartbeat(r0, d) = Outcome(r, b)
    BY <1>4 DEF LuaHeartbeat
  <2>2. /\ AfterHeartbeat(d, b) = ApplyDemote(d) /\ LuaHeartbeat(r0, d).room = r
        /\ LuaHeartbeat(r0, d).reply = b /\ b.demoted = NoDevice
    BY <1>1, <2>1 DEF Outcome, AfterHeartbeat, Reply, ApplyDemote
  <2>3. r.holder = NoDevice /\ r0.holder # NoDevice => r0.holder \in v
    BY <1>2, <2>2 DEF Unnamed
  <2> HIDE DEF b, r
  <2>4. Settled(ApplyDemote(d), r, m, t, v, x)
    <3>1. /\ Part(ApplyDemote(d), MicCalls, r, {d}, {r.holder})
          /\ Part(ApplyDemote(d), Signals, r, {d}, {r.holder})
      BY DemoteParts DEF Someone
    <3>2. Busy(r) => Busy(r0)
      BY <1>1, <1>2 DEF Busy
    <3>3. \A e \in Devices : e # NoDevice
      BY NoDeviceAssumption
    <3> QED BY <1>1, <1>2, <1>4, <2>3, <3>1, <3>2, <3>3, Settling
  <2> QED BY <2>2, <2>4
<1> QED BY <1>3, <1>4

(* The grant to a promoted waiter, when there is one.                      *)
LEMMA PromotedParts ==
    ASSUME NEW p \in Someone, NEW r, NEW f \in Nat, ~Waits(r.queue, r.holder),
           p # NoDevice => p = r.holder /\ f = r.fence
    PROVE  /\ Part(ApplyGrant(p, f), MicCalls, r, {p}, {})
           /\ Part(ApplyGrant(p, f), Signals, r, {p}, {})
<1>1. CASE p = NoDevice
  <2>1. ApplyGrant(p, f) = << >> /\ \A e \in Devices : e \notin {} /\ e \notin {p}
    BY <1>1, NoDeviceAssumption DEF ApplyGrant
  <2> QED BY <2>1, NoCalls DEF Part
<1>2. CASE p # NoDevice
  BY <1>2, GrantParts DEF Someone
<1> QED BY <1>1, <1>2

(* Service.Release: the speaker is muted and the next one hears of it.     *)
LEMMA ReleaseSettles ==
    ASSUME NEW r0, SoundRoom(r0), NEW d \in Devices,
           NEW m, NEW t, NEW u, NEW v, NEW x, Settled(<< >>, r0, m, t, u, x), u \subseteq v,
           Unnamed(r0, LuaRelease(r0, d).reply) \subseteq v
    PROVE  LET out == LuaRelease(r0, d)
           IN  Settled(AfterRelease(d, out.reply), out.room, m, t, v, x)
<1> DEFINE r == Current(r0)
           e == Evicted(r)
           n == GrantTo(Popped(e), Head(r.queue))
<1>1. /\ SoundRoom(r) /\ r.queue = r0.queue /\ d # NoDevice /\ r.queue \in Seq(Devices)
      /\ ~Waits(r.queue, r.holder)
  BY CurrentSound, NoDeviceAssumption DEF SoundRoom, RoomStates
<1>2. /\ r.holder # NoDevice => r = r0
      /\ r.holder = NoDevice => (r0.holder # NoDevice => Lapsed(r0))
      /\ r0.holder # NoDevice => r0.holder \in Devices
  BY CurrentFloor DEF Current
<1>3. /\ SoundRoom(e) /\ e.queue = r.queue /\ e.seq \in Nat /\ e.holder = NoDevice
  <2> HIDE DEF r
  <2> QED BY <1>1, CurrentSound DEF SoundRoom, RoomStates
<1>4. \A k \in Devices : k # NoDevice
  BY NoDeviceAssumption
<1>5. \A k : /\ Part(<<Call("deny", d, 0)>>, Signals, k, {}, {})
             /\ d # k.holder => Part(<<Call("deny", d, 0)>>, MicCalls, k, {d}, {})
  <2> DEFINE c == Call("deny", d, 0)
  <2>1. c \in Calls /\ c.do = "deny" /\ c.dev = d
    BY SingleCalls
  <2>2. /\ c.do \in MicCalls /\ c.do \notin Signals
        /\ c.do \notin {"sweep", "llen", "srem"}
        /\ \A k : d # k.holder => Fits(k, c)
    BY <2>1 DEF MicCalls, Signals, Fits
  <2> HIDE DEF c
  <2>3. \A k : /\ Part(<<c>>, Signals, k, {}, {})
               /\ d # k.holder => Part(<<c>>, MicCalls, k, {d}, {})
    BY <2>1, <2>2, OneCall
  <2> QED BY <2>3 DEF c
<1>6. CASE r.holder # d
  <2> DEFINE b == Reply("noop", 0, 0, NoDevice, NoDevice)
  <2>1. LuaRelease(r0, d) = Outcome(r, b)
    BY <1>6 DEF LuaRelease
  <2>2. /\ AfterRelease(d, b) = << >> /\ LuaRelease(r0, d).room = r
        /\ LuaRelease(r0, d).reply = b /\ b.demoted = NoDevice
    BY <2>1 DEF Outcome, AfterRelease, Reply
  <2>3. r.holder = NoDevice /\ r0.holder # NoDevice => r0.holder \in v
    BY <1>2, <2>2 DEF Unnamed
  <2>4. Part(<< >>, MicCalls, r, {}, {}) /\ Part(<< >>, Signals, r, {}, {})
    BY NoCalls
  <2> HIDE DEF b, r
  <2>5. Busy(r) => Busy(r0)
    BY <1>1, <1>2 DEF Busy
  <2>6. Settled(<< >>, r, m, t, v, x)
    BY <1>1, <1>2, <1>4, <2>3, <2>4, <2>5, Settling
  <2> QED BY <2>2, <2>6
<1>7. CASE r.holder = d /\ r.queue = << >>
  <2> DEFINE b == Reply("released", 0, 0, NoDevice, NoDevice)
             c == <<Call("deny", d, 0)>>
  <2>1. LuaRelease(r0, d) = Outcome(e, b)
    BY <1>7 DEF LuaRelease
  <2>2. /\ AfterRelease(d, b) = c \o << >> /\ LuaRelease(r0, d).room = e
        /\ LuaRelease(r0, d).reply = b
    BY <2>1 DEF Outcome, AfterRelease, Reply, ApplyGrant
  <2> HIDE DEF b, c, e
  <2>3. Part(c, MicCalls, e, {d}, {}) /\ Part(c, Signals, e, {}, {})
    BY <1>1, <1>3, <1>5 DEF c
  <2>4. /\ Part(c \o << >>, MicCalls, e, {d} \cup {}, ({} \ {}) \cup {})
        /\ Part(c \o << >>, Signals, e, {} \cup {}, ({} \ {}) \cup {})
    BY <2>3, NoCalls, JoinParts
  <2>5. /\ Part(c \o << >>, MicCalls, e, {d}, {})
        /\ Part(c \o << >>, Signals, e, {}, {})
    BY <2>4 DEF Part
  <2> HIDE DEF r
  <2>6. r = r0
    BY <1>1, <1>2, <1>7
  <2>7. Busy(e) => Busy(r0)
    BY <1>3, <1>7 DEF Busy
  <2>8. Settled(c \o << >>, e, m, t, v, x)
    BY <1>3, <1>4, <1>7, <2>5, <2>6, <2>7, Settling
  <2> QED BY <2>2, <2>8
<1>8. CASE r.holder = d /\ r.queue # << >>
  <2> DEFINE p == Head(r.queue)
             b == Reply("released", n.fence, 0, p, NoDevice)
             c == <<Call("deny", d, 0)>>
             g == ApplyGrant(p, n.fence)
  <2>1. /\ SoundRoom(n) /\ n.holder = p /\ p \in Devices
        /\ n.queue = Tail(r.queue) /\ n.fence = e.seq + 1
    <3> HIDE DEF r, e
    <3> QED BY <1>3, <1>8, PromoteSound
  <2>2. LuaRelease(r0, d) = Outcome(n, b)
    BY <1>8 DEF LuaRelease
  <2>3. /\ AfterRelease(d, b) = c \o g /\ LuaRelease(r0, d).room = n
        /\ LuaRelease(r0, d).reply = b
    BY <2>2 DEF Outcome, AfterRelease, Reply
  <2>4. p # d /\ \A k : k # p => (Waits(Tail(r.queue), k) <=> Waits(r.queue, k))
    <3>1. p = r.queue[1] /\ 1 \in 1..Len(r.queue)
      BY <1>1, <1>8
    <3>2. p # d
      BY <1>1, <1>8, <3>1 DEF Waits
    <3> QED BY <1>1, <1>8, <3>2, TailWaits
  <2> HIDE DEF b, c, e, n, p, r
  <2>5. p \in Someone /\ n.fence \in Nat /\ ~Waits(n.queue, n.holder)
    BY <1>3, <2>1 DEF SoundRoom, Someone
  <2>6. /\ Part(g, MicCalls, n, {p}, {}) /\ Part(g, Signals, n, {p}, {})
    BY <2>1, <2>5, PromotedParts
  <2>7. Part(c, MicCalls, n, {d}, {}) /\ Part(c, Signals, n, {}, {})
    BY <1>5, <2>1, <2>4 DEF c
  <2> HIDE DEF g
  <2>8. /\ Part(c \o g, MicCalls, n, {d} \cup {p}, ({} \ {p}) \cup {})
        /\ Part(c \o g, Signals, n, {} \cup {p}, ({} \ {p}) \cup {})
    BY <2>6, <2>7, JoinParts
  <2>9. /\ Part(c \o g, MicCalls, n, {d, p}, {})
        /\ Part(c \o g, Signals, n, {p}, {})
    BY <2>8 DEF Part
  <2>10. r = r0
    BY <1>1, <1>2, <1>8
  <2>11. Busy(r0)
    BY <1>1, <1>8, <2>10 DEF Busy
  <2>12. Settled(c \o g, n, m, t, v, x)
    BY <1>8, <2>1, <2>4, <2>9, <2>10, <2>11, Settling
  <2> QED BY <2>3, <2>12
<1> QED BY <1>6, <1>7, <1>8

(* Service.SweepAll: the demoted and the promoted hear of it.              *)
LEMMA SweepSettles ==
    ASSUME NEW r0, SoundRoom(r0),
           NEW m, NEW t, NEW u, NEW v, NEW x, Settled(<< >>, r0, m, t, u, x), u \subseteq v
    PROVE  LET out == LuaSweep(r0)
           IN  Settled(AfterSweep(out.reply), out.room, m, t, v, x)
<1> DEFINE r   == Current(r0)
           dem == Demoted(r0)
           n   == GrantTo(Popped(r), Head(r.queue))
<1>1. /\ SoundRoom(r) /\ r.queue = r0.queue /\ r.queue \in Seq(Devices)
      /\ r.seq \in Nat /\ dem \in Someone /\ ~Waits(r.queue, r.holder)
  BY CurrentSound DEF SoundRoom, RoomStates
<1>2. /\ r.holder # NoDevice => r = r0 /\ dem = NoDevice
      /\ r.holder = NoDevice => dem = r0.holder
      /\ r0.holder # NoDevice => r0.holder \in Devices
  BY CurrentFloor
<1>3. /\ \A k \in Devices : k # NoDevice
      /\ NoDevice \in Someone /\ 0 \in Nat
  BY NoDeviceAssumption DEF Someone
<1> HIDE DEF r, dem
<1>4. ASSUME NEW k, NEW p \in Someone, NEW f \in Nat, NEW b, b.promoted = p, b.fence = f,
             b.demoted = dem, ~Waits(k.queue, k.holder), p # NoDevice => p = k.holder /\ f = k.fence
      PROVE  /\ Part(AfterSweep(b), MicCalls, k, {dem, p}, {k.holder} \ {p})
             /\ Part(AfterSweep(b), Signals, k, {dem, p}, {k.holder} \ {p})
  <2> DEFINE c == IF p = NoDevice THEN <<Call("exists", NoDevice, 0)>> ELSE << >>
             g == ApplyGrant(p, f)
             h == ApplyDemote(dem)
  <2>1. AfterSweep(b) = (c \o h) \o g
    BY <1>4 DEF AfterSweep
  <2>2. Part(c, MicCalls, k, {}, {}) /\ Part(c, Signals, k, {}, {})
    <3> DEFINE y == Call("exists", NoDevice, 0)
    <3>1. y \in Calls /\ y.do = "exists"
      BY SingleCalls
    <3>2. y.do \notin MicCalls /\ y.do \notin Signals /\ y.do \notin {"sweep", "llen", "srem"}
      BY <3>1 DEF MicCalls, Signals
    <3> HIDE DEF y
    <3>3. Part(<<y>>, MicCalls, k, {}, {}) /\ Part(<<y>>, Signals, k, {}, {})
      BY <3>1, <3>2, OneCall
    <3>4. c = <<y>> \/ c = << >>
      BY DEF y
    <3> HIDE DEF c
    <3> QED BY <3>3, <3>4, NoCalls
  <2>3. /\ Part(h, MicCalls, k, {dem}, {k.holder}) /\ Part(h, Signals, k, {dem}, {k.holder})
    BY <1>1, DemoteParts
  <2>4. /\ Part(g, MicCalls, k, {p}, {}) /\ Part(g, Signals, k, {p}, {})
    BY <1>4, PromotedParts
  <2> HIDE DEF c, g, h
  <2>5. /\ Part(c \o h, MicCalls, k, {} \cup {dem}, ({} \ {dem}) \cup {k.holder})
        /\ Part(c \o h, Signals, k, {} \cup {dem}, ({} \ {dem}) \cup {k.holder})
    BY <2>2, <2>3, JoinParts
  <2> DEFINE ch == c \o h
  <2>6. Part(ch, MicCalls, k, {dem}, {k.holder}) /\ Part(ch, Signals, k, {dem}, {k.holder})
    BY <2>5 DEF Part
  <2> HIDE DEF ch
  <2>7. /\ Part(ch \o g, MicCalls, k, {dem} \cup {p}, ({k.holder} \ {p}) \cup {})
        /\ Part(ch \o g, Signals, k, {dem} \cup {p}, ({k.holder} \ {p}) \cup {})
    BY <2>4, <2>6, JoinParts
  <2> QED BY <2>1, <2>7 DEF Part, ch
<1>5. CASE r.holder = NoDevice /\ r.queue # << >>
  <2> DEFINE p == Head(r.queue)
             b == Reply("swept", n.fence, 0, p, dem)
  <2>1. /\ SoundRoom(n) /\ n.holder = p /\ p \in Devices /\ n.queue = Tail(r.queue)
        /\ n.fence = r.seq + 1
    BY <1>1, <1>5, PromoteSound
  <2>2. LuaSweep(r0) = Outcome(n, b)
    BY <1>5 DEF LuaSweep, r, dem
  <2>3. /\ LuaSweep(r0).room = n /\ LuaSweep(r0).reply = b /\ b.promoted = p
        /\ b.fence = n.fence /\ b.demoted = dem
    BY <2>2 DEF Outcome, Reply
  <2>4. \A k : k # p => (Waits(Tail(r.queue), k) <=> Waits(r.queue, k))
    BY <1>1, <1>5, TailWaits
  <2> HIDE DEF b, n, p
  <2>5. p \in Someone /\ n.fence \in Nat /\ ~Waits(n.queue, n.holder)
    BY <1>1, <2>1 DEF SoundRoom, Someone
  <2>6. /\ Part(AfterSweep(b), MicCalls, n, {dem, p}, {n.holder} \ {p})
        /\ Part(AfterSweep(b), Signals, n, {dem, p}, {n.holder} \ {p})
    BY <1>4, <2>1, <2>3, <2>5
  <2>7. Busy(r0)
    BY <1>1, <1>5 DEF Busy
  <2>8. Settled(AfterSweep(b), n, m, t, v, x)
    BY <1>1, <1>2, <1>5, <2>1, <2>4, <2>6, <2>7, Settling
  <2> QED BY <2>3, <2>8
<1>6. CASE ~(r.holder = NoDevice /\ r.queue # << >>)
  <2> DEFINE b == Reply("swept", 0, 0, NoDevice, dem)
  <2>1. LuaSweep(r0) = Outcome(r, b)
    BY <1>6 DEF LuaSweep, r, dem
  <2>2. /\ LuaSweep(r0).room = r /\ LuaSweep(r0).reply = b /\ b.promoted = NoDevice
        /\ b.fence = 0 /\ b.demoted = dem
    BY <2>1 DEF Outcome, Reply
  <2> HIDE DEF b
  <2>3. /\ Part(AfterSweep(b), MicCalls, r, {dem, NoDevice}, {r.holder} \ {NoDevice})
        /\ Part(AfterSweep(b), Signals, r, {dem, NoDevice}, {r.holder} \ {NoDevice})
    BY <1>1, <1>3, <1>4, <2>2
  <2>4. Busy(r) => Busy(r0)
    BY <1>1, <1>2 DEF Busy
  <2>5. Settled(AfterSweep(b), r, m, t, v, x)
    BY <1>1, <1>2, <1>3, <2>3, <2>4, Settling
  <2> QED BY <2>2, <2>5
<1> QED BY <1>5, <1>6

-----------------------------------------------------------------------------
(* The next call is made, and what is left still settles the rest.         *)
LEMMA DropCall ==
    ASSUME NEW q \in Seq(Calls), q # << >>, NEW K, NEW d, NEW r
    PROVE  /\ Ends(q, K, d, r) =>
                 \/ Ends(Tail(q), K, d, r)
                 \/ Never(Tail(q), K, d) /\ On(Head(q), K, d) /\ Fits(r, Head(q))
           /\ Never(q, K, d) => Never(Tail(q), K, d) /\ ~On(Head(q), K, d)
<1>1. Head(q) = q[1] /\ 1 \in 1..Len(q) /\ Tail(q) \in Seq(Calls)
      /\ Len(Tail(q)) = Len(q) - 1
      /\ \A i \in 1..Len(q) - 1 : Tail(q)[i] = q[i + 1] /\ i + 1 \in 1..Len(q)
  OBVIOUS
<1>2. ASSUME Ends(q, K, d, r)
      PROVE  \/ Ends(Tail(q), K, d, r)
             \/ Never(Tail(q), K, d) /\ On(Head(q), K, d) /\ Fits(r, Head(q))
  <2>1. PICK i \in 1..Len(q) : /\ On(q[i], K, d) /\ Fits(r, q[i])
                               /\ \A j \in 1..Len(q) : j > i => ~On(q[j], K, d)
    BY <1>2 DEF Ends
  <2>2. CASE i = 1
    <3>1. \A j \in 1..Len(q) - 1 : ~On(Tail(q)[j], K, d)
      BY <1>1, <2>1, <2>2
    <3> QED BY <1>1, <2>1, <2>2, <3>1 DEF Never
  <2>3. CASE i # 1
    <3>1. i - 1 \in 1..Len(q) - 1 /\ Tail(q)[i - 1] = q[i]
      BY <1>1, <2>3
    <3>2. ASSUME NEW j \in 1..Len(q) - 1, j > i - 1 PROVE ~On(Tail(q)[j], K, d)
      <4>1. j + 1 \in 1..Len(q) /\ j + 1 > i /\ Tail(q)[j] = q[j + 1]
        BY <1>1, <3>2
      <4> QED BY <2>1, <4>1
    <3> QED BY <1>1, <2>1, <3>1, <3>2 DEF Ends
  <2> QED BY <2>2, <2>3
<1>3. Never(q, K, d) => Never(Tail(q), K, d) /\ ~On(Head(q), K, d)
  BY <1>1 DEF Never
<1> QED BY <1>2, <1>3

LEMMA NothingLeft ==
    ASSUME NEW T, NEW z \in Seq(T), Len(z) = 0
    PROVE  z = << >>
  OBVIOUS

LEMMA CallSettles ==
    ASSUME NEW q \in Seq(Calls), q # << >>, NEW r,
           NEW m, NEW t, NEW u, NEW x, NEW m2, NEW t2, NEW u2, NEW x2,
           Settled(q, r, m, t, u, x),
           \A d \in Devices : IF On(Head(q), MicCalls, d)
                              THEN /\ Head(q).do = "allow" => m2[d] = Head(q).fence
                                   /\ Head(q).do = "deny" => m2[d] = 0
                              ELSE m2[d] = m[d] /\ (d \in u => d \in u2),
           \A d \in Devices : IF On(Head(q), Signals, d)
                              THEN t2[d] = Head(q).do
                              ELSE t2[d] = t[d],
           Head(q).do = "sadd" => x2,
           x /\ ~x2 => Head(q).do = "srem"
    PROVE  Settled(Tail(q), r, m2, t2, u2, x2)
<1> DEFINE c == Head(q)
<1>1. c = q[1] /\ 1 \in 1..Len(q) /\ Tail(q) \in Seq(Calls)
      /\ Len(Tail(q)) = Len(q) - 1
      /\ \A i \in 1..Len(q) - 1 : Tail(q)[i] = q[i + 1] /\ i + 1 \in 1..Len(q)
  OBVIOUS
<1>2. ASSUME NEW d \in Devices
      PROVE  \/ Ends(Tail(q), MicCalls, d, r)
             \/ Never(Tail(q), MicCalls, d) /\ MicFits(r, u2, d, m2[d])
  <2>1. CASE Never(q, MicCalls, d) /\ MicFits(r, u, d, m[d])
    <3>1. Never(Tail(q), MicCalls, d) /\ m2[d] = m[d] /\ (d \in u => d \in u2)
      BY <2>1, DropCall
    <3> QED BY <2>1, <3>1 DEF MicFits
  <2>2. CASE Never(Tail(q), MicCalls, d) /\ On(c, MicCalls, d) /\ Fits(r, c)
    <3>1. c.dev = d /\ c.do \in {"allow", "deny"}
      BY <2>2 DEF On, MicCalls
    <3>2. CASE c.do = "allow"
      BY <2>2, <3>1, <3>2 DEF Fits, MicFits
    <3>3. CASE c.do = "deny"
      BY <2>2, <3>1, <3>3 DEF Fits, MicFits
    <3> QED BY <3>1, <3>2, <3>3
  <2> QED BY <2>1, <2>2, DropCall DEF Settled
<1>3. ASSUME NEW d \in Devices
      PROVE  \/ Ends(Tail(q), Signals, d, r)
             \/ Never(Tail(q), Signals, d) /\ TellFits(r, d, t2[d])
  <2>1. CASE Never(q, Signals, d) /\ TellFits(r, d, t[d])
    <3>1. Never(Tail(q), Signals, d) /\ t2[d] = t[d]
      BY <2>1, DropCall
    <3> QED BY <2>1, <3>1
  <2>2. CASE Never(Tail(q), Signals, d) /\ On(c, Signals, d) /\ Fits(r, c)
    BY <2>2 DEF On, Fits
  <2> QED BY <2>1, <2>2, DropCall DEF Settled
<1>4. Busy(r) => x2 \/ \E i \in 1..Len(Tail(q)) : Tail(q)[i].do = "sadd"
  <2> SUFFICES ASSUME Busy(r), ~x2
               PROVE  \E i \in 1..Len(Tail(q)) : Tail(q)[i].do = "sadd"
    OBVIOUS
  <2>1. c.do # "srem" /\ c.do # "sadd"
    BY <1>1 DEF Settled, KeyFits
  <2>2. PICK i \in 1..Len(q) : q[i].do = "sadd"
    BY <2>1 DEF Settled
  <2>3. i - 1 \in 1..Len(q) - 1 /\ Tail(q)[i - 1] = q[(i - 1) + 1] /\ (i - 1) + 1 = i
    BY <1>1, <2>1, <2>2
  <2> QED BY <1>1, <2>2, <2>3
<1>5. ASSUME NEW i \in 1..Len(Tail(q)) PROVE KeyFits(Tail(q), r, Tail(q)[i].do)
  <2>1. Tail(q)[i] = q[i + 1] /\ i + 1 \in 1..Len(q)
    BY <1>1
  <2>2. KeyFits(q, r, q[i + 1].do) /\ Len(q) # 1
    BY <1>1, <2>1 DEF Settled
  <2> QED BY <2>1, <2>2 DEF KeyFits
<1> QED BY <1>2, <1>3, <1>4, <1>5 DEF Settled

(* A call on the keys of the room is put in front.                         *)
LEMMA PrependSettles ==
    ASSUME NEW p \in Seq(Calls), NEW y \in Calls, NEW r,
           NEW m, NEW t, NEW u, NEW x, Settled(p, r, m, t, u, x),
           y.do \notin MicCalls, y.do \notin Signals, KeyFits(<<y>> \o p, r, y.do),
           \A i \in 1..Len(p) : p[i].do # "sweep"
    PROVE  Settled(<<y>> \o p, r, m, t, u, x) /\ <<y>> \o p \in Seq(Calls)
<1> DEFINE q == <<y>> \o p
<1>1. /\ <<y>> \in Seq(Calls) /\ Len(<<y>>) = 1 /\ <<y>>[1] = y
      /\ q \in Seq(Calls) /\ Len(q) = Len(p) + 1 /\ q[1] = y
      /\ \A i \in 1..Len(p) : q[i + 1] = p[i] /\ i + 1 \in 1..Len(q)
  OBVIOUS
<1>2. \A d : Never(<<y>>, MicCalls, d) /\ Never(<<y>>, Signals, d)
  BY <1>1 DEF Never, On
<1>3. \A d \in Devices :
         Ends(q, MicCalls, d, r) \/ (Never(q, MicCalls, d) /\ MicFits(r, u, d, m[d]))
  BY <1>1, <1>2, JoinEnds, JoinNever DEF Settled
<1>4. \A d \in Devices :
         Ends(q, Signals, d, r) \/ (Never(q, Signals, d) /\ TellFits(r, d, t[d]))
  BY <1>1, <1>2, JoinEnds, JoinNever DEF Settled
<1>5. Busy(r) => x \/ \E i \in 1..Len(q) : q[i].do = "sadd"
  BY <1>1 DEF Settled
<1>6. ASSUME NEW i \in 1..Len(q) PROVE KeyFits(q, r, q[i].do)
  <2>1. CASE i = 1
    BY <1>1, <2>1
  <2>2. CASE i # 1
    <3>1. i - 1 \in 1..Len(p) /\ q[(i - 1) + 1] = p[i - 1] /\ (i - 1) + 1 = i
      BY <1>1, <2>2
    <3> QED BY <3>1 DEF Settled, KeyFits
  <2> QED BY <2>1, <2>2
<1> QED BY <1>1, <1>3, <1>4, <1>5, <1>6 DEF Settled

(* Only the holder, the fence and the queue of the room count.             *)
LEMMA SameFloor ==
    ASSUME NEW q, NEW r, NEW n, NEW m, NEW t, NEW u, NEW x,
           n.holder = r.holder, n.fence = r.fence, n.queue = r.queue,
           Settled(q, r, m, t, u, x)
    PROVE  Settled(q, n, m, t, u, x)
<1>1. \A d, f : TellFits(n, d, f) <=> TellFits(r, d, f)
  BY DEF TellFits
<1>2. \A c : Fits(n, c) <=> Fits(r, c)
  BY <1>1 DEF Fits
<1>3. \A K, d : Ends(q, K, d, n) <=> Ends(q, K, d, r)
  BY <1>2 DEF Ends
<1>4. \A d, w : MicFits(n, u, d, w) <=> MicFits(r, u, d, w)
  BY DEF MicFits
<1>5. /\ Busy(n) <=> Busy(r)
      /\ \A do : KeyFits(q, n, do) <=> KeyFits(q, r, do)
  BY DEF Busy, KeyFits
<1> QED BY <1>1, <1>3, <1>4, <1>5 DEF Settled

-----------------------------------------------------------------------------
LEMMA InitSettles == Init => OneSettles
<1> SUFFICES ASSUME Init PROVE Quiet /\ SettledAfter(<< >>)
  BY DEF OneSettles
<1>1. Quiet /\ Len(<< >>) = 0
  BY DEF Init, Quiet, Idle
<1>2. /\ room.holder = NoDevice /\ room.queue = << >>
      /\ \A d \in Devices : mic[d] = 0 /\ told[d] = "revoke" /\ d # NoDevice
  BY NoDeviceAssumption DEF Init, Free
<1>3. \A d \in Devices : ~Waits(room.queue, d)
  <2>1. \A d : ~Waits(<< >>, d)
    BY DEF Waits
  <2> QED BY <1>2, <2>1
<1>4. \A d \in Devices : MicFits(room, unmuted, d, mic[d]) /\ TellFits(room, d, told[d])
  BY <1>2, <1>3 DEF MicFits, TellFits
<1> QED BY <1>1, <1>2, <1>4 DEF SettledAfter, Settled, Never, Busy

(* A handler starts when nobody runs: its calls settle what it changed.    *)
LEMMA StartSettles ==
    ASSUME IInv, Quiet, SettledAfter(<< >>), NEW s \in Slots, Request(s) \/ SweepAll(s)
    PROVE  SettledAfter(job[s])'
<1>0. SoundRoom(room) /\ job \in [Slots -> Seq(Calls)]
  BY DEF IInv, TypeOK
<1>1. ASSUME NEW d \in Devices, NEW out, NEW calls, Ran(s, out, calls),
             Settled(calls, out.room, mic, told, unmuted', indexed)
      PROVE  SettledAfter(job[s])'
  <2>1. /\ room' = out.room /\ job'[s] = calls /\ mic' = mic /\ told' = told
        /\ indexed' = indexed
    BY <1>0, <1>1 DEF Ran
  <2> QED BY <1>1, <2>1 DEF SettledAfter
<1>2. ASSUME NEW out, NEW calls, Ran(s, out, calls)
      PROVE  unmuted \subseteq unmuted' /\ Unnamed(room, out.reply) \subseteq unmuted'
  BY <1>2 DEF Ran
<1>3. ASSUME Request(s) PROVE SettledAfter(job[s])'
  <2>1. PICK d \in Devices : Acquire(s, d) \/ Heartbeat(s, d) \/ Release(s, d)
    BY <1>3 DEF Request
  <2>2. CASE Acquire(s, d)
    <3> DEFINE out == LuaAcquire(room, d)
               calls == AfterAcquire(d, out.reply)
    <3>1. Ran(s, out, calls)
      BY <2>2 DEF Acquire
    <3>2. Settled(calls, out.room, mic, told, unmuted', indexed)
      BY <1>0, <1>2, <3>1, AcquireSettles DEF SettledAfter
    <3> QED BY <1>1, <3>1, <3>2
  <2>3. CASE Heartbeat(s, d)
    <3> DEFINE out == LuaHeartbeat(room, d)
               calls == AfterHeartbeat(d, out.reply)
    <3>1. Ran(s, out, calls)
      BY <2>3 DEF Heartbeat
    <3>2. Settled(calls, out.room, mic, told, unmuted', indexed)
      BY <1>0, <1>2, <3>1, HeartbeatSettles DEF SettledAfter
    <3> QED BY <1>1, <3>1, <3>2
  <2>4. CASE Release(s, d)
    <3> DEFINE out == LuaRelease(room, d)
               calls == AfterRelease(d, out.reply)
    <3>1. Ran(s, out, calls)
      BY <2>4 DEF Release
    <3>2. Settled(calls, out.room, mic, told, unmuted', indexed)
      BY <1>0, <1>2, <3>1, ReleaseSettles DEF SettledAfter
    <3> QED BY <1>1, <3>1, <3>2
  <2> QED BY <2>1, <2>2, <2>3, <2>4
<1>4. ASSUME SweepAll(s) PROVE SettledAfter(job[s])'
  <2> DEFINE y == Call("sweep", NoDevice, 0)
  <2>1. y \in Calls /\ y.do = "sweep"
    BY SingleCalls
  <2>2. y.do \notin MicCalls /\ y.do \notin Signals
    BY <2>1 DEF MicCalls, Signals
  <2>3. /\ job'[s] = <<y>> /\ room' = room /\ mic' = mic /\ told' = told
        /\ unmuted' = unmuted /\ indexed' = indexed
    BY <1>0, <1>4 DEF SweepAll
  <2> HIDE DEF y
  <2>4. << >> \in Seq(Calls) /\ Len(<< >>) = 0 /\ <<y>> \o << >> = <<y>> /\ Len(<<y>>) = 1
    BY <2>1
  <2>5. KeyFits(<<y>> \o << >>, room, y.do)
    BY <2>1, <2>4 DEF KeyFits
  <2>6. Settled(<< >>, room, mic, told, unmuted, indexed)
        /\ \A i \in 1..Len(<< >>) : << >>[i].do # "sweep"
    BY <2>4 DEF SettledAfter
  <2>7. Settled(<<y>> \o << >>, room, mic, told, unmuted, indexed)
    BY <2>1, <2>2, <2>4, <2>5, <2>6, PrependSettles
  <2> QED BY <2>3, <2>4, <2>7 DEF SettledAfter
<1> QED BY <1>3, <1>4

(* The handler that runs makes its next call.                              *)
LEMMA EffectSettles ==
    ASSUME IInv, NEW s \in Slots, SettledAfter(job[s]), Effect(s), faults' = 0, faults = 0
    PROVE  SettledAfter(job[s])' /\ job[s] # << >>
<1> DEFINE q == job[s]
           c == Head(q)
<1>0. SoundRoom(room) /\ job \in [Slots -> Seq(Calls)] /\ q \in Seq(Calls)
  BY DEF IInv, TypeOK
<1>1. q # << >>
  BY DEF Effect, Sweep, Index, CheckFloor, CheckQueue, Unindex, AllowPublish,
         DenyPublish, Signal, Doing
<1>2. c \in Calls /\ c = q[1] /\ 1 \in 1..Len(q) /\ Tail(q) \in Seq(Calls)
  BY <1>0, <1>1, RestOfJob
<1>3. /\ mic \in [Devices -> Nat] /\ told \in [Devices -> Signals] /\ indexed \in BOOLEAN
  BY DEF IInv, TypeOK
<1>4. KeyFits(q, room, c.do) /\ ~Fault
  BY <1>2 DEF SettledAfter, Settled, Fault
<1>5. ASSUME Done(s), room' = room,
             \A d \in Devices : IF On(c, MicCalls, d)
                                THEN /\ c.do = "allow" => mic'[d] = c.fence
                                     /\ c.do = "deny" => mic'[d] = 0
                                ELSE mic'[d] = mic[d] /\ (d \in unmuted => d \in unmuted'),
             \A d \in Devices : IF On(c, Signals, d)
                                THEN told'[d] = c.do
                                ELSE told'[d] = told[d],
             c.do = "sadd" => indexed',
             indexed /\ ~indexed' => c.do = "srem"
      PROVE  SettledAfter(job[s])'
  <2>1. job'[s] = Tail(q)
    BY <1>0, <1>5 DEF Done
  <2>2. Settled(Tail(q), room, mic', told', unmuted', indexed')
    BY <1>0, <1>1, <1>5, CallSettles DEF SettledAfter
  <2> QED BY <1>5, <2>1, <2>2 DEF SettledAfter
<1>6. \A d : /\ c.do \notin MicCalls => ~On(c, MicCalls, d)
             /\ c.do \notin Signals => ~On(c, Signals, d)
  BY DEF On
<1>7. ASSUME Sweep(s) PROVE SettledAfter(job[s])'
  <2> DEFINE out == LuaSweep(room)
             calls == AfterSweep(out.reply)
  <2>1. Ran(s, out, calls) /\ c.do = "sweep"
    BY <1>7 DEF Sweep, Doing
  <2>2. Len(q) = 1 /\ c.do \notin MicCalls /\ c.do \notin Signals
    BY <1>4, <2>1 DEF KeyFits, MicCalls, Signals
  <2>3. Tail(q) = << >>
    <3>1. Len(Tail(q)) = 0 /\ Tail(q) \in Seq(Calls)
      BY <1>0, <1>1, <2>2
    <3> QED BY <3>1, NothingLeft
  <2>4. Settled(Tail(q), room, mic, told, unmuted, indexed)
    BY <1>0, <1>1, <1>6, <2>1, <2>2, CallSettles DEF SettledAfter
  <2>5. unmuted \subseteq unmuted'
    BY <2>1 DEF Ran
  <2>6. Settled(calls, out.room, mic, told, unmuted', indexed)
    BY <1>0, <2>3, <2>4, <2>5, SweepSettles
  <2>7. /\ room' = out.room /\ job'[s] = calls /\ mic' = mic /\ told' = told
        /\ indexed' = indexed
    BY <1>0, <2>1 DEF Ran
  <2> QED BY <2>6, <2>7 DEF SettledAfter
<1>8. ASSUME Index(s) PROVE SettledAfter(job[s])'
  <2>1. c.do = "sadd" /\ Done(s) /\ indexed' = TRUE
        /\ room' = room /\ mic' = mic /\ told' = told /\ unmuted' = unmuted
    BY <1>8 DEF Index, Doing
  <2>2. c.do \notin MicCalls /\ c.do \notin Signals
    BY <2>1 DEF MicCalls, Signals
  <2> HIDE DEF c
  <2> QED BY <1>5, <1>6, <2>1, <2>2
<1>9. ASSUME Unindex(s) PROVE SettledAfter(job[s])'
  <2>1. c.do = "srem" /\ Done(s)
        /\ room' = room /\ mic' = mic /\ told' = told /\ unmuted' = unmuted
    BY <1>9 DEF Unindex, Doing
  <2>2. c.do \notin MicCalls /\ c.do \notin Signals
    BY <2>1 DEF MicCalls, Signals
  <2> HIDE DEF c
  <2> QED BY <1>5, <1>6, <2>1, <2>2
<1>10. ASSUME AllowPublish(s) PROVE SettledAfter(job[s])'
  <2>1. c.do = "allow" /\ Done(s) /\ indexed' = indexed
        /\ room' = room /\ told' = told /\ unmuted' = unmuted
        /\ mic' = [mic EXCEPT ![c.dev] = c.fence]
    BY <1>10 DEF AllowPublish, Doing
  <2>2. c.do \in MicCalls /\ c.do \notin Signals
    BY <2>1 DEF MicCalls, Signals
  <2>3. \A d \in Devices : mic'[d] = IF c.dev = d THEN c.fence ELSE mic[d]
    BY <1>3, <2>1
  <2> HIDE DEF c
  <2>4. \A d \in Devices : On(c, MicCalls, d) <=> c.dev = d
    BY <2>2 DEF On
  <2> QED BY <1>5, <1>6, <2>1, <2>2, <2>3, <2>4
<1>11. ASSUME DenyPublish(s) PROVE SettledAfter(job[s])'
  <2>1. c.do = "deny" /\ Done(s) /\ indexed' = indexed
        /\ room' = room /\ told' = told /\ unmuted' = unmuted \ {c.dev}
        /\ mic' = [mic EXCEPT ![c.dev] = 0]
    BY <1>11 DEF DenyPublish, Doing
  <2>2. c.do \in MicCalls /\ c.do \notin Signals
    BY <2>1 DEF MicCalls, Signals
  <2>3. \A d \in Devices : mic'[d] = IF c.dev = d THEN 0 ELSE mic[d]
    BY <1>3, <2>1
  <2> HIDE DEF c
  <2>4. \A d \in Devices : On(c, MicCalls, d) <=> c.dev = d
    BY <2>2 DEF On
  <2> QED BY <1>5, <1>6, <2>1, <2>2, <2>3, <2>4
<1>12. ASSUME Signal(s) PROVE SettledAfter(job[s])'
  <2>1. PICK f \in Signals : Doing(s, f) /\ told' = [told EXCEPT ![c.dev] = f]
    BY <1>12 DEF Signal
  <2>2. c.do = f /\ Done(s) /\ indexed' = indexed
        /\ room' = room /\ mic' = mic /\ unmuted' = unmuted
    BY <1>12, <2>1 DEF Signal, Doing
  <2>3. c.do \notin MicCalls /\ c.do \in Signals /\ c.do # "sadd"
    BY <2>2 DEF MicCalls, Signals
  <2>4. \A d \in Devices : told'[d] = IF c.dev = d THEN f ELSE told[d]
    BY <1>3, <2>1
  <2> HIDE DEF c
  <2>5. \A d \in Devices : On(c, Signals, d) <=> c.dev = d
    BY <2>3 DEF On
  <2> QED BY <1>5, <1>6, <2>2, <2>3, <2>4, <2>5
<1>13. ASSUME NEW y \in Calls, y.do \in {"llen", "srem"}, KeyFits(<< >>, room, y.do),
              c.do \in {"exists", "llen"}, UNCHANGED <<room, indexed, mic, told, unmuted>>,
              job' = [job EXCEPT ![s] = <<y>> \o Tail(q)]
       PROVE  SettledAfter(job[s])'
  <2>1. /\ c.do \notin MicCalls /\ c.do \notin Signals
        /\ y.do \notin MicCalls /\ y.do \notin Signals
    BY <1>13 DEF MicCalls, Signals
  <2>2. c.do # "sadd"
    BY <1>13
  <2>3. Settled(Tail(q), room, mic, told, unmuted, indexed)
    <3> HIDE DEF c
    <3>1. Settled(q, room, mic, told, unmuted, indexed)
      BY DEF SettledAfter
    <3> QED BY <1>0, <1>1, <1>6, <2>1, <2>2, <3>1, CallSettles DEF c
  <2>4. \A i \in 1..Len(Tail(q)) : Tail(q)[i].do # "sweep"
    <3> SUFFICES ASSUME NEW i \in 1..Len(Tail(q)), Tail(q)[i].do = "sweep" PROVE FALSE
      OBVIOUS
    <3>1. Tail(q)[i] = q[i + 1] /\ i + 1 \in 1..Len(q) /\ Len(q) # 1
      BY <1>0, <1>1
    <3> QED BY <3>1 DEF SettledAfter, Settled, KeyFits
  <2>5. KeyFits(<<y>> \o Tail(q), room, y.do)
    BY <1>13 DEF KeyFits
  <2>6. Settled(<<y>> \o Tail(q), room, mic, told, unmuted, indexed)
    BY <1>2, <2>1, <2>3, <2>4, <2>5, PrependSettles
  <2>7. job'[s] = <<y>> \o Tail(q)
    BY <1>0, <1>13
  <2> QED BY <1>13, <2>6, <2>7 DEF SettledAfter
<1>14. ASSUME c.do \in {"exists", "llen"}, UNCHANGED <<room, indexed, mic, told, unmuted>>, Done(s)
       PROVE  SettledAfter(job[s])'
  <2>1. c.do \notin MicCalls /\ c.do \notin Signals /\ c.do # "sadd"
    BY <1>14 DEF MicCalls, Signals
  <2> HIDE DEF c
  <2> QED BY <1>5, <1>6, <1>14, <2>1
<1>15. ASSUME CheckFloor(s) PROVE SettledAfter(job[s])'
  <2> DEFINE y == Call("llen", NoDevice, 0)
  <2>1. c.do = "exists" /\ UNCHANGED <<room, indexed, mic, told, unmuted>>
    BY <1>15 DEF CheckFloor, Doing
  <2>2. \/ room.holder = NoDevice /\ job' = [job EXCEPT ![s] = <<y>> \o Tail(q)]
        \/ Done(s)
    BY <1>4, <1>15 DEF CheckFloor
  <2>3. y \in Calls /\ y.do = "llen"
    BY SingleCalls
  <2> HIDE DEF y, c
  <2>4. room.holder = NoDevice => KeyFits(<< >>, room, y.do)
    BY <2>3 DEF KeyFits
  <2> QED BY <1>13, <1>14, <2>1, <2>2, <2>3, <2>4
<1>16. ASSUME CheckQueue(s) PROVE SettledAfter(job[s])'
  <2> DEFINE y == Call("srem", NoDevice, 0)
  <2>1. c.do = "llen" /\ UNCHANGED <<room, indexed, mic, told, unmuted>>
    BY <1>16 DEF CheckQueue, Doing
  <2>2. \/ room.queue = << >> /\ job' = [job EXCEPT ![s] = <<y>> \o Tail(q)]
        \/ Done(s)
    BY <1>4, <1>16 DEF CheckQueue
  <2>3. y \in Calls /\ y.do = "srem"
    BY SingleCalls
  <2>4. room.holder = NoDevice
    BY <1>4, <2>1 DEF KeyFits
  <2> HIDE DEF y, c
  <2>5. room.queue = << >> => KeyFits(<< >>, room, y.do)
    BY <2>3, <2>4 DEF KeyFits, Busy
  <2> QED BY <1>13, <1>14, <2>1, <2>2, <2>3, <2>5
<1> QED BY <1>1, <1>7, <1>8, <1>9, <1>10, <1>11, <1>12, <1>15, <1>16 DEF Effect

(* Disturbances stay on record.                                            *)
LEMMA StaysDisturbed ==
    ASSUME IInv, [Next]_vars, Undisturbed'
    PROVE  /\ Undisturbed /\ ~Fault
           /\ \A s \in Slots : Request(s) \/ SweepAll(s) => Alone(s)
<1>1. faults \in Nat /\ faults' = 0 /\ ~crossed' /\ ~Fault
  BY BoundsAssumption DEF IInv, TypeOK, Undisturbed, Fault
<1>2. ASSUME NEW s \in Slots, Request(s) \/ SweepAll(s) \/ Sweep(s)
      PROVE  Undisturbed /\ Alone(s)
  BY <1>1, <1>2 DEF Request, Acquire, Heartbeat, Release, SweepAll, Sweep, Ran, Undisturbed
<1>3. ASSUME NEW s \in Slots,
             \/ Index(s) \/ CheckFloor(s) \/ CheckQueue(s) \/ Unindex(s)
             \/ AllowPublish(s) \/ DenyPublish(s) \/ Signal(s) \/ CallFails(s) \/ Crash(s)
      PROVE  Undisturbed
  BY <1>1, <1>3 DEF Index, CheckFloor, CheckQueue, Unindex, AllowPublish, DenyPublish,
                    Signal, CallFails, Crash, Undisturbed
<1>4. ASSUME ClockTick \/ KeyExpires \/ UNCHANGED vars
      PROVE  Undisturbed
  BY <1>1, <1>4 DEF ClockTick, KeyExpires, vars, Undisturbed
<1> QED BY <1>1, <1>2, <1>3, <1>4 DEF Next, Effect

LEMMA NextSettles == IInv /\ OneSettles /\ [Next]_vars => OneSettles'
<1> SUFFICES ASSUME IInv, OneSettles, [Next]_vars, Undisturbed'
             PROVE  \/ Quiet' /\ SettledAfter(<< >>)'
                    \/ \E s \in Slots : Alone(s)' /\ SettledAfter(job[s])'
  BY DEF OneSettles
<1>1. /\ Undisturbed /\ ~Fault /\ faults = 0 /\ faults' = 0
      /\ job \in [Slots -> Seq(Calls)]
  BY StaysDisturbed DEF Undisturbed, IInv, TypeOK
<1>2. \A s \in Slots : Request(s) \/ SweepAll(s) => Alone(s)
  BY StaysDisturbed
<1>4. ASSUME NEW s \in Slots, \A k \in Slots \ {s} : job'[k] = job[k], Alone(s)
      PROVE  Alone(s)'
  BY <1>4 DEF Alone, Idle
<1>5. ASSUME NEW s \in Slots, Request(s) \/ SweepAll(s)
      PROVE  Alone(s)' /\ SettledAfter(job[s])'
  <2>1. Idle(s) /\ Alone(s) /\ \A k \in Slots \ {s} : job'[k] = job[k]
    BY <1>1, <1>2, <1>5 DEF Request, Acquire, Heartbeat, Release, SweepAll, Ran
  <2>2. Quiet
    BY <2>1 DEF Quiet, Alone
  <2>3. SettledAfter(<< >>)
    BY <1>1, <2>2 DEF OneSettles, Quiet, Idle
  <2> QED BY <1>4, <1>5, <2>1, <2>2, <2>3, StartSettles
<1>6. ASSUME NEW s \in Slots, Effect(s)
      PROVE  Alone(s)' /\ SettledAfter(job[s])'
  <2>1. ~Idle(s) /\ \A k \in Slots \ {s} : job'[k] = job[k]
    BY <1>1, <1>6 DEF Effect, Sweep, Index, CheckFloor, CheckQueue, Unindex, AllowPublish,
                      DenyPublish, Signal, Doing, Done, Ran, Idle
  <2>2. Alone(s) /\ SettledAfter(job[s])
    BY <1>1, <2>1 DEF OneSettles, Quiet, Alone
  <2> QED BY <1>1, <1>4, <1>6, <2>1, <2>2, EffectSettles
<1>7. ASSUME NEW s \in Slots, CallFails(s) \/ Crash(s) PROVE FALSE
  BY <1>1, <1>7 DEF CallFails, Crash
<1>8. ASSUME KeyExpires PROVE FALSE
  BY <1>1, <1>8 DEF KeyExpires
<1>9. ASSUME ClockTick \/ UNCHANGED vars
      PROVE  \/ Quiet' /\ SettledAfter(<< >>)'
             \/ \E s \in Slots : Alone(s)' /\ SettledAfter(job[s])'
  <2>1. /\ job' = job /\ indexed' = indexed /\ mic' = mic /\ told' = told /\ unmuted' = unmuted
        /\ room'.holder = room.holder /\ room'.fence = room.fence /\ room'.queue = room.queue
    BY <1>9 DEF ClockTick, vars, IInv, TypeOK, RoomStates
  <2>2. \A q : SettledAfter(q) => Settled(q, room', mic', told', unmuted', indexed')
    BY <2>1, SameFloor DEF SettledAfter
  <2>3. CASE Quiet /\ SettledAfter(<< >>)
    BY <2>1, <2>2, <2>3 DEF SettledAfter, Quiet, Idle
  <2>4. ASSUME NEW s \in Slots, Alone(s), SettledAfter(job[s])
        PROVE  Alone(s)' /\ SettledAfter(job[s])'
    BY <2>1, <2>2, <2>4 DEF SettledAfter, Alone, Idle
  <2> QED BY <1>1, <2>3, <2>4 DEF OneSettles
<1> QED BY <1>5, <1>6, <1>7, <1>8, <1>9 DEF Next

(* service.go and ptt.go: as long as no call fails and no handler starts   *)
(* while another has calls to make, microphones, frames and sweep index    *)
(* agree with the floor between handlers, for any number of handlers.      *)
THEOREM EffectsFollowFloor == Spec => []EffectsAgree
<1>1. ASSUME OneSettles, Clean, IInv
      PROVE  /\ \A d \in Devices : MicFits(room, unmuted, d, mic[d]) /\ TellFits(room, d, told[d])
             /\ Busy(room) => indexed
  <2>1. SettledAfter(<< >>)
    BY <1>1 DEF OneSettles, Clean, Quiet, Idle
  <2>2. Len(<< >>) = 0 /\ \A K, d, k : ~Ends(<< >>, K, d, k)
    BY DEF Ends
  <2> QED BY <2>1, <2>2 DEF SettledAfter, Settled
<1>2. IInv => (room.holder # NoDevice => room.holder \in Devices)
  BY DEF IInv, TypeOK, RoomStates, Someone
<1>3. IInv /\ OneSettles => EffectsAgree
  <2> SUFFICES ASSUME IInv, OneSettles, Clean
               PROVE  EffectsAgree
    BY DEF EffectsAgree, OnlyUnnamedSpeak, FramesAgree, BusyIsIndexed
  <2>1. OnlyUnnamedSpeak
    BY <1>1 DEF OnlyUnnamedSpeak, MicFits
  <2>2. FramesAgree
    BY <1>1, <1>2 DEF FramesAgree, MicFits, TellFits
  <2>3. BusyIsIndexed
    BY <1>1 DEF BusyIsIndexed, Busy
  <2> QED BY <2>1, <2>2, <2>3 DEF EffectsAgree
<1> QED BY <1>3, InitIInv, NextKeepsIInv, InitSettles, NextSettles, PTL DEF Spec
=============================================================================
