------------------------------- MODULE Fanout -------------------------------
(***************************************************************************)
(* The fan-out of one accepted group message (fanout/fanout.go, pool.go,   *)
(* receipts.go): the job is queued, a worker expands the members' devices, *)
(* announces how many it expects, inserts inbox rows batch by batch and    *)
(* publishes them; the aggregate tick of the sender flips when the last    *)
(* device has reached the state.  The consumer that feeds the pool is      *)
(* external: it submits again while the queue is full, and may do so after *)
(* an acknowledgement it lost.                                             *)
(***************************************************************************)
EXTENDS Integers, FiniteSets

CONSTANTS Devices, Workers, QueueDepth, BatchSize, MaxSubmits, MaxFaults

VARIABLES
    active,     \* the members' active devices, the sender's own excluded
    queue,      \* jobs waiting
    submits,
    worker,     \* what each worker does
    inbox,      \* devices with an inbox row for the message
    expected,   \* AggregateStore: the expected total, 0 unset
    reached,    \* AggregateStore: the devices that reached the state
    ticks,      \* aggregate ticks emitted
    announced,  \* history: the device sets that were announced
    whole,      \* history: has a job inserted every row it announced
    failed,     \* history: has a call failed
    faults

vars == <<active, queue, submits, worker, inbox, expected, reached, ticks, announced, whole,
          failed, faults>>

Idle == [at |-> "idle"]
MaxTicks == 3  \* the count stops here

Init ==
    /\ active = Devices
    /\ queue = 0 /\ submits = 0
    /\ worker = [w \in Workers |-> Idle]
    /\ inbox = {} /\ expected = 0 /\ reached = {} /\ ticks = 0
    /\ announced = {} /\ whole = FALSE /\ failed = FALSE /\ faults = 0

Become(w, next) == worker' = [worker EXCEPT ![w] = next]

Fail ==
    /\ faults < MaxFaults
    /\ faults' = faults + 1
    /\ failed' = TRUE

(* Pool.Submit: a full queue refuses the job.                              *)
Submit ==
    /\ submits < MaxSubmits /\ queue < QueueDepth
    /\ queue' = queue + 1
    /\ submits' = submits + 1
    /\ UNCHANGED <<active, worker, inbox, expected, reached, ticks, announced, whole, failed,
                   faults>>

(* A member leaves the group or revokes a device.                          *)
DeviceGone(d) ==
    /\ d \in active
    /\ active' = active \ {d}
    /\ UNCHANGED <<queue, submits, worker, inbox, expected, reached, ticks, announced, whole,
                   failed, faults>>

(* Members and ActiveDevices.  A failure ends the job: run only logs it.   *)
Expand(w) ==
    /\ worker[w] = Idle /\ queue > 0
    /\ queue' = queue - 1
    /\ \/ /\ Become(w, [at |-> "announce", rows |-> active, todo |-> active])
          /\ UNCHANGED <<failed, faults>>
       \/ Fail /\ UNCHANGED worker
    /\ UNCHANGED <<active, submits, inbox, expected, reached, ticks, announced, whole>>

(* SetExpected; a failure is logged and the fan-out goes on.               *)
SetExpected(w) ==
    /\ worker[w].at = "announce"
    /\ Become(w, [worker[w] EXCEPT !.at = "insert"])
    /\ announced' = announced \cup {worker[w].rows}
    /\ \/ /\ expected' = IF worker[w].rows = {} THEN expected ELSE Cardinality(worker[w].rows)
          /\ UNCHANGED <<failed, faults>>
       \/ Fail /\ UNCHANGED expected
    /\ UNCHANGED <<active, queue, submits, inbox, reached, ticks, whole>>

(* Mutant of Batches: a last batch shorter than BatchSize is skipped.      *)
BatchesFull(todo) == {b \in (SUBSET todo) \ {{}} : Cardinality(b) = BatchSize}

(* The rows inserted next: BatchSize of them, or all that are left.        *)
Batches(todo) ==
    {b \in (SUBSET todo) \ {{}} :
        Cardinality(b) = IF Cardinality(todo) < BatchSize THEN Cardinality(todo) ELSE BatchSize}

(* InsertBatch, idempotent on (device, message), and the publishes, which  *)
(* may fail without consequence; a failed insert ends the job.             *)
InsertBatch(w) ==
    /\ worker[w].at = "insert"
    /\ Batches(worker[w].todo) # {}
    /\ \/ \E b \in Batches(worker[w].todo) :
            /\ inbox' = inbox \cup b
            /\ Become(w, [worker[w] EXCEPT !.todo = @ \ b])
            /\ UNCHANGED <<failed, faults>>
       \/ Fail /\ Become(w, Idle) /\ UNCHANGED inbox
    /\ UNCHANGED <<active, queue, submits, expected, reached, ticks, announced, whole>>

JobDone(w) ==
    /\ worker[w].at = "insert" /\ Batches(worker[w].todo) = {}
    /\ Become(w, Idle)
    /\ whole' = TRUE
    /\ UNCHANGED <<active, queue, submits, inbox, expected, reached, ticks, announced, failed,
                   faults>>

(* Mutant of Emits: a repeated receipt is counted again.                   *)
EmitsAgain(added, count) == expected > 0 /\ count = expected

(* OnDeviceReceipt: the call that newly brings the count to the total.     *)
Emits(added, count) == added /\ expected > 0 /\ count = expected

(* A device that holds the message reports it, once or again.              *)
OnDeviceReceipt(d) ==
    /\ d \in inbox
    /\ reached' = reached \cup {d}
    /\ ticks' = IF ticks < MaxTicks /\ Emits(d \notin reached, Cardinality(reached'))
              THEN ticks + 1 ELSE ticks
    /\ UNCHANGED <<active, queue, submits, worker, inbox, expected, announced, whole, failed,
                   faults>>

Next ==
    \/ Submit
    \/ \E d \in Devices : DeviceGone(d) \/ OnDeviceReceipt(d)
    \/ \E w \in Workers : Expand(w) \/ SetExpected(w) \/ InsertBatch(w) \/ JobDone(w)

-----------------------------------------------------------------------------
TypeOK ==
    /\ inbox \subseteq Devices /\ reached \subseteq inbox
    /\ queue \in 0..QueueDepth /\ expected \in 0..Cardinality(Devices)

(* Were all the jobs of the message announced with the same devices?       *)
OneSize == Cardinality(announced) <= 1

(* A message whose fan-out went through has a row for every device.        *)
EveryDeviceCovered ==
    (whole /\ ~failed /\ \A w \in Workers : worker[w] = Idle)
        => \A rows \in announced : rows \subseteq inbox

(* The aggregate tick flips once, and not before every device has reached  *)
(* the state; it does flip when they all have: unless the message was      *)
(* fanned out again to other devices, or the total could not be announced. *)
TickIsAll ==
    OneSize =>
        /\ ticks <= 1
        /\ ticks = 1 => \A rows \in announced : rows \subseteq reached
        /\ (~failed /\ expected > 0 /\ \A rows \in announced : rows \subseteq reached)
            => ticks = 1

FanoutSound == TypeOK /\ EveryDeviceCovered /\ TickIsAll

-----------------------------------------------------------------------------
\* The jobs of the workers.
Jobs == {Idle} \cup [at : {"announce", "insert"}, rows : SUBSET Devices, todo : SUBSET Devices]

(* A worker inserts what it has announced, and what it has no longer to    *)
(* insert is there.                                                        *)
JobFits(w) ==
    /\ worker[w].at = "announce" => worker[w].todo = worker[w].rows
    /\ worker[w].at = "insert" =>
        /\ worker[w].rows \in announced
        /\ worker[w].todo \subseteq worker[w].rows
        /\ worker[w].rows \subseteq inbox \cup worker[w].todo

(* A set that was announced is inserted, or a worker is at it, or a call   *)
(* failed.                                                                 *)
Served(rows) ==
    failed \/ rows \subseteq inbox
    \/ \E w \in Workers : worker[w].at = "insert" /\ worker[w].rows = rows

(* As long as one set was announced the expected total is its size, and    *)
(* the tick tells whether all of it has reached the state.                 *)
OneTotal ==
    OneSize => \A rows \in announced :
        /\ inbox \subseteq rows
        /\ expected \in {0, Cardinality(rows)}
        /\ ~failed => expected = Cardinality(rows)
        /\ ticks > 0 => rows \subseteq reached

(* The inductive invariant.                                                *)
FanoutInv ==
    /\ FanoutSound
    /\ active \subseteq Devices /\ announced \subseteq SUBSET Devices
    /\ ticks \in Nat /\ failed \in BOOLEAN
    /\ worker \in [Workers -> Jobs]
    /\ announced = {} => inbox = {} /\ expected = 0 /\ ticks = 0
    /\ \A w \in Workers : JobFits(w)
    /\ \A rows \in announced : Served(rows)
    /\ OneTotal
=============================================================================
