------------------------------ MODULE Presence ------------------------------
(***************************************************************************)
(* Presence of one user: the flap damper of every gateway pod, the shared  *)
(* presence hash in Valkey and the online and offline announcements.  A    *)
(* connection belongs to a device and a pod; presenceConnect runs in the   *)
(* goroutine of the connection, the timer callbacks run in goroutines of   *)
(* their own, and a store operation and the publish after it are two steps.*)
(*                                                                         *)
(* A connection arms at most one timer, when it ends, so the timer is      *)
(* named by its connection.                                                *)
(***************************************************************************)
EXTENDS Naturals, FiniteSets

CONSTANTS
    Pods, Devices, Conns, NoConn, NoPod, NoDevice,
    MaxFaults   \* bound on failed Valkey and NATS operations

VARIABLES
    pc,      \* per connection: the step of presenceConnect, "live", "ended"
    pod, dev,
    tm,      \* per connection: its timer
    timers,  \* FlapDamper.timers of each pod, by device
    online,  \* presence:{user}: the devices in the hash
    shown,   \* the last announcement to the subscribers
    back,    \* timers that fired when the device was connected again
    flapped, \* one of those announced an offline during a connection
    faults,  \* failed operations so far
    crossed  \* a connection came while an earlier one of the device was still
             \* open, or its offline timer pending on another pod; or a callback
             \* took the timer of a later connection for its own

vars == <<pc, pod, dev, tm, timers, online, shown, back, flapped, faults, crossed>>

PCs == {"unused", "reconnect", "connect", "announce", "live", "ended"}
Timers == {"none", "armed", "fired", "stopped", "disconnect", "announce", "over"}
-----------------------------------------------------------------------------
Fault == faults < MaxFaults /\ faults' = faults + 1
Live(d) == {c \in Conns : pc[c] = "live" /\ dev[c] = d}

Init ==
    /\ pc = [c \in Conns |-> "unused"]
    /\ pod = [c \in Conns |-> NoPod]
    /\ dev = [c \in Conns |-> NoDevice]
    /\ tm = [c \in Conns |-> "none"]
    /\ timers = [p \in Pods |-> [d \in Devices |-> NoConn]]
    /\ online = {}
    /\ shown = "offline"
    /\ back = {}
    /\ flapped = FALSE
    /\ faults = 0
    /\ crossed = FALSE

Open(c, p, d) ==
    /\ pc[c] = "unused"
    /\ pc' = [pc EXCEPT ![c] = "reconnect"]
    /\ pod' = [pod EXCEPT ![c] = p]
    /\ dev' = [dev EXCEPT ![c] = d]
    /\ UNCHANGED <<tm, timers, online, shown, back, flapped, faults, crossed>>

(* time.Timer.Stop: without effect on a timer whose callback has started.  *)
\* Mutant: the timer is taken out of the map and runs on.
NotStopped(c) == tm
Stopped(c) == [t \in Conns |-> IF t = c /\ tm[t] = "armed" THEN "stopped" ELSE tm[t]]

(* FlapDamper.Reconnected.  Mutant: the timer stays registered.            *)
StillRegistered(p, d) == timers
Unregistered(p, d) == [timers EXCEPT ![p][d] = NoConn]

Crosses(c) ==
    \E o \in Conns \ {c} :
        /\ dev[o] = dev[c]
        /\ pc[o] # "ended" \/ (tm[o] = "armed" /\ pod[o] # pod[c])

Reconnected(c) ==
    /\ pc[c] = "reconnect"
    /\ pc' = [pc EXCEPT ![c] = "connect"]
    /\ tm' = Stopped(timers[pod[c]][dev[c]])
    /\ timers' = Unregistered(pod[c], dev[c])
    /\ crossed' = (crossed \/ Crosses(c))
    /\ UNCHANGED <<pod, dev, online, shown, back, flapped, faults>>

(* Store.Connect: the first device of the user makes it online.            *)
Connect(c) ==
    /\ pc[c] = "connect"
    /\ \/ /\ pc' = [pc EXCEPT ![c] = IF online = {} THEN "announce" ELSE "live"]
          /\ online' = online \cup {dev[c]}
          /\ UNCHANGED faults
       \/ /\ Fault
          /\ pc' = [pc EXCEPT ![c] = "live"]
          /\ UNCHANGED online
    /\ UNCHANGED <<pod, dev, tm, timers, shown, back, flapped, crossed>>

AnnounceOnline(c) ==
    /\ pc[c] = "announce"
    /\ pc' = [pc EXCEPT ![c] = "live"]
    /\ \/ shown' = "online" /\ UNCHANGED faults
       \/ Fault /\ UNCHANGED shown
    /\ UNCHANGED <<pod, dev, tm, timers, online, back, flapped, crossed>>

(* The heartbeat writes the device into the hash and announces nothing.    *)
Heartbeat(c) ==
    /\ pc[c] = "live"
    /\ dev[c] \notin online
    /\ online' = online \cup {dev[c]}
    /\ UNCHANGED <<pc, pod, dev, tm, timers, shown, back, flapped, faults, crossed>>

(* presenceDisconnect in the cleanup of the connection, FlapDamper.        *)
(* Disconnected: stop the pending timer of the key, arm and register one.  *)
Disconnected(c) ==
    /\ pc[c] = "live"
    /\ pc' = [pc EXCEPT ![c] = "ended"]
    /\ tm' = [Stopped(timers[pod[c]][dev[c]]) EXCEPT ![c] = "armed"]
    /\ timers' = [timers EXCEPT ![pod[c]][dev[c]] = c]
    /\ UNCHANGED <<pod, dev, online, shown, back, flapped, faults, crossed>>

\* The grace period is over: the runtime starts the callback.
Fire(c) ==
    /\ tm[c] = "armed"
    /\ tm' = [tm EXCEPT ![c] = "fired"]
    /\ back' = IF Live(dev[c]) # {} THEN back \cup {c} ELSE back
    /\ UNCHANGED <<pc, pod, dev, timers, online, shown, flapped, faults, crossed>>

(* The callback takes the lock: it goes on if any timer is registered.     *)
\* Mutant: the test is the wrong way round.
NoneRegistered(c) == timers[pod[c]][dev[c]] = NoConn
AnyRegistered(c) == timers[pod[c]][dev[c]] # NoConn

Callback(c) ==
    /\ tm[c] = "fired"
    /\ \/ /\ AnyRegistered(c)
          /\ tm' = [tm EXCEPT ![c] = "disconnect"]
          /\ timers' = [timers EXCEPT ![pod[c]][dev[c]] = NoConn]
          /\ crossed' = (crossed \/ timers[pod[c]][dev[c]] # c)
       \/ /\ ~AnyRegistered(c)
          /\ tm' = [tm EXCEPT ![c] = "over"]
          /\ UNCHANGED <<timers, crossed>>
    /\ UNCHANGED <<pc, pod, dev, online, shown, back, flapped, faults>>

(* onOffline: Store.Disconnect, and the announcement if no device is left. *)
\* Mutant: the count before the removal decides.
LastBefore(d) == online = {}
LastDevice(d) == online \ {d} = {}

Disconnect(c) ==
    /\ tm[c] = "disconnect"
    /\ \/ /\ online' = online \ {dev[c]}
          /\ tm' = [tm EXCEPT ![c] = IF LastDevice(dev[c]) THEN "announce" ELSE "over"]
          /\ UNCHANGED faults
       \/ /\ Fault
          /\ tm' = [tm EXCEPT ![c] = "over"]
          /\ UNCHANGED online
    /\ UNCHANGED <<pc, pod, dev, timers, shown, back, flapped, crossed>>

AnnounceOffline(c) ==
    /\ tm[c] = "announce"
    /\ tm' = [tm EXCEPT ![c] = "over"]
    /\ \/ /\ shown' = "offline"
          /\ flapped' = (flapped \/ (c \in back /\ Live(dev[c]) # {}))
          /\ UNCHANGED faults
       \/ Fault /\ UNCHANGED <<shown, flapped>>
    /\ UNCHANGED <<pc, pod, dev, timers, online, back, crossed>>

\* The device has nobody who would remove it from the hash.
Abandoned(d) ==
    \A c \in Conns : dev[c] = d =>
        /\ pc[c] \in {"reconnect", "ended"}
        /\ tm[c] \notin {"armed", "fired", "disconnect"}

(* The prologue of every script: a device whose last heartbeat is older    *)
(* than OnlineWindow goes, and nothing is announced.                       *)
Prune(d) ==
    /\ d \in online
    /\ Abandoned(d)
    /\ online' = online \ {d}
    /\ UNCHANGED <<pc, pod, dev, tm, timers, shown, back, flapped, faults, crossed>>
-----------------------------------------------------------------------------
Steps(c) ==
    \/ Reconnected(c) \/ Connect(c) \/ AnnounceOnline(c) \/ Heartbeat(c)
    \/ Fire(c) \/ Callback(c) \/ Disconnect(c) \/ AnnounceOffline(c)

Next ==
    \/ \E c \in Conns :
        \/ \E p \in Pods, d \in Devices : Open(c, p, d)
        \/ Steps(c) \/ Disconnected(c)
    \/ \E d \in Devices : Prune(d)

Spec == Init /\ [][Next]_vars

\* Goroutines run, timers fire, connections do not last for ever, and some
\* operation on the hash comes.
Fairness ==
    /\ \A c \in Conns : WF_vars(Steps(c)) /\ WF_vars(Disconnected(c))
    /\ \A d \in Devices : WF_vars(Prune(d))

FairSpec == Spec /\ Fairness
-----------------------------------------------------------------------------
(* Every variable has its type.                                            *)
TypeOK ==
    /\ pc \in [Conns -> PCs]
    /\ pod \in [Conns -> Pods \cup {NoPod}]
    /\ dev \in [Conns -> Devices \cup {NoDevice}]
    /\ tm \in [Conns -> Timers]
    /\ timers \in [Pods -> [Devices -> Conns \cup {NoConn}]]
    /\ online \subseteq Devices
    /\ shown \in {"online", "offline"}
    /\ back \subseteq Conns
    /\ flapped \in BOOLEAN
    /\ faults \in 0..MaxFaults
    /\ crossed \in BOOLEAN

(* A registered timer still has its callback to come: a stopped or spent   *)
(* timer never stays in FlapDamper.timers, where Pending would report it   *)
(* and a stray callback would take it for its own.                         *)
RegisteredIsPending ==
    \A p \in Pods, d \in Devices : LET c == timers[p][d] IN
        c # NoConn => pod[c] = p /\ dev[c] = d /\ tm[c] \in {"armed", "fired"}

(* The module's state invariant: the types, and no dead timer registered.  *)
Inv == TypeOK /\ RegisteredIsPending

(* A device that is in the hash has a connection or a pending offline: as  *)
(* long as Valkey answers, no race of timers, stops and reconnects leaves  *)
(* it to the slow OnlineWindow.                                            *)
OnlineIsBacked == faults = 0 => \A d \in online : ~Abandoned(d)

(* When the last connection is gone, the hash is finally empty, and if no  *)
(* operation failed the subscribers are shown "offline".                   *)
ShownOfflineInTheEnd ==
    <>[](online = {} /\ (faults = 0 => shown = "offline"))

(* "so a brief network flap (disconnect then quick reconnect) never shows  *)
(* the user as offline", as far as flap.go keeps it: a connected user is   *)
(* announced offline after the grace only if a connection came before the  *)
(* cleanup of the one it replaces, or to another pod, or if the callback   *)
(* of an earlier timer, late for the lock, took the registration of a      *)
(* later one.                                                              *)
FlapNeedsCrossing == flapped => crossed

-----------------------------------------------------------------------------
\* Connections of the device that presenceConnect has let in.
In(d) == {c \in Conns : pc[c] \in {"connect", "announce", "live"} /\ dev[c] = d}

(* A connection has its pod and device once it is opened, and its timer    *)
(* once it has ended.                                                      *)
ConnExact(c) ==
    /\ IF pc[c] = "unused" THEN pod[c] = NoPod /\ dev[c] = NoDevice
       ELSE pod[c] \in Pods /\ dev[c] \in Devices
    /\ pc[c] = "ended" <=> tm[c] # "none"

(* A device in the hash is let in, has a timer registered or is about to   *)
(* be taken out.                                                           *)
Backed(d) ==
    \/ In(d) # {}
    \/ \E p \in Pods : timers[p][d] # NoConn
    \/ \E c \in Conns : dev[c] = d /\ tm[c] = "disconnect"

(* Without a crossing one connection of a device is let in at a time, a    *)
(* running timer is registered and its device is away.                     *)
Orderly ==
    /\ \A c, o \in Conns : c \in In(dev[c]) /\ o \in In(dev[c]) => c = o
    /\ \A c \in Conns : tm[c] = "armed" => timers[pod[c]][dev[c]] = c /\ In(dev[c]) = {}
    /\ back = {} /\ ~flapped

(* The inductive invariant.                                                *)
PresenceInv ==
    /\ Inv /\ OnlineIsBacked /\ FlapNeedsCrossing
    /\ \A c \in Conns : ConnExact(c)
    /\ faults = 0 => \A d \in online : Backed(d)
    /\ ~crossed => Orderly
=============================================================================
