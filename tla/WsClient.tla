------------------------------ MODULE WsClient ------------------------------
(***************************************************************************)
(* The connection state machine of client-core: states, timers, the socket *)
(* and the continuations of its async methods.  JavaScript runs one task   *)
(* at a time, so a callback is one step; flush and onInboxBatch await the  *)
(* local store in the middle and go on with whatever transport the client  *)
(* has by then.                                                            *)
(*                                                                         *)
(* The server side is what the gateway may do on a socket.  Delays and the *)
(* backoff arithmetic are left out: a timer is armed or not.               *)
(***************************************************************************)
EXTENDS Naturals, FiniteSets

CONSTANTS
    Msgs,          \* client_refs the application enqueues
    Sockets,       \* sockets, each opened at most once
    MaxTasks,      \* bound on awaiting flushes and awaiting batches
    MaxTransient,  \* bound on sends answered TRANSIENT_UNAVAILABLE
    NoSock

VARIABLES
    state,       \* WsClient.state
    transport,   \* WsClient.transport
    reconnect, beat, pong,  \* the three timers are armed
    wire,        \* per socket: "new", "opening", "open", "mute" or "dead"
    first,       \* per socket: the first frame the client sent on it
    heard,       \* per socket: sends the server has and has not answered
    greeted,     \* sockets whose HelloAck has arrived
    outbox,      \* pending sends in the local store
    done,        \* sends that were acknowledged
    flushes, batches,  \* continuations waiting for the local store
    refused      \* sends that were answered with a transient error

timers == <<reconnect, beat, pong>>
net == <<wire, first, heard, greeted>>
app == <<outbox, done, flushes, batches, refused>>
vars == <<state, transport, timers, net, app>>

States == {"idle", "connecting", "handshaking", "live", "backoff", "closed"}
-----------------------------------------------------------------------------
Init ==
    /\ state = "idle" /\ transport = NoSock
    /\ reconnect = FALSE /\ beat = FALSE /\ pong = FALSE
    /\ wire = [s \in Sockets |-> "new"]
    /\ first = [s \in Sockets |-> "none"]
    /\ heard = [s \in Sockets |-> {}]
    /\ greeted = {}
    /\ outbox = {} /\ done = {}
    /\ flushes = 0 /\ batches = 0 /\ refused = {}

(* clearTimers, scheduleReconnect, teardownTransport.                      *)
ClearTimers == reconnect' = FALSE /\ beat' = FALSE /\ pong' = FALSE
ScheduleReconnect ==
    state' = "backoff" /\ reconnect' = TRUE /\ beat' = FALSE /\ pong' = FALSE

\* The socket is detached and closed.
Teardown ==
    /\ transport' = NoSock
    /\ wire' = [s \in Sockets |-> IF s = transport THEN "dead" ELSE wire[s]]
    /\ UNCHANGED <<first, heard, greeted>>

\* WebSocket.send throws before the socket is open; on a half-open or closed
\* one the frame is lost.  Mutant: a transport that queues until it is open.
Queueing(s) == wire[s] # "new"
CanSend(s) == wire[s] \in {"open", "mute", "dead"}

\* The frame f goes out on socket s, carrying the sends ms.
Sent(s, f, ms) ==
    /\ first' = IF s # NoSock /\ CanSend(s) /\ first[s] = "none"
                THEN [first EXCEPT ![s] = f] ELSE first
    /\ heard' = IF s # NoSock /\ wire[s] = "open"
                THEN [heard EXCEPT ![s] = @ \cup ms] ELSE heard

Connect(s) ==
    /\ wire[s] = "new"
    /\ reconnect' = FALSE
    /\ state' = "connecting"
    /\ transport' = s
    /\ wire' = [wire EXCEPT ![s] = "opening"]
    /\ UNCHANGED <<beat, pong, first, heard, greeted, app>>

\* Mutant: start() while a connection attempt is under way opens another.
NotLive == state # "live"
Startable == state \in {"idle", "closed"}
Start(s) == Startable /\ Connect(s)

Stop ==
    /\ ClearTimers
    /\ state' = "closed"
    /\ Teardown
    /\ UNCHANGED app

ReconnectFires(s) == reconnect /\ Connect(s)

\* Callbacks come only from the current transport.
Callback(s) == s = transport /\ s # NoSock

OnOpen(s) ==
    /\ Callback(s)
    /\ wire[s] = "opening"
    /\ wire' = [wire EXCEPT ![s] = "open"]
    /\ state' = "handshaking"
    /\ first' = [first EXCEPT ![s] = "hello"]
    /\ UNCHANGED <<transport, timers, heard, greeted, app>>

\* Mutant: the outbox is not flushed when the connection comes back.
NoFlush == 0
FlushOnLive == 1

OnHelloAck(s) ==
    /\ Callback(s)
    /\ wire[s] = "open" /\ s \notin greeted
    /\ greeted' = greeted \cup {s}
    /\ state' = "live"
    /\ beat' = TRUE /\ pong' = FALSE
    /\ flushes' = flushes + FlushOnLive
    /\ UNCHANGED <<transport, reconnect, wire, first, heard, outbox, done,
                   batches, refused>>

(* flush after its await: every pending send goes out on the transport of  *)
(* the moment; without one, or with one that is not open, it throws.       *)
FlushResumes ==
    /\ flushes > 0
    /\ flushes' = flushes - 1
    /\ Sent(transport, "msg_send", outbox)
    /\ UNCHANGED <<state, transport, timers, wire, greeted, outbox, done,
                   batches, refused>>

\* The application enqueues a send and calls flush.
Enqueue(m) ==
    /\ m \notin outbox \cup done
    /\ flushes < MaxTasks
    /\ outbox' = outbox \cup {m}
    /\ flushes' = IF state = "live" THEN flushes + 1 ELSE flushes
    /\ UNCHANGED <<state, transport, timers, net, done, batches, refused>>

(* An InboxBatch is persisted; the ClientAck goes out after the await.     *)
OnInboxBatch(s) ==
    /\ Callback(s)
    /\ wire[s] = "open" /\ s \in greeted
    /\ batches < MaxTasks
    /\ batches' = batches + 1
    /\ UNCHANGED <<state, transport, timers, net, outbox, done, flushes, refused>>

BatchResumes ==
    /\ batches > 0
    /\ batches' = batches - 1
    /\ Sent(transport, "client_ack", {})
    /\ UNCHANGED <<state, transport, timers, wire, greeted, outbox, done,
                   flushes, refused>>

(* The server answers a send: MsgAck removes the outbox row; the transient *)
(* error frame is ignored by onServerError.                                *)
OnMsgAck(s, m) ==
    /\ Callback(s)
    /\ wire[s] = "open" /\ s \in greeted /\ m \in heard[s]
    /\ heard' = [heard EXCEPT ![s] = @ \ {m}]
    /\ outbox' = outbox \ {m}
    /\ done' = done \cup {m}
    /\ UNCHANGED <<state, transport, timers, wire, first, greeted, flushes,
                   batches, refused>>

OnTransientError(s, m) ==
    /\ Callback(s)
    /\ wire[s] = "open" /\ s \in greeted /\ m \in heard[s]
    /\ Cardinality(refused \cup {m}) <= MaxTransient
    /\ refused' = refused \cup {m}
    /\ heard' = [heard EXCEPT ![s] = @ \ {m}]
    /\ UNCHANGED <<state, transport, timers, wire, first, greeted, outbox, done,
                   flushes, batches>>

(* Heartbeat: ping and arm the pong timeout; a pong disarms it.            *)
Tick ==
    /\ beat
    /\ pong' = TRUE
    /\ UNCHANGED <<state, transport, reconnect, beat, net, app>>

OnPong(s) ==
    /\ Callback(s)
    /\ wire[s] = "open" /\ pong
    /\ pong' = FALSE
    /\ UNCHANGED <<state, transport, reconnect, beat, net, app>>

\* Mutant: the timeout only reports the half-open socket.
TimeoutIgnored == pong' = FALSE /\ UNCHANGED <<state, transport, reconnect, beat, net>>
TimeoutReconnects == Teardown /\ ScheduleReconnect

PongTimeout ==
    /\ pong
    /\ TimeoutReconnects
    /\ UNCHANGED app

(* Frames and events that end the connection: DRAIN, AUTH_TOKEN_EXPIRED,   *)
(* a socket error.                                                         *)
OnHintOrError(s) ==
    /\ Callback(s)
    /\ wire[s] # "mute"
    /\ Teardown
    /\ ScheduleReconnect
    /\ UNCHANGED app

(* onClose: 4409 and 4403 close for good, everything else reconnects.      *)
\* Mutant: the heartbeat goes on after a final close.
KeepBeat == reconnect' = FALSE /\ UNCHANGED <<beat, pong>>
ClearHeartbeat == beat' = FALSE /\ pong' = FALSE /\ UNCHANGED reconnect

OnCloseFinal(s) ==
    /\ Callback(s)
    /\ wire[s] # "mute"
    /\ wire' = [wire EXCEPT ![s] = "dead"]
    /\ transport' = NoSock
    /\ state' = "closed"
    /\ ClearHeartbeat
    /\ UNCHANGED <<first, heard, greeted, app>>

OnClose(s) ==
    /\ Callback(s)
    /\ wire[s] # "mute"
    /\ wire' = [wire EXCEPT ![s] = "dead"]
    /\ transport' = NoSock
    /\ ScheduleReconnect
    /\ UNCHANGED <<first, heard, greeted, app>>

\* The socket goes silent.  While the handshake is pending the operating
\* system reports it in the end; afterwards only the heartbeat notices.
GoMute(s) ==
    /\ wire[s] = "open" /\ s \in greeted
    /\ wire' = [wire EXCEPT ![s] = "mute"]
    /\ UNCHANGED <<state, transport, timers, first, heard, greeted, app>>
-----------------------------------------------------------------------------
Answers(s) == OnHelloAck(s) \/ \E m \in Msgs : OnMsgAck(s, m)
Tasks == FlushResumes \/ BatchResumes
Up == \E s \in Sockets : Callback(s) /\ state = "live" /\ wire[s] = "open"

Next ==
    \/ Stop \/ Tick \/ PongTimeout \/ Tasks
    \/ \E m \in Msgs : Enqueue(m)
    \/ \E s \in Sockets :
        \/ Start(s) \/ ReconnectFires(s) \/ OnOpen(s) \/ Answers(s)
        \/ OnInboxBatch(s) \/ OnPong(s) \/ OnHintOrError(s)
        \/ OnCloseFinal(s) \/ OnClose(s) \/ GoMute(s)
        \/ \E m \in Msgs : OnTransientError(s, m)

Spec == Init /\ [][Next]_vars

\* Timers fire, promises resolve, sockets open and the server answers; the
\* pong timeout is only certain on a socket that is silent.
Fairness ==
    /\ WF_vars(\E s \in Sockets : ReconnectFires(s))
    /\ WF_vars(\E s \in Sockets : OnOpen(s))
    /\ WF_vars(FlushResumes) /\ WF_vars(Tick) /\ WF_vars(PongTimeout /\ ~Up)
    /\ \A s \in Sockets : WF_vars(Answers(s))

FairSpec == Spec /\ Fairness
-----------------------------------------------------------------------------
(* Every variable has its type.                                            *)
TypeOK ==
    /\ state \in States
    /\ transport \in Sockets \cup {NoSock}
    /\ reconnect \in BOOLEAN /\ beat \in BOOLEAN /\ pong \in BOOLEAN
    /\ wire \in [Sockets -> {"new", "opening", "open", "mute", "dead"}]
    /\ first \in [Sockets -> {"none", "hello", "msg_send", "client_ack"}]
    /\ heard \in [Sockets -> SUBSET Msgs]
    /\ greeted \subseteq Sockets
    /\ outbox \subseteq Msgs /\ done \subseteq Msgs
    /\ flushes \in Nat /\ batches \in Nat /\ refused \subseteq Msgs

(* The state, the transport and the timers always agree: a client that     *)
(* waits has exactly the reconnect timer, a live one the heartbeat, a      *)
(* closed one nothing at all (stop: "cancels all timers, no reconnect").   *)
TimersMatchState ==
    /\ reconnect <=> state = "backoff"
    /\ beat <=> state = "live"
    /\ pong => state = "live"
    /\ transport # NoSock <=> state \in {"connecting", "handshaking", "live"}

(* The module's state invariant: the types, and timers that match.         *)
Inv == TypeOK /\ TimersMatchState

(* Hello is the first frame on every socket, although flushes and acks of  *)
(* an earlier connection resume on whatever transport is there (the        *)
(* gateway closes with 4400 otherwise).                                    *)
HelloFirst == \A s \in Sockets : first[s] \in {"none", "hello"}

(* What the rest of the system sees of the connection (ClientSession).     *)
Mode == CASE state \in {"idle", "closed"} -> "off"
          [] state = "backoff" -> "waiting"
          [] OTHER -> "connected"
Used == {s \in Sockets : wire[s] # "new"}

(* However sockets fail, a client that is not closed becomes live again,   *)
(* half-open sockets included, as long as sockets are to be had.           *)
LiveAgain ==
    <>[](\/ Up \/ state \in {"idle", "closed"}
         \/ \A s \in Sockets : wire[s] # "new")

(* A send in the outbox of a client whose connection is up for good is     *)
(* acknowledged, unless the server answered it with a transient error: what *)
(* lost connections swallowed is sent again, and nothing else is forgotten. *)
EverySendAcked == <>[]Up => <>[](outbox \subseteq refused)

-----------------------------------------------------------------------------
(* The current socket has not been given up, a live client's is open, and  *)
(* one on which frames can go out has had its Hello.                       *)
SocketFits ==
    /\ transport # NoSock => wire[transport] \in {"opening", "open", "mute"}
    /\ state = "live" => wire[transport] # "opening"
    /\ \A s \in Sockets : wire[s] \in {"open", "mute"} => first[s] = "hello"

(* The inductive invariant.                                                *)
ClientInv == Inv /\ HelloFirst /\ SocketFits
=============================================================================
