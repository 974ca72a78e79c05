--------------------------- MODULE GatewaySession ---------------------------
(***************************************************************************)
(* The connections of one device in the gateway tier: the connection       *)
(* registry of every pod, the route key of the device in Valkey, the       *)
(* close codes, and the client that stays closed for good after 4409.      *)
(*                                                                         *)
(* Server.Handle runs once per connection, concurrently with the others;   *)
(* Claim, Add, Subscribe, Remove and Release are separate steps of it, and *)
(* the close of a displaced connection and the heartbeat are goroutines of *)
(* their own.                                                              *)
(***************************************************************************)
EXTENDS Naturals, Sequences, FiniteSets

CONSTANTS
    Pods, Conns,    \* gateway pods; connections, each opened at most once
    Clients,        \* processes that run as this device (tabs of a browser)
    MaxFaults,      \* bound on store errors, dead sockets, crashes, drains
    NoPod, NoConn, NoClient

ASSUME ConstantsAssumption ==
    /\ NoPod \notin Pods /\ NoConn \notin Conns /\ NoClient \notin Clients
    /\ MaxFaults \in Nat

Feeds == {"out", "receipt", "call"}
\* 4409 comes from two places: a displaced registry entry, a lost route.
Replaced == {"displaced", "unowned"}
Codes == Replaced \cup {"none", "other"}

VARIABLES
    pc,       \* per connection: where Handle is
    pod, who, \* per connection: the pod and the client
    code,     \* per connection: how Conn.Close closed it
    dead,     \* connections whose socket is broken (the server may not know)
    doomed,   \* displaced connections whose 4409 close has not run yet
    feeds,    \* per connection: its live NATS subscriptions
    reg,      \* per pod: Registry entry of the device
    route,    \* Valkey route:{device}
    cl, sock, \* per client: "down", "up" or "closed"; its socket
    claims,   \* the connections in the order of their claims
    leaky,    \* connections that ended because the receipt feed failed
    faults

conn == <<pc, pod, who>>
client == <<cl, sock>>
vars == <<conn, code, dead, doomed, feeds, reg, route, client, claims, leaky, faults>>

Fault == faults < MaxFaults /\ faults' = faults + 1
Goto(c, p) == pc' = [pc EXCEPT ![c] = p] /\ UNCHANGED <<pod, who>>

\* Connections whose read loop runs and that nobody has closed yet.
Serving == {c \in Conns : pc[c] = "live" /\ code[c] = "none"}
-----------------------------------------------------------------------------
Init ==
    /\ pc = [c \in Conns |-> "unused"]
    /\ pod = [c \in Conns |-> NoPod]
    /\ who = [c \in Conns |-> NoClient]
    /\ code = [c \in Conns |-> "none"]
    /\ dead = {} /\ doomed = {} /\ leaky = {}
    /\ feeds = [c \in Conns |-> {}]
    /\ reg = [p \in Pods |-> NoConn]
    /\ route = NoPod
    /\ cl = [k \in Clients |-> "down"]
    /\ sock = [k \in Clients |-> NoConn]
    /\ claims = <<>>
    /\ faults = 0

(* Conn.Close: exactly once.  A client that still listens on the socket    *)
(* sees the code; after 4409 it never reconnects.                          *)
Close(c, x) ==
    IF code[c] # "none" THEN UNCHANGED <<code, client>> ELSE
    /\ code' = [code EXCEPT ![c] = x]
    /\ IF \E k \in Clients : sock[k] = c
       THEN /\ cl' = [cl EXCEPT ![who[c]] = IF x \in Replaced THEN "closed" ELSE "down"]
            /\ sock' = [sock EXCEPT ![who[c]] = NoConn]
       ELSE UNCHANGED client

(* The client opens a socket; upgrade and handshake succeed.               *)
Dial(k, c, p) ==
    /\ cl[k] = "down"
    /\ pc[c] = "unused"
    /\ pc' = [pc EXCEPT ![c] = "claim"]
    /\ pod' = [pod EXCEPT ![c] = p]
    /\ who' = [who EXCEPT ![c] = k]
    /\ cl' = [cl EXCEPT ![k] = "up"]
    /\ sock' = [sock EXCEPT ![k] = c]
    /\ UNCHANGED <<code, dead, doomed, feeds, reg, route, claims, leaky, faults>>

(* RouteStore.Claim, last writer wins; on an error the socket is closed.   *)
Claim(c) ==
    /\ pc[c] = "claim"
    /\ \/ /\ route' = pod[c]
          /\ claims' = Append(claims, c)
          /\ Goto(c, "add")
          /\ UNCHANGED <<code, client, faults>>
       \/ /\ Fault
          /\ Goto(c, "done")
          /\ Close(c, "other")
          /\ UNCHANGED <<route, claims>>
    /\ UNCHANGED <<dead, doomed, feeds, reg, leaky>>

(* Registry.Add, and go displaced.Close(4409).  Mutant: the displaced      *)
(* connection is not closed.                                               *)
NoneDisplaced(p) == {}
Displaced(p) == {reg[p]} \ {NoConn}

Add(c) ==
    /\ pc[c] = "add"
    /\ reg' = [reg EXCEPT ![pod[c]] = c]
    /\ doomed' = doomed \cup Displaced(pod[c])
    /\ Goto(c, "attach")
    /\ UNCHANGED <<code, dead, feeds, route, client, claims, leaky, faults>>

CloseDisplaced(c) ==
    /\ c \in doomed
    /\ doomed' = doomed \ {c}
    /\ Close(c, "displaced")
    /\ UNCHANGED <<conn, dead, feeds, reg, route, claims, leaky, faults>>

(* The three feeds are subscribed in order.  A failed subscription ends    *)
(* the connection: the call path undoes the other two, the receipt path    *)
(* does not undo the delivery subscription.                                *)
FeedsAfterFailure(c) == IF feeds[c] = {"out"} THEN {"out"} ELSE {}

NextFeed(c) == CASE feeds[c] = {} -> "out"
                 [] feeds[c] = {"out"} -> "receipt"
                 [] feeds[c] = {"out", "receipt"} -> "call"

Subscribe(c) ==
    /\ pc[c] = "attach"
    /\ feeds[c] # Feeds
    /\ \/ /\ feeds' = [feeds EXCEPT ![c] = @ \cup {NextFeed(c)}]
          /\ UNCHANGED <<conn, leaky, faults>>
       \/ /\ Fault
          /\ feeds' = [feeds EXCEPT ![c] = FeedsAfterFailure(c)]
          /\ leaky' = IF NextFeed(c) = "receipt" THEN leaky \cup {c} ELSE leaky
          /\ Goto(c, "cleanup")
    /\ UNCHANGED <<code, dead, doomed, reg, route, client, claims>>

(* HelloAck: a write on a closed or broken socket fails and ends it.       *)
HelloAck(c) ==
    /\ pc[c] = "attach"
    /\ feeds[c] = Feeds
    /\ \/ /\ code[c] = "none" /\ c \notin dead
          /\ Goto(c, "live")
          /\ UNCHANGED feeds
       \/ /\ code[c] # "none" \/ c \in dead
          /\ Goto(c, "cleanup")
          /\ feeds' = [feeds EXCEPT ![c] = {}]
    /\ UNCHANGED <<code, dead, doomed, reg, route, client, claims, leaky, faults>>

(* heartbeat: ping, then Refresh.  The pod that no longer owns the route   *)
(* closes with 4409; a Refresh error changes nothing.                      *)
\* Mutant: Refresh extends the TTL whoever owns the route.
AlwaysOwned(c) == TRUE
Owned(c) == route = pod[c]

Heartbeat(c) ==
    /\ c \in Serving
    /\ \/ c \in dead /\ Close(c, "other")
       \/ c \notin dead /\ ~Owned(c) /\ Close(c, "unowned")
    /\ UNCHANGED <<conn, dead, doomed, feeds, reg, route, claims, leaky, faults>>

(* The read loop ends; the feeds are unsubscribed.                         *)
ServeEnds(c) ==
    /\ pc[c] = "live"
    /\ code[c] # "none" \/ c \in dead
    /\ feeds' = [feeds EXCEPT ![c] = {}]
    /\ Goto(c, "cleanup")
    /\ UNCHANGED <<code, dead, doomed, reg, route, client, claims, leaky, faults>>

(* cleanup: the registry entry goes only if it is still this connection,   *)
(* and the route only if the entry went.                                   *)
OwnEntry(c) == reg[pod[c]] = c

Remove(c) ==
    /\ pc[c] = "cleanup"
    /\ \/ /\ OwnEntry(c)
          /\ reg' = [reg EXCEPT ![pod[c]] = NoConn]
          /\ Goto(c, "release")
          /\ UNCHANGED <<code, client>>
       \/ /\ ~OwnEntry(c)
          /\ Goto(c, "done")
          /\ Close(c, "other")
          /\ UNCHANGED reg
    /\ UNCHANGED <<dead, doomed, feeds, route, claims, leaky, faults>>

\* Mutant: the key is deleted whoever owns it.
ReleaseAlways(c) == TRUE
ReleaseOwned(c) == route = pod[c]

Release(c) ==
    /\ pc[c] = "release"
    /\ \/ route' = (IF ReleaseOwned(c) THEN NoPod ELSE route) /\ UNCHANGED faults
       \/ Fault /\ UNCHANGED route
    /\ Goto(c, "done")
    /\ Close(c, "other")
    /\ UNCHANGED <<dead, doomed, feeds, reg, claims, leaky>>
-----------------------------------------------------------------------------
(* The environment.                                                        *)

\* The client loses its socket, or gives it up; the pod has not noticed.
SocketDies(c) ==
    /\ pc[c] \in {"claim", "add", "attach", "live"}
    /\ c \notin dead /\ code[c] = "none"
    /\ Fault
    /\ dead' = dead \cup {c}
    /\ cl' = [cl EXCEPT ![who[c]] = "down"]
    /\ sock' = [sock EXCEPT ![who[c]] = NoConn]
    /\ UNCHANGED <<conn, code, doomed, feeds, reg, route, claims, leaky>>

\* Slow consumer, failed write, failed replay, CloseAll of a draining pod.
CloseOther(c) ==
    /\ c \in Serving
    /\ Fault
    /\ Close(c, "other")
    /\ UNCHANGED <<conn, dead, doomed, feeds, reg, route, claims, leaky>>

PodCrash(p) ==
    LET lost == {c \in Conns : pod[c] = p /\ pc[c] # "done"} IN
    /\ lost # {}
    /\ Fault
    /\ pc' = [c \in Conns |-> IF c \in lost THEN "done" ELSE pc[c]]
    /\ feeds' = [c \in Conns |-> IF pod[c] = p THEN {} ELSE feeds[c]]
    /\ reg' = [reg EXCEPT ![p] = NoConn]
    /\ doomed' = doomed \ lost
    /\ cl' = [k \in Clients |-> IF sock[k] \in lost THEN "down" ELSE cl[k]]
    /\ sock' = [k \in Clients |-> IF sock[k] \in lost THEN NoConn ELSE sock[k]]
    /\ UNCHANGED <<pod, who, code, dead, route, claims, leaky>>

\* The 90 s TTL passes.  A 30 s heartbeat or a fresh claim prevents it.
\* Mutant: the key is written without a TTL.
NoTTL == FALSE /\ UNCHANGED vars
Expire ==
    /\ route # NoPod
    /\ \A c \in Conns : pod[c] = route =>
          pc[c] \notin {"add", "attach"} /\ c \notin Serving \ dead
    /\ route' = NoPod
    /\ UNCHANGED <<conn, code, dead, doomed, feeds, reg, client, claims, leaky, faults>>
-----------------------------------------------------------------------------
Handle(c) ==
    \/ Claim(c) \/ Add(c) \/ Subscribe(c) \/ HelloAck(c)
    \/ ServeEnds(c) \/ Remove(c) \/ Release(c)

Next ==
    \/ \E k \in Clients, c \in Conns, p \in Pods : Dial(k, c, p)
    \/ \E c \in Conns : Handle(c) \/ CloseDisplaced(c) \/ Heartbeat(c)
                        \/ SocketDies(c) \/ CloseOther(c)
    \/ \E p \in Pods : PodCrash(p)
    \/ Expire

Spec == Init /\ [][Next]_vars

\* The goroutines of a connection run, and Valkey expires the key.
Fairness ==
    /\ \A c \in Conns : WF_vars(Handle(c)) /\ WF_vars(CloseDisplaced(c))
                        /\ WF_vars(Heartbeat(c))
    /\ WF_vars(Expire)

FairSpec == Spec /\ Fairness
-----------------------------------------------------------------------------
PCs == {"unused", "claim", "add", "attach", "live", "cleanup", "release", "done"}

(* Every variable has its type.                                            *)
TypeOK ==
    /\ pc \in [Conns -> PCs]
    /\ pod \in [Conns -> Pods \cup {NoPod}]
    /\ who \in [Conns -> Clients \cup {NoClient}]
    /\ code \in [Conns -> Codes]
    /\ dead \subseteq Conns /\ doomed \subseteq Conns /\ leaky \subseteq Conns
    /\ feeds \in [Conns -> SUBSET Feeds]
    /\ reg \in [Pods -> Conns \cup {NoConn}]
    /\ route \in Pods \cup {NoPod}
    /\ cl \in [Clients -> {"down", "up", "closed"}]
    /\ sock \in [Clients -> Conns \cup {NoConn}]
    /\ claims \in Seq(Conns)
    /\ faults \in 0..MaxFaults

(* The registry is exact: an entry is a connection of that pod whose       *)
(* cleanup is still to come, and a connection that is served without being *)
(* the entry has its 4409 close under way (Add, Remove, cleanup; a drain   *)
(* through CloseAll therefore misses no connection for long).              *)
RegistryExact ==
    /\ \A p \in Pods : reg[p] # NoConn =>
          pod[reg[p]] = p /\ pc[reg[p]] \in {"attach", "live", "cleanup"}
    /\ \A c \in Serving : reg[pod[c]] = c \/ c \in doomed

(* A finished connection leaves no NATS subscription behind, unless its    *)
(* receipt subscription failed (Handle, lines 222-226).                    *)
FeedsClosed == \A c \in Conns : pc[c] = "done" /\ feeds[c] # {} => c \in leaky

(* The module's state invariant: the types, an exact registry, no          *)
(* subscription left behind.                                               *)
Inv == TypeOK /\ RegistryExact /\ FeedsClosed

\* Another connection claimed the route after connection c.
ClaimedAfter(c) ==
    \E i, j \in 1..Len(claims) : i < j /\ claims[i] = c /\ claims[j] # c

(* "a newer connection for this device won the route" (conn.go:20): 4409,  *)
(* upon which the client gives up for good, is only sent on a connection   *)
(* when another one claimed the route after it, or when the device had     *)
(* another connection on the same pod: the route names the pod only, so    *)
(* the cleanup of the older one may take the route of the newer.           *)
ReplacedByNewer ==
    \A c \in Conns : code[c] \in Replaced =>
        ClaimedAfter(c) \/ \E d \in Conns \ {c} : pod[d] = pod[c]

(* However connections of the device race over pods, at most one of them   *)
(* is served in the end, and the route then names its pod or nobody.       *)
OneServedInTheEnd ==
    <>[](Cardinality(Serving) <= 1 /\ \A c \in Serving : route = pod[c])

(* A route does not point at a pod without a connection for ever.          *)
RouteSettles == <>[](route # NoPod => \E c \in Serving : pod[c] = route)
-----------------------------------------------------------------------------
\* Where the handler of a connection has claimed the route and not let it go.
Claimed == {"add", "attach", "live"}

(* A connection has a pod once it is opened; a registered one is the entry *)
(* of its pod, or is closed or about to be; a doomed one shares its pod.   *)
ConnExact(c) ==
    /\ IF pc[c] = "unused" THEN pod[c] = NoPod /\ code[c] = "none" ELSE pod[c] \in Pods
    /\ pc[c] \in {"attach", "live", "cleanup"} =>
          reg[pod[c]] = c \/ c \in doomed \/ code[c] # "none"
    /\ c \in doomed => pc[c] # "unused" /\ \E d \in Conns \ {c} : pod[d] = pod[c]

(* The subscriptions are made in order after Add, and undone at the end.   *)
FeedsExact(c) ==
    /\ pc[c] \in {"unused", "claim", "add"} => feeds[c] = {}
    /\ pc[c] = "attach" => feeds[c] \in {{}, {"out"}, {"out", "receipt"}, Feeds}
    /\ pc[c] \in {"cleanup", "release", "done"} /\ feeds[c] # {} => c \in leaky

(* Whoever claimed the route has it, unless another one claimed it later   *)
(* or shares the pod: only then does a live connection lose the route.     *)
RouteExact(c) ==
    /\ pc[c] \in Claimed => \E i \in 1..Len(claims) : claims[i] = c
    /\ (pc[c] \in {"add", "attach"} \/ c \in Serving) /\ c \notin dead =>
          \/ route = pod[c] \/ ClaimedAfter(c)
          \/ \E d \in Conns \ {c} : pod[d] = pod[c]

(* The inductive invariant.                                                *)
SessionInv ==
    /\ Inv /\ ReplacedByNewer
    /\ \A c \in Conns : ConnExact(c) /\ FeedsExact(c) /\ RouteExact(c)
=============================================================================
