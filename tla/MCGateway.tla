----------------------------- MODULE MCGateway -----------------------------
(***************************************************************************)
(* The gateway and what hangs on its connections, on small instances:      *)
(* connections, registry and routes (GatewaySession), presence (Presence), *)
(* receipts (Receipts), the presence and channel feeds of a connection     *)
(* (Feeds) and the group fan-out pool (Fanout).  A behaviour exercises the *)
(* one that `part' names; the first two stay at Init and the others at Off *)
(* meanwhile.                                                              *)
(*                                                                         *)
(* The configuration gives the constants small values; the theorems hold   *)
(* for all of them.                                                        *)
(***************************************************************************)
EXTENDS GatewaySession, Integers, FiniteSetTheorems, SequenceTheorems, TLAPS

CONSTANTS
    PresencePods, PresenceConns, PresenceDevices, PresenceFaults, NoDevice,
    ReceiptConns, MaxSeq, MaxSends, MaxFlips,
    FeedTargets, FeedChannels, MaxSubscriptions, MaxChanges,
    FanoutDevices, Workers, QueueDepth, BatchSize, MaxSubmits,
    CallFaults      \* bound on failed calls of receipts, feeds and fan-out

ASSUME PresenceConstants ==
    /\ NoConn \notin PresenceConns /\ NoPod \notin PresencePods /\ NoDevice \notin PresenceDevices
    /\ PresenceFaults \in Nat

ASSUME ReceiptConstants == MaxSeq \in Nat

ASSUME FeedConstants ==
    /\ IsFiniteSet(FeedTargets) /\ FeedTargets \cap FeedChannels = {}
    /\ MaxSubscriptions \in Nat /\ MaxChanges \in Nat

ASSUME FanoutConstants ==
    IsFiniteSet(FanoutDevices) /\ QueueDepth \in Nat /\ BatchSize \in Nat \ {0}

VARIABLES
    part,
    ppc, ppod, dev, tm, timers, online, shown, back, flapped, pfaults, pcrossed,
    rconn, pending, batch, item, enabled, ever, rshown, top, sent, rcrossed, rfailed, sends,
    flips, rfaults,
    open, subs, unsub, chans, live, loop, state, due, wire, fshown, visible, withdrawn,
    fcrossed, blind, ffaults,
    active, queue, submits, worker, inbox, expected, reached, ticks, announced, whole,
    ofailed, ofaults

Off == 0

P == INSTANCE Presence WITH pc <- ppc, pod <- ppod, faults <- pfaults, crossed <- pcrossed,
        Pods <- PresencePods, Conns <- PresenceConns, Devices <- PresenceDevices,
        MaxFaults <- PresenceFaults

R == INSTANCE Receipts WITH conn <- rconn, shown <- rshown, crossed <- rcrossed,
        failed <- rfailed, faults <- rfaults, Conns <- ReceiptConns, MaxFaults <- CallFaults

F == INSTANCE Feeds WITH shown <- fshown, crossed <- fcrossed, faults <- ffaults,
        Targets <- FeedTargets, Channels <- FeedChannels, MaxFaults <- CallFaults

O == INSTANCE Fanout WITH failed <- ofailed, faults <- ofaults, Devices <- FanoutDevices,
        MaxFaults <- CallFaults

PVars == <<ppc, ppod, dev, tm, timers, online, shown, back, flapped, pfaults, pcrossed>>
RVars == <<rconn, pending, batch, item, enabled, ever, rshown, top, sent, rcrossed, rfailed,
           sends, flips, rfaults>>
FVars == <<open, subs, unsub, chans, live, loop, state, due, wire, fshown, visible, withdrawn,
           fcrossed, blind, ffaults>>
OVars == <<active, queue, submits, worker, inbox, expected, reached, ticks, announced, whole,
           ofailed, ofaults>>

mcvars == <<part, vars, PVars, RVars, FVars, OVars>>

ROff == /\ rconn = Off /\ pending = Off /\ batch = Off /\ item = Off /\ enabled = Off
        /\ ever = Off /\ rshown = Off /\ top = Off /\ sent = Off /\ rcrossed = Off
        /\ rfailed = Off /\ sends = Off /\ flips = Off /\ rfaults = Off
FOff == /\ open = Off /\ subs = Off /\ unsub = Off /\ chans = Off /\ live = Off /\ loop = Off
        /\ state = Off /\ due = Off /\ wire = Off /\ fshown = Off /\ visible = Off
        /\ withdrawn = Off /\ fcrossed = Off /\ blind = Off /\ ffaults = Off
OOff == /\ active = Off /\ queue = Off /\ submits = Off /\ worker = Off /\ inbox = Off
        /\ expected = Off /\ reached = Off /\ ticks = Off /\ announced = Off /\ whole = Off
        /\ ofailed = Off /\ ofaults = Off

MCInit ==
    /\ Init /\ P!Init
    /\ \/ part \in {"session", "presence"} /\ ROff /\ FOff /\ OOff
       \/ part = "receipts" /\ R!Init /\ FOff /\ OOff
       \/ part = "feeds" /\ F!Init /\ ROff /\ OOff
       \/ part = "fanout" /\ O!Init /\ ROff /\ FOff

MCNext ==
    \/ part = "session" /\ Next /\ UNCHANGED <<part, PVars, RVars, FVars, OVars>>
    \/ part = "presence" /\ P!Next /\ UNCHANGED <<part, vars, RVars, FVars, OVars>>
    \/ part = "receipts" /\ R!Next /\ UNCHANGED <<part, vars, PVars, FVars, OVars>>
    \/ part = "feeds" /\ F!Next /\ UNCHANGED <<part, vars, PVars, RVars, OVars>>
    \/ part = "fanout" /\ O!Next /\ UNCHANGED <<part, vars, PVars, RVars, FVars>>

(* The fairness of the two modules that promise liveness, each where its   *)
(* module runs.                                                            *)
SessionFair ==
    /\ \A c \in Conns :
        /\ WF_vars(part = "session" /\ Handle(c))
        /\ WF_vars(part = "session" /\ CloseDisplaced(c))
        /\ WF_vars(part = "session" /\ Heartbeat(c))
    /\ WF_vars(part = "session" /\ Expire)

PresenceFair ==
    /\ \A c \in PresenceConns :
        /\ WF_PVars(part = "presence" /\ P!Steps(c))
        /\ WF_PVars(part = "presence" /\ P!Disconnected(c))
    /\ \A d \in PresenceDevices : WF_PVars(part = "presence" /\ P!Prune(d))

MCSpec == MCInit /\ [][MCNext]_mcvars /\ SessionFair /\ PresenceFair

-----------------------------------------------------------------------------
(* Every safety property is the inductive invariant of its component: what *)
(* the component promises, and what its goroutines and messages under way  *)
(* have read and not yet written.                                          *)

(* The registry is exact, no subscription is left behind, and 4409 is sent *)
(* only to a connection another one replaced (GatewaySession).             *)
SessionSound == SessionInv

(* No dead timer is registered, a device in the hash is backed by a        *)
(* connection or a pending offline, and a flap shows only when connections *)
(* crossed (Presence).                                                     *)
PresenceSound == P!PresenceInv

(* Coalescing loses no receipt and leaks no hidden read; feeds are closed  *)
(* with their connection, opened only where privacy allows, and show the   *)
(* present (Receipts, Feeds).                                              *)
FeedsSound ==
    /\ part = "receipts" => R!ReceiptsInv
    /\ part = "feeds" => F!FeedsInv

(* Every announced device gets its row and the group tick means all of     *)
(* them, except after a failed call (Fanout).                              *)
FanoutSound == part = "fanout" => O!FanoutInv

(* In the end at most one connection of a device is served and the route   *)
(* names its pod or nobody, and a user without connections is shown        *)
(* offline (GatewaySession, Presence).                                     *)
GatewayLive ==
    /\ OneServedInTheEnd /\ RouteSettles
    /\ P!ShownOfflineInTheEnd

-----------------------------------------------------------------------------
(* The connections of a device in the gateway tier.                        *)

LEMMA SessionInit == Init => SessionInv
<1> SUFFICES ASSUME Init PROVE SessionInv
  OBVIOUS
<1>1. TypeOK
  BY ConstantsAssumption DEF Init, TypeOK, PCs, Codes, Replaced, Feeds
<1>2. RegistryExact /\ FeedsClosed /\ ReplacedByNewer
  BY DEF Init, RegistryExact, FeedsClosed, ReplacedByNewer, Serving, Replaced
<1>3. \A c \in Conns : ConnExact(c) /\ FeedsExact(c) /\ RouteExact(c)
  BY DEF Init, ConnExact, FeedsExact, RouteExact, Serving, Claimed
<1>4. QED
  BY <1>1, <1>2, <1>3 DEF SessionInv, Inv

\* An entry of the registry is a connection of that pod.
RegEntries == \A p \in Pods : reg[p] # NoConn =>
                 pod[reg[p]] = p /\ pc[reg[p]] \in {"attach", "live", "cleanup"}

LEMMA SessionParts ==
  ASSUME SessionInv
  PROVE  /\ TypeOK /\ RegEntries /\ ReplacedByNewer
         /\ \A c \in Conns : ConnExact(c) /\ FeedsExact(c) /\ RouteExact(c)
  BY DEF SessionInv, Inv, RegistryExact, RegEntries

LEMMA SessionWhole ==
  ASSUME TypeOK', RegEntries', ReplacedByNewer',
         \A c \in Conns : ConnExact(c)' /\ FeedsExact(c)' /\ RouteExact(c)'
  PROVE  SessionInv'
<1>1. RegistryExact'
  <2>1. \A c \in Serving' : reg'[pod'[c]] = c \/ c \in doomed'
    BY DEF ConnExact, Serving
  <2>2. QED
    BY <2>1 DEF RegistryExact, RegEntries
<1>2. FeedsClosed'
  BY DEF FeedsClosed, FeedsExact
<1>3. QED
  BY <1>1, <1>2 DEF SessionInv, Inv

(* Conn.Close gives a code to a connection that has none.                  *)
LEMMA SessionClose ==
  ASSUME TypeOK, NEW c \in Conns, NEW x \in Codes, Close(c, x)
  PROVE  /\ code' \in [Conns -> Codes]
         /\ cl' \in [Clients -> {"down", "up", "closed"}] /\ sock' \in [Clients -> Conns \cup {NoConn}]
         /\ \A d \in Conns : code'[d] = (IF d = c /\ code[c] = "none" THEN x ELSE code[d])
<1>0. /\ code \in [Conns -> Codes] /\ cl \in [Clients -> {"down", "up", "closed"}]
      /\ sock \in [Clients -> Conns \cup {NoConn}]
  BY DEF TypeOK
<1>1. CASE code[c] # "none"
  BY <1>0, <1>1 DEF Close, client
<1>2. CASE code[c] = "none"
  <2>1. code' = [code EXCEPT ![c] = x]
    BY <1>2 DEF Close
  <2>2. \/ UNCHANGED <<cl, sock>>
        \/ /\ cl' = [cl EXCEPT ![who[c]] = IF x \in Replaced THEN "closed" ELSE "down"]
           /\ sock' = [sock EXCEPT ![who[c]] = NoConn]
    BY <1>2 DEF Close, client
  <2>3. cl' \in [Clients -> {"down", "up", "closed"}] /\ sock' \in [Clients -> Conns \cup {NoConn}]
    BY <1>0, <2>2
  <2>4. QED
    BY <1>0, <1>2, <2>1, <2>3
<1>3. QED
  BY <1>1, <1>2

(* A handler goes on and nothing is claimed.                               *)
LEMMA SessionDial ==
  ASSUME SessionInv, NEW k \in Clients, NEW c \in Conns, NEW p \in Pods, Dial(k, c, p)
  PROVE  SessionInv'
<1>1. /\ pc[c] = "unused" /\ pod[c] = NoPod /\ code[c] = "none" /\ p # NoPod
      /\ UNCHANGED <<code, dead, doomed, feeds, reg, route, claims, leaky, faults>>
  BY SessionParts, ConstantsAssumption DEF Dial, ConnExact
<1>2. TypeOK'
  BY SessionParts DEF TypeOK, Dial, PCs
<1>3. \A d \in Conns : /\ pc'[d] = (IF d = c THEN "claim" ELSE pc[d])
                       /\ pod'[d] = (IF d = c THEN p ELSE pod[d])
  BY SessionParts DEF TypeOK, Dial
<1>4. RegEntries'
  BY <1>1, <1>3, SessionParts DEF RegEntries, TypeOK
<1>5. \A d, e \in Conns : pod[d] \in Pods /\ pod[e] = pod[d] => pod'[e] = pod'[d]
  BY <1>1, <1>3, ConstantsAssumption
<1>6. ASSUME NEW d \in Conns PROVE ConnExact(d)'
  BY <1>1, <1>3, <1>5, SessionParts DEF ConnExact
<1>7. ASSUME NEW d \in Conns PROVE FeedsExact(d)'
  BY <1>1, <1>3, SessionParts DEF FeedsExact
<1>8. ASSUME NEW d \in Conns PROVE RouteExact(d)'
  BY <1>1, <1>3, <1>5, SessionParts DEF RouteExact, ConnExact, ClaimedAfter, Claimed, Serving
<1>9. ReplacedByNewer'
  BY <1>1, <1>3, <1>5, SessionParts DEF ReplacedByNewer, ConnExact, ClaimedAfter, Replaced
<1>10. QED
  BY <1>2, <1>4, <1>6, <1>7, <1>8, <1>9, SessionWhole

LEMMA SessionClaim ==
  ASSUME SessionInv, NEW c \in Conns, Claim(c)
  PROVE  SessionInv'
<1>1. /\ pc[c] = "claim" /\ UNCHANGED <<dead, doomed, feeds, reg, leaky, pod, who>>
  BY DEF Claim, Goto
<1>2. CASE /\ route' = pod[c] /\ claims' = Append(claims, c) /\ Goto(c, "add")
           /\ UNCHANGED <<code, client, faults>>
  <2>1. pod[c] \in Pods
    BY <1>1, SessionParts DEF ConnExact
  <2>2. claims \in Seq(Conns) /\ claims' \in Seq(Conns) /\ Len(claims') = Len(claims) + 1 /\ Len(claims) \in Nat
        /\ claims'[Len(claims) + 1] = c /\ \A i \in 1..Len(claims) : claims'[i] = claims[i]
    BY <1>2, SessionParts DEF TypeOK
  <2>3. TypeOK'
    BY <1>1, <1>2, <2>1, <2>2, SessionParts DEF TypeOK, Goto, PCs, client
  <2>4. \A d \in Conns : pc'[d] = (IF d = c THEN "add" ELSE pc[d])
    BY <1>2, SessionParts DEF TypeOK, Goto
  <2>5. RegEntries'
    BY <1>1, <2>4, SessionParts DEF RegEntries, TypeOK
  <2>6. ASSUME NEW d \in Conns PROVE ConnExact(d)' /\ FeedsExact(d)'
    BY <1>1, <1>2, <2>4, SessionParts DEF ConnExact, FeedsExact
  <2>7. ASSUME NEW d \in Conns, d # c, \E i \in 1..Len(claims) : claims[i] = d PROVE ClaimedAfter(d)'
    BY <2>2, <2>7 DEF ClaimedAfter
  <2>8. ASSUME NEW d \in Conns, ClaimedAfter(d) PROVE ClaimedAfter(d)'
    BY <2>2, <2>8 DEF ClaimedAfter
  <2>9. ASSUME NEW d \in Conns PROVE RouteExact(d)'
    <3>1. CASE d = c
      BY <1>1, <1>2, <2>2, <3>1 DEF RouteExact
    <3>2. CASE d # c
      <4>1. pc'[d] \in Claimed => \E i \in 1..Len(claims') : claims'[i] = d
        BY <2>2, <2>4, <3>2, SessionParts DEF RouteExact
      <4>2. pc'[d] \in Claimed => ClaimedAfter(d)'
        BY <2>4, <2>7, <3>2, SessionParts DEF RouteExact
      <4>3. QED
        BY <4>1, <4>2 DEF RouteExact, Serving, Claimed
    <3>3. QED
      BY <3>1, <3>2
  <2>10. ReplacedByNewer'
    BY <1>1, <1>2, <2>8, SessionParts DEF ReplacedByNewer
  <2>11. QED
    BY <2>3, <2>5, <2>6, <2>9, <2>10, SessionWhole
<1>3. CASE Fault /\ Goto(c, "done") /\ Close(c, "other") /\ UNCHANGED <<route, claims>>
  <2>1. \A d \in Conns : code'[d] = (IF d = c /\ code[c] = "none" THEN "other" ELSE code[d])
    BY <1>3, SessionParts, SessionClose DEF Codes
  <2>2. TypeOK'
    BY <1>1, <1>3, SessionParts, SessionClose, ConstantsAssumption DEF TypeOK, Goto, PCs, Codes, Fault
  <2>3. \A d \in Conns : pc'[d] = (IF d = c THEN "done" ELSE pc[d])
    BY <1>3, SessionParts DEF TypeOK, Goto
  <2>4. RegEntries'
    BY <1>1, <2>3, SessionParts DEF RegEntries, TypeOK
  <2>5. ASSUME NEW d \in Conns PROVE ConnExact(d)' /\ FeedsExact(d)'
    BY <1>1, <1>3, <2>1, <2>3, SessionParts DEF ConnExact, FeedsExact
  <2>6. ASSUME NEW d \in Conns PROVE RouteExact(d)'
    BY <1>1, <1>3, <2>1, <2>3, SessionParts DEF RouteExact, ClaimedAfter, Claimed, Serving
  <2>7. ReplacedByNewer'
    BY <1>1, <1>3, <2>1, SessionParts DEF ReplacedByNewer, ClaimedAfter, Replaced
  <2>8. QED
    BY <2>2, <2>4, <2>5, <2>6, <2>7, SessionWhole
<1>4. QED
  BY <1>2, <1>3 DEF Claim

LEMMA SessionAdd ==
  ASSUME SessionInv, NEW c \in Conns, Add(c)
  PROVE  SessionInv'
<1>1. /\ pc[c] = "add" /\ pod[c] \in Pods /\ reg' = [reg EXCEPT ![pod[c]] = c] /\ doomed' = doomed \cup Displaced(pod[c])
      /\ UNCHANGED <<code, dead, feeds, route, cl, sock, claims, leaky, faults, pod, who>>
  BY SessionParts DEF Add, Goto, ConnExact, client
<1>2. \A d \in Conns : pc'[d] = (IF d = c THEN "attach" ELSE pc[d])
  BY SessionParts DEF TypeOK, Add, Goto
<1>3. \A p \in Pods : reg'[p] = (IF p = pod[c] THEN c ELSE reg[p])
  BY <1>1, SessionParts DEF TypeOK
<1>4. c # NoConn /\ c # reg[pod[c]] /\ \A d \in Conns : d \in doomed' <=> d \in doomed \/ d = reg[pod[c]]
  BY <1>1, SessionParts, ConstantsAssumption DEF Displaced, RegEntries
<1>5. reg[pod[c]] # NoConn => reg[pod[c]] \in Conns /\ pod[reg[pod[c]]] = pod[c]
  BY <1>1, SessionParts DEF RegEntries, TypeOK
<1>6. TypeOK'
  BY <1>1, <1>5, SessionParts DEF TypeOK, PCs, Add, Goto, Displaced
<1>7. RegEntries'
  BY <1>1, <1>2, <1>3, SessionParts DEF RegEntries, TypeOK
<1>8. ASSUME NEW d \in Conns PROVE ConnExact(d)'
  <2>1. d \in doomed' => pc'[d] # "unused" /\ \E e \in Conns \ {d} : pod'[e] = pod'[d]
    BY <1>1, <1>2, <1>4, <1>5, SessionParts, ConstantsAssumption DEF ConnExact
  <2>2. CASE d = c
    BY <1>1, <1>2, <1>3, <2>1, <2>2 DEF ConnExact
  <2>3. CASE d # c
    BY <1>1, <1>2, <1>3, <1>4, <2>1, <2>3, SessionParts DEF ConnExact
  <2>4. QED
    BY <2>2, <2>3
<1>9. ASSUME NEW d \in Conns PROVE FeedsExact(d)' /\ RouteExact(d)'
  BY <1>1, <1>2, SessionParts DEF FeedsExact, RouteExact, ClaimedAfter, Claimed, Serving
<1>10. ReplacedByNewer'
  BY <1>1, SessionParts DEF ReplacedByNewer, ClaimedAfter
<1>11. QED
  BY <1>6, <1>7, <1>8, <1>9, <1>10, SessionWhole

(* A connection is closed and its handler has yet to see it: a code of     *)
(* Replaced needs its reason.                                              *)
LEMMA SessionClosed ==
  ASSUME SessionInv, NEW c \in Conns, NEW x \in Codes \ {"none"}, Close(c, x), pc[c] # "unused",
         UNCHANGED <<conn, feeds, reg, route, claims, leaky>>, dead' = dead, faults' \in 0..MaxFaults,
         doomed' \in {doomed, doomed \ {c}},
         x \in Replaced => ClaimedAfter(c) \/ \E d \in Conns \ {c} : pod[d] = pod[c]
  PROVE  SessionInv'
<1>1. UNCHANGED <<pc, pod, who>>
  BY DEF conn
<1>2. \A d \in Conns : code'[d] = (IF d = c /\ code[c] = "none" THEN x ELSE code[d])
  BY SessionParts, SessionClose
<1>3. TypeOK'
  BY <1>1, SessionParts, SessionClose DEF TypeOK
<1>4. RegEntries'
  BY <1>1, SessionParts DEF RegEntries
<1>5. ASSUME NEW d \in Conns PROVE ConnExact(d)' /\ FeedsExact(d)'
  BY <1>1, <1>2, SessionParts DEF ConnExact, FeedsExact
<1>6. ASSUME NEW d \in Conns PROVE RouteExact(d)'
  BY <1>1, <1>2, SessionParts DEF RouteExact, ClaimedAfter, Claimed, Serving
<1>7. ReplacedByNewer'
  BY <1>1, <1>2, SessionParts DEF ReplacedByNewer, ClaimedAfter
<1>8. QED
  BY <1>3, <1>4, <1>5, <1>6, <1>7, SessionWhole

LEMMA SessionCloses ==
  ASSUME SessionInv, NEW c \in Conns, CloseDisplaced(c) \/ Heartbeat(c) \/ CloseOther(c)
  PROVE  SessionInv'
<1>0. faults \in 0..MaxFaults /\ Codes = {"none", "other", "displaced", "unowned"} /\ Replaced = {"displaced", "unowned"}
  BY SessionParts DEF TypeOK, Codes, Replaced
<1>1. CASE CloseDisplaced(c)
  <2>1. pc[c] # "unused" /\ \E d \in Conns \ {c} : pod[d] = pod[c]
    BY <1>1, SessionParts DEF CloseDisplaced, ConnExact
  <2>2. QED
    BY <1>0, <1>1, <2>1, SessionClosed DEF CloseDisplaced
<1>2. CASE Heartbeat(c)
  <2>1. pc[c] = "live" /\ c \in Serving /\ UNCHANGED <<conn, dead, doomed, feeds, reg, route, claims, leaky, faults>>
    BY <1>2 DEF Heartbeat, Serving
  <2>2. CASE c \in dead /\ Close(c, "other")
    BY <1>0, <2>1, <2>2, SessionClosed
  <2>3. CASE c \notin dead /\ ~Owned(c) /\ Close(c, "unowned")
    <3>1. ClaimedAfter(c) \/ \E d \in Conns \ {c} : pod[d] = pod[c]
      BY <2>1, <2>3, SessionParts DEF RouteExact, Owned
    <3>2. QED
      BY <1>0, <2>1, <2>3, <3>1, SessionClosed
  <2>4. QED
    BY <1>2, <2>2, <2>3 DEF Heartbeat
<1>3. CASE CloseOther(c)
  <2>1. pc[c] = "live" /\ faults' \in 0..MaxFaults
    BY <1>0, <1>3, ConstantsAssumption DEF CloseOther, Serving, Fault
  <2>2. QED
    BY <1>0, <1>3, <2>1, SessionClosed DEF CloseOther
<1>4. QED
  BY <1>1, <1>2, <1>3

(* The handler of a connection goes on and leaves the registry, the route  *)
(* and the codes alone.                                                    *)
LEMMA SessionOn ==
  ASSUME SessionInv, NEW c \in Conns, NEW q \in PCs, pc' = [pc EXCEPT ![c] = q],
         UNCHANGED <<pod, who, code, dead, doomed, reg, route, cl, sock, claims>>,
         pc[c] \in {"attach", "live"}, q \in {"attach", "live", "cleanup"},
         q = "attach" => pc[c] = "attach", q = "live" => code[c] = "none" /\ pc[c] = "attach",
         NEW fs \in SUBSET Feeds, feeds' = [feeds EXCEPT ![c] = fs],
         leaky' \in {leaky, leaky \cup {c}}, faults' \in 0..MaxFaults,
         q = "attach" => fs \in {{}, {"out"}, {"out", "receipt"}, Feeds},
         q = "cleanup" /\ fs # {} => c \in leaky'
  PROVE  SessionInv'
<1>1. \A d \in Conns : /\ pc'[d] = (IF d = c THEN q ELSE pc[d])
                       /\ feeds'[d] = (IF d = c THEN fs ELSE feeds[d])
  BY SessionParts DEF TypeOK
<1>2. TypeOK'
  BY SessionParts DEF TypeOK
<1>3. RegEntries'
  BY <1>1, SessionParts DEF RegEntries, TypeOK
<1>4. ASSUME NEW d \in Conns PROVE ConnExact(d)'
  BY <1>1, SessionParts DEF ConnExact
<1>5. ASSUME NEW d \in Conns PROVE FeedsExact(d)'
  <2>1. CASE d = c
    BY <1>1, <2>1 DEF FeedsExact
  <2>2. CASE d # c
    BY <1>1, <2>2, SessionParts DEF FeedsExact
  <2>3. QED
    BY <2>1, <2>2
<1>6. ASSUME NEW d \in Conns PROVE RouteExact(d)'
  BY <1>1, SessionParts DEF RouteExact, ClaimedAfter, Claimed, Serving
<1>7. ReplacedByNewer'
  BY SessionParts DEF ReplacedByNewer, ClaimedAfter
<1>8. QED
  BY <1>2, <1>3, <1>4, <1>5, <1>6, <1>7, SessionWhole

LEMMA SessionServes ==
  ASSUME SessionInv, NEW c \in Conns, Subscribe(c) \/ HelloAck(c) \/ ServeEnds(c)
  PROVE  SessionInv'
<1>0. /\ faults \in 0..MaxFaults /\ pc[c] \in PCs /\ feeds \in [Conns -> SUBSET Feeds] /\ feeds[c] \in SUBSET Feeds
      /\ pc \in [Conns -> PCs] /\ leaky = leaky /\ PCs = {"unused", "claim", "add", "attach", "live", "cleanup", "release", "done"}
  BY SessionParts DEF TypeOK, PCs
<1>1. CASE Subscribe(c)
  <2>1. /\ pc[c] = "attach" /\ feeds[c] \in {{}, {"out"}, {"out", "receipt"}}
        /\ UNCHANGED <<code, dead, doomed, reg, route, cl, sock, claims>>
    BY <1>1, SessionParts DEF Subscribe, FeedsExact, client
  <2>2. CASE feeds' = [feeds EXCEPT ![c] = @ \cup {NextFeed(c)}] /\ UNCHANGED <<conn, leaky, faults>>
    <3> DEFINE fs == feeds[c] \cup {NextFeed(c)}
    <3>1. fs \in {{"out"}, {"out", "receipt"}, Feeds} /\ fs \in SUBSET Feeds
      BY <2>1 DEF NextFeed, Feeds
    <3>2. feeds' = [feeds EXCEPT ![c] = fs] /\ pc' = [pc EXCEPT ![c] = "attach"] /\ UNCHANGED <<pod, who, leaky, faults>>
      BY <1>0, <2>1, <2>2 DEF conn
    <3> HIDE DEF fs
    <3>3. QED
      BY <1>0, <2>1, <3>1, <3>2, SessionOn
  <2>3. CASE /\ Fault /\ feeds' = [feeds EXCEPT ![c] = FeedsAfterFailure(c)] /\ Goto(c, "cleanup")
             /\ leaky' = IF NextFeed(c) = "receipt" THEN leaky \cup {c} ELSE leaky
    <3> DEFINE fs == FeedsAfterFailure(c)
    <3>1. fs \in SUBSET Feeds /\ (fs # {} => c \in leaky') /\ leaky' \in {leaky, leaky \cup {c}}
      BY <2>1, <2>3 DEF NextFeed, FeedsAfterFailure, Feeds
    <3>2. feeds' = [feeds EXCEPT ![c] = fs] /\ pc' = [pc EXCEPT ![c] = "cleanup"] /\ UNCHANGED <<pod, who>>
          /\ faults' \in 0..MaxFaults
      BY <1>0, <2>3, ConstantsAssumption DEF Goto, Fault
    <3> HIDE DEF fs
    <3>3. QED
      BY <1>0, <2>1, <3>1, <3>2, SessionOn
  <2>4. QED
    BY <1>1, <2>2, <2>3 DEF Subscribe
<1>2. CASE HelloAck(c)
  <2>1. /\ pc[c] = "attach" /\ feeds[c] = Feeds
        /\ UNCHANGED <<code, dead, doomed, reg, route, cl, sock, claims, leaky, faults, pod, who>>
    BY <1>2 DEF HelloAck, Goto, client
  <2>2. CASE code[c] = "none" /\ c \notin dead /\ Goto(c, "live") /\ UNCHANGED feeds
    <3> DEFINE fs == Feeds
    <3>1. feeds' = [feeds EXCEPT ![c] = fs] /\ pc' = [pc EXCEPT ![c] = "live"] /\ fs \in SUBSET Feeds
      BY <1>0, <2>1, <2>2 DEF Goto
    <3> HIDE DEF fs
    <3>2. QED
      BY <1>0, <2>1, <2>2, <3>1, SessionOn
  <2>3. CASE Goto(c, "cleanup") /\ feeds' = [feeds EXCEPT ![c] = {}]
    <3>1. pc' = [pc EXCEPT ![c] = "cleanup"] /\ {} \in SUBSET Feeds
      BY <2>3 DEF Goto
    <3>2. QED
      BY <1>0, <2>1, <2>3, <3>1, SessionOn
  <2>4. QED
    BY <1>2, <2>2, <2>3 DEF HelloAck
<1>3. CASE ServeEnds(c)
  <2>1. /\ pc[c] = "live" /\ feeds' = [feeds EXCEPT ![c] = {}] /\ pc' = [pc EXCEPT ![c] = "cleanup"]
        /\ UNCHANGED <<code, dead, doomed, reg, route, cl, sock, claims, leaky, faults, pod, who>>
        /\ {} \in SUBSET Feeds
    BY <1>3 DEF ServeEnds, Goto, client
  <2>2. QED
    BY <1>0, <2>1, SessionOn
<1>4. QED
  BY <1>1, <1>2, <1>3

(* The end of a connection: after its cleanup it claims nothing.           *)
LEMMA SessionRemove ==
  ASSUME SessionInv, NEW c \in Conns, Remove(c)
  PROVE  SessionInv'
<1>1. /\ pc[c] = "cleanup" /\ pod[c] \in Pods
      /\ UNCHANGED <<dead, doomed, feeds, route, claims, leaky, faults, pod, who>>
  BY SessionParts DEF Remove, Goto, ConnExact
<1>2. CASE OwnEntry(c) /\ reg' = [reg EXCEPT ![pod[c]] = NoConn] /\ Goto(c, "release") /\ UNCHANGED <<code, client>>
  <2>1. /\ \A d \in Conns : pc'[d] = (IF d = c THEN "release" ELSE pc[d])
        /\ \A p \in Pods : reg'[p] = (IF p = pod[c] THEN NoConn ELSE reg[p])
    BY <1>1, <1>2, SessionParts DEF TypeOK, Goto
  <2>2. TypeOK'
    BY <1>1, <1>2, SessionParts DEF TypeOK, Goto, PCs, client
  <2>3. RegEntries'
    BY <1>1, <2>1, SessionParts DEF RegEntries, TypeOK
  <2>4. ASSUME NEW d \in Conns PROVE ConnExact(d)'
    BY <1>1, <1>2, <2>1, SessionParts, ConstantsAssumption DEF ConnExact, OwnEntry
  <2>5. ASSUME NEW d \in Conns PROVE FeedsExact(d)' /\ RouteExact(d)'
    BY <1>1, <1>2, <2>1, SessionParts DEF FeedsExact, RouteExact, ClaimedAfter, Claimed, Serving
  <2>6. ReplacedByNewer'
    BY <1>1, <1>2, SessionParts DEF ReplacedByNewer, ClaimedAfter
  <2>7. QED
    BY <2>2, <2>3, <2>4, <2>5, <2>6, SessionWhole
<1>3. CASE ~OwnEntry(c) /\ Goto(c, "done") /\ Close(c, "other") /\ UNCHANGED reg
  <2>1. /\ \A d \in Conns : pc'[d] = (IF d = c THEN "done" ELSE pc[d])
        /\ \A d \in Conns : code'[d] = (IF d = c /\ code[c] = "none" THEN "other" ELSE code[d])
    BY <1>3, SessionParts, SessionClose DEF TypeOK, Goto, Codes
  <2>2. TypeOK'
    BY <1>1, <1>3, SessionParts, SessionClose DEF TypeOK, Goto, PCs, Codes
  <2>3. RegEntries'
    BY <1>1, <1>3, <2>1, SessionParts DEF RegEntries, TypeOK, OwnEntry
  <2>4. ASSUME NEW d \in Conns PROVE ConnExact(d)'
    BY <1>1, <1>3, <2>1, SessionParts DEF ConnExact
  <2>5. ASSUME NEW d \in Conns PROVE FeedsExact(d)' /\ RouteExact(d)'
    BY <1>1, <1>3, <2>1, SessionParts DEF FeedsExact, RouteExact, ClaimedAfter, Claimed, Serving
  <2>6. ReplacedByNewer'
    BY <1>1, <2>1, SessionParts DEF ReplacedByNewer, ClaimedAfter, Replaced
  <2>7. QED
    BY <2>2, <2>3, <2>4, <2>5, <2>6, SessionWhole
<1>4. QED
  BY <1>2, <1>3 DEF Remove

(* Another connection that loses the route this way is of the same pod.    *)
LEMMA SessionRelease ==
  ASSUME SessionInv, NEW c \in Conns, Release(c)
  PROVE  SessionInv'
<1>1. /\ pc[c] = "release" /\ pod[c] \in Pods /\ Goto(c, "done") /\ Close(c, "other")
      /\ UNCHANGED <<dead, doomed, feeds, reg, claims, leaky, pod, who>>
      /\ route' \in {route, NoPod} /\ (route' # route => route = pod[c]) /\ faults' \in 0..MaxFaults
  BY SessionParts, ConstantsAssumption DEF Release, Goto, ConnExact, ReleaseOwned, Fault, TypeOK
<1>2. /\ \A d \in Conns : pc'[d] = (IF d = c THEN "done" ELSE pc[d])
      /\ \A d \in Conns : code'[d] = (IF d = c /\ code[c] = "none" THEN "other" ELSE code[d])
  BY <1>1, SessionParts, SessionClose DEF TypeOK, Goto, Codes
<1>3. TypeOK'
  BY <1>1, SessionParts, SessionClose DEF TypeOK, Goto, PCs, Codes
<1>4. RegEntries'
  BY <1>1, <1>2, SessionParts DEF RegEntries, TypeOK
<1>5. ASSUME NEW d \in Conns PROVE ConnExact(d)' /\ FeedsExact(d)'
  BY <1>1, <1>2, SessionParts DEF ConnExact, FeedsExact
<1>6. ASSUME NEW d \in Conns PROVE RouteExact(d)'
  BY <1>1, <1>2, SessionParts DEF RouteExact, ClaimedAfter, Claimed, Serving
<1>7. ReplacedByNewer'
  BY <1>1, <1>2, SessionParts DEF ReplacedByNewer, ClaimedAfter, Replaced
<1>8. QED
  BY <1>3, <1>4, <1>5, <1>6, <1>7, SessionWhole

(* The environment: a socket dies, a pod crashes, the route expires.       *)
LEMMA SessionSocketDies ==
  ASSUME SessionInv, NEW c \in Conns, SocketDies(c)
  PROVE  SessionInv'
<1>1. /\ UNCHANGED <<pc, pod, who, code, doomed, feeds, reg, route, claims, leaky>>
      /\ dead' = dead \cup {c} /\ faults' \in 0..MaxFaults
  BY SessionParts, ConstantsAssumption DEF SocketDies, conn, Fault, TypeOK
<1>2. TypeOK'
  BY <1>1, SessionParts DEF TypeOK, SocketDies
<1>3. RegEntries' /\ ReplacedByNewer'
  BY <1>1, SessionParts DEF RegEntries, ReplacedByNewer, ClaimedAfter
<1>4. ASSUME NEW d \in Conns PROVE ConnExact(d)' /\ FeedsExact(d)' /\ RouteExact(d)'
  BY <1>1, SessionParts DEF ConnExact, FeedsExact, RouteExact, ClaimedAfter, Serving
<1>5. QED
  BY <1>2, <1>3, <1>4, SessionWhole

LEMMA SessionPodCrash ==
  ASSUME SessionInv, NEW p \in Pods, PodCrash(p)
  PROVE  SessionInv'
<1> DEFINE lost == {c \in Conns : pod[c] = p /\ pc[c] # "done"}
<1>1. /\ UNCHANGED <<pod, who, code, dead, route, claims, leaky>> /\ faults' \in 0..MaxFaults
      /\ pc' = [c \in Conns |-> IF c \in lost THEN "done" ELSE pc[c]]
      /\ feeds' = [c \in Conns |-> IF pod[c] = p THEN {} ELSE feeds[c]]
      /\ reg' = [reg EXCEPT ![p] = NoConn] /\ doomed' = doomed \ lost
  BY SessionParts, ConstantsAssumption DEF PodCrash, Fault, TypeOK
<1>2. /\ cl' = [k \in Clients |-> IF sock[k] \in lost THEN "down" ELSE cl[k]]
      /\ sock' = [k \in Clients |-> IF sock[k] \in lost THEN NoConn ELSE sock[k]]
  BY DEF PodCrash
<1>3. TypeOK'
  BY <1>1, <1>2, SessionParts DEF TypeOK, PCs
<1>4. /\ \A c \in Conns : pc'[c] = (IF pod[c] = p THEN "done" ELSE pc[c])
      /\ \A c \in Conns : feeds'[c] = (IF pod[c] = p THEN {} ELSE feeds[c])
      /\ \A c \in Conns : c \in doomed' => c \in doomed
      /\ \A c \in Conns : c \in doomed /\ pod[c] # p => c \in doomed'
      /\ \A q \in Pods : reg'[q] = (IF q = p THEN NoConn ELSE reg[q])
  BY <1>1, SessionParts DEF TypeOK
<1> HIDE DEF lost
<1>5. RegEntries'
  BY <1>1, <1>4, SessionParts DEF RegEntries, TypeOK
<1>6. ReplacedByNewer'
  BY <1>1, SessionParts DEF ReplacedByNewer, ClaimedAfter
<1>7. ASSUME NEW d \in Conns PROVE ConnExact(d)'
  BY <1>1, <1>4, SessionParts DEF ConnExact
<1>8. ASSUME NEW d \in Conns PROVE FeedsExact(d)' /\ RouteExact(d)'
  BY <1>1, <1>4, SessionParts DEF FeedsExact, RouteExact, ClaimedAfter, Serving, Claimed
<1>9. QED
  BY <1>3, <1>5, <1>6, <1>7, <1>8, SessionWhole

LEMMA SessionExpire ==
  ASSUME SessionInv, Expire
  PROVE  SessionInv'
<1>1. /\ UNCHANGED <<pc, pod, who, code, dead, doomed, feeds, reg, cl, sock, claims, leaky, faults>> /\ route' = NoPod
      /\ \A c \in Conns : pod[c] = route => pc[c] \notin {"add", "attach"} /\ c \notin Serving \ dead
  BY DEF Expire, conn, client
<1>2. TypeOK' /\ RegEntries' /\ ReplacedByNewer'
  BY <1>1, SessionParts DEF TypeOK, RegEntries, ReplacedByNewer, ClaimedAfter
<1>3. ASSUME NEW d \in Conns PROVE ConnExact(d)' /\ FeedsExact(d)' /\ RouteExact(d)'
  BY <1>1, SessionParts DEF ConnExact, FeedsExact, RouteExact, ClaimedAfter, Serving
<1>4. QED
  BY <1>2, <1>3, SessionWhole

LEMMA SessionStep == SessionInv /\ [Next]_vars => SessionInv'
<1> SUFFICES ASSUME SessionInv, [Next]_vars PROVE SessionInv'
  OBVIOUS
<1>1. CASE UNCHANGED vars
  <2>1. UNCHANGED <<pc, pod, who, code, dead, doomed, feeds, reg, route, cl, sock, claims, leaky, faults>>
    BY <1>1 DEF vars, conn, client
  <2>2. TypeOK' /\ RegEntries' /\ ReplacedByNewer'
    BY <2>1, SessionParts DEF TypeOK, RegEntries, ReplacedByNewer, ClaimedAfter
  <2>3. ASSUME NEW d \in Conns PROVE ConnExact(d)' /\ FeedsExact(d)' /\ RouteExact(d)'
    BY <2>1, SessionParts DEF ConnExact, FeedsExact, RouteExact, ClaimedAfter, Serving
  <2>4. QED
    BY <2>2, <2>3, SessionWhole
<1>2. CASE Next
  BY <1>2, SessionDial, SessionClaim, SessionAdd, SessionCloses, SessionServes, SessionRemove,
     SessionRelease, SessionSocketDies, SessionPodCrash, SessionExpire DEF Next, Handle
<1>3. QED
  BY <1>1, <1>2

-----------------------------------------------------------------------------
(* Presence.                                                               *)

LEMMA PresenceInit == P!Init => P!PresenceInv
<1> SUFFICES ASSUME P!Init PROVE P!PresenceInv
  OBVIOUS
<1>1. P!TypeOK
  <2>1. /\ ppc \in [PresenceConns -> P!PCs] /\ tm \in [PresenceConns -> P!Timers]
        /\ ppod \in [PresenceConns -> PresencePods \cup {NoPod}]
        /\ dev \in [PresenceConns -> PresenceDevices \cup {NoDevice}]
        /\ pfaults \in 0..PresenceFaults
    BY PresenceConstants DEF P!Init, P!PCs, P!Timers
  <2>2. timers \in [PresencePods -> [PresenceDevices -> PresenceConns \cup {NoConn}]]
    BY DEF P!Init
  <2>3. QED
    BY <2>1, <2>2 DEF P!Init, P!TypeOK
<1>2. P!RegisteredIsPending /\ P!OnlineIsBacked /\ P!FlapNeedsCrossing
  BY PresenceConstants DEF P!Init, P!RegisteredIsPending, P!OnlineIsBacked, P!FlapNeedsCrossing
<1>3. \A c \in PresenceConns : P!ConnExact(c)
  BY DEF P!Init, P!ConnExact
<1>4. P!Orderly /\ online = {}
  BY DEF P!Init, P!Orderly, P!In
<1>5. QED
  BY <1>1, <1>2, <1>3, <1>4 DEF P!PresenceInv, P!Inv

(* The parts of the invariant that a step has to restore: the properties   *)
(* themselves follow from them.                                            *)
LEMMA PresenceWhole ==
  ASSUME P!TypeOK', P!RegisteredIsPending', \A c \in PresenceConns : P!ConnExact(c)',
         pfaults' = 0 => \A d \in online' : P!Backed(d)',
         ~pcrossed' => P!Orderly'
  PROVE  P!PresenceInv'
<1>1. ASSUME NEW d \in PresenceDevices, P!Backed(d)' PROVE ~P!Abandoned(d)'
  <2>1. CASE P!In(d)' # {}
    BY <2>1 DEF P!In, P!Abandoned
  <2>2. ASSUME NEW p \in PresencePods, timers'[p][d] # NoConn PROVE ~P!Abandoned(d)'
    <3>1. timers'[p][d] \in PresenceConns
      BY <2>2 DEF P!TypeOK
    <3>2. dev'[timers'[p][d]] = d /\ tm'[timers'[p][d]] \in {"armed", "fired"}
      BY <2>2 DEF P!RegisteredIsPending
    <3>3. QED
      BY <3>1, <3>2 DEF P!Abandoned
  <2>3. ASSUME NEW c \in PresenceConns, dev'[c] = d /\ tm'[c] = "disconnect"
        PROVE  ~P!Abandoned(d)'
    BY <2>3 DEF P!Abandoned
  <2>4. QED
    BY <1>1, <2>1, <2>2, <2>3 DEF P!Backed
<1>2. P!OnlineIsBacked'
  BY <1>1 DEF P!OnlineIsBacked, P!TypeOK
<1>3. P!FlapNeedsCrossing'
  BY DEF P!FlapNeedsCrossing, P!Orderly
<1>4. QED
  BY <1>2, <1>3 DEF P!PresenceInv, P!Inv

(* The types of the variables that the proof below looks into.             *)
LEMMA PresenceTypes ==
  ASSUME P!TypeOK
  PROVE  /\ ppc \in [PresenceConns -> P!PCs] /\ tm \in [PresenceConns -> P!Timers]
         /\ ppod \in [PresenceConns -> PresencePods \cup {NoPod}]
         /\ dev \in [PresenceConns -> PresenceDevices \cup {NoDevice}]
         /\ timers \in [PresencePods -> [PresenceDevices -> PresenceConns \cup {NoConn}]]
         /\ online \subseteq PresenceDevices /\ pfaults \in Nat
  BY PresenceConstants DEF P!TypeOK

(* A step of presenceConnect, or of a timer, of one connection that        *)
(* registers nothing, arms nothing and lets nobody in or out.              *)
LEMMA PresenceQuiet ==
  ASSUME P!PresenceInv, P!TypeOK', NEW c \in PresenceConns,
         UNCHANGED <<ppod, dev, timers>>,
         \A o \in PresenceConns \ {c} : ppc'[o] = ppc[o] /\ tm'[o] = tm[o],
         ppc[c] # "unused" /\ (ppc[c] = "ended" <=> ppc'[c] = "ended") /\ ppc'[c] # "unused",
         ppc[c] \in {"connect", "announce", "live"} <=> ppc'[c] \in {"connect", "announce", "live"},
         tm[c] = "none" <=> tm'[c] = "none", tm'[c] = "armed" => tm[c] = "armed",
         tm'[c] \in {"armed", "fired"} \/ timers[ppod[c]][dev[c]] # c,
         pfaults' = 0 => /\ pfaults = 0 /\ online' \subseteq online \cup {d \in {dev[c]} : ppc[c] # "ended" /\ ppc[c] # "reconnect"}
                         /\ (tm[c] = "disconnect" /\ tm'[c] # "disconnect" => dev[c] \notin online'),
         ~pcrossed' => ~pcrossed,
         ~pcrossed /\ P!Orderly => back' = {} /\ ~flapped'
  PROVE  P!PresenceInv'
<1> USE PresenceConstants
<1>1. /\ P!TypeOK /\ P!RegisteredIsPending
      /\ ppc[c] \in P!PCs /\ ppod[c] \in PresencePods /\ dev[c] \in PresenceDevices
  BY DEF P!PresenceInv, P!Inv, P!ConnExact, P!TypeOK
<1>2. \A d : P!In(d)' = P!In(d)
  BY DEF P!In
<1>3. P!RegisteredIsPending'
  <2> SUFFICES ASSUME NEW p \in PresencePods, NEW d \in PresenceDevices, timers[p][d] # NoConn
               PROVE  LET x == timers[p][d] IN
                      ppod[x] = p /\ dev[x] = d /\ tm'[x] \in {"armed", "fired"}
    BY DEF P!RegisteredIsPending
  <2>1. PICK x \in PresenceConns : x = timers[p][d]
    BY <1>1, PresenceTypes
  <2>2. ppod[x] = p /\ dev[x] = d /\ tm[x] \in {"armed", "fired"}
    BY <1>1, <2>1 DEF P!RegisteredIsPending
  <2>3. QED
    BY <2>1, <2>2
<1>4. \A o \in PresenceConns : P!ConnExact(o)'
  BY DEF P!PresenceInv, P!ConnExact
<1>5. ASSUME pfaults' = 0, NEW d \in online' PROVE P!Backed(d)'
  <2>1. CASE d = dev[c] /\ ppc[c] # "ended" /\ ppc[c] # "reconnect"
    <3>1. c \in P!In(d)
      BY <1>1, <2>1 DEF P!In, P!PCs
    <3>2. QED
      BY <1>2, <3>1 DEF P!Backed
  <2>2. CASE d \in online
    <3>1. P!Backed(d)
      BY <1>5, <2>2 DEF P!PresenceInv
    <3>2. ASSUME NEW o \in PresenceConns, dev[o] = d, tm[o] = "disconnect" PROVE P!Backed(d)'
      <4>1. o # c \/ tm'[c] = "disconnect"
        BY <1>5, <3>2
      <4>2. QED
        BY <3>2, <4>1 DEF P!Backed
    <3>3. QED
      BY <1>2, <3>1, <3>2 DEF P!Backed
  <2>3. QED
    BY <1>5, <2>1, <2>2
<1>6. ASSUME ~pcrossed' PROVE P!Orderly'
  <2>1. P!Orderly
    BY <1>6 DEF P!PresenceInv
  <2>2. \A o \in PresenceConns : tm'[o] = "armed" => tm[o] = "armed"
    OBVIOUS
  <2>3. QED
    BY <1>2, <1>6, <2>1, <2>2 DEF P!Orderly
<1>7. QED
  BY <1>3, <1>4, <1>5, <1>6, PresenceWhole

LEMMA PresenceOpen ==
  ASSUME P!PresenceInv, NEW c \in PresenceConns, NEW p \in PresencePods,
         NEW d \in PresenceDevices, P!Open(c, p, d)
  PROVE  P!PresenceInv'
<1> USE PresenceConstants
<1>1. P!TypeOK /\ P!RegisteredIsPending
  BY DEF P!PresenceInv, P!Inv
<1>2. P!TypeOK'
  BY <1>1 DEF P!Open, P!TypeOK, P!PCs
<1>3. /\ ppc[c] = "unused" /\ tm[c] = "none" /\ ppc'[c] = "reconnect"
      /\ ppod'[c] = p /\ dev'[c] = d
      /\ \A o \in PresenceConns \ {c} : ppc'[o] = ppc[o] /\ ppod'[o] = ppod[o] /\ dev'[o] = dev[o]
      /\ UNCHANGED <<tm, timers, online, shown, back, flapped, pfaults, pcrossed>>
  BY <1>1 DEF P!Open, P!TypeOK, P!PresenceInv, P!ConnExact
<1>4. \A e : P!In(e)' = P!In(e)
  BY <1>3 DEF P!In
<1>5. P!RegisteredIsPending'
  <2> SUFFICES ASSUME NEW q \in PresencePods, NEW e \in PresenceDevices, timers[q][e] # NoConn
               PROVE  LET x == timers[q][e] IN
                      ppod'[x] = q /\ dev'[x] = e /\ tm[x] \in {"armed", "fired"}
    BY <1>3 DEF P!RegisteredIsPending
  <2>1. PICK x \in PresenceConns : x = timers[q][e]
    BY <1>1, PresenceTypes
  <2>2. ppod[x] = q /\ dev[x] = e /\ tm[x] \in {"armed", "fired"}
    BY <1>1, <2>1 DEF P!RegisteredIsPending
  <2>3. QED
    BY <1>3, <2>1, <2>2
<1>6. \A o \in PresenceConns : P!ConnExact(o)'
  BY <1>3 DEF P!PresenceInv, P!ConnExact
<1>7. ASSUME pfaults' = 0, NEW e \in online' PROVE P!Backed(e)'
  <2>1. P!Backed(e)
    BY <1>3, <1>7 DEF P!PresenceInv
  <2>2. QED
    BY <1>3, <1>4, <2>1 DEF P!Backed
<1>8. ASSUME ~pcrossed' PROVE P!Orderly'
  <2>1. P!Orderly
    BY <1>3, <1>8 DEF P!PresenceInv
  <2>2. ASSUME NEW x \in PresenceConns, NEW y \in PresenceConns,
               x \in P!In(dev[x])', y \in P!In(dev[x])'
        PROVE  x = y
    <3>1. x # c
      BY <1>3, <2>2 DEF P!In
    <3>2. x \in P!In(dev[x]) /\ y \in P!In(dev[x])
      BY <1>3, <1>4, <2>2, <3>1
    <3>3. QED
      BY <2>1, <3>2 DEF P!Orderly
  <2>3. ASSUME NEW x \in PresenceConns, tm'[x] = "armed"
        PROVE  timers'[ppod'[x]][dev'[x]] = x /\ P!In(dev[x])' = {}
    <3>1. x # c
      BY <1>3, <2>3
    <3>2. timers[ppod[x]][dev[x]] = x /\ P!In(dev[x]) = {}
      BY <1>3, <2>1, <2>3 DEF P!Orderly
    <3>3. QED
      BY <1>3, <1>4, <3>1, <3>2
  <2>4. back' = {} /\ ~flapped'
    BY <1>3, <2>1 DEF P!Orderly
  <2>5. QED
    BY <2>2, <2>3, <2>4 DEF P!Orderly
<1>9. QED
  BY <1>2, <1>5, <1>6, <1>7, <1>8, PresenceWhole

(* What a write to one slot of FlapDamper.timers leaves of the others.     *)
LEMMA PresenceSlot ==
  ASSUME timers \in [PresencePods -> [PresenceDevices -> PresenceConns \cup {NoConn}]],
         NEW p \in PresencePods, NEW d \in PresenceDevices, NEW x \in PresenceConns \cup {NoConn}
  PROVE  LET t == [timers EXCEPT ![p][d] = x] IN
         /\ t \in [PresencePods -> [PresenceDevices -> PresenceConns \cup {NoConn}]]
         /\ \A q \in PresencePods, e \in PresenceDevices :
              t[q][e] = IF q = p /\ e = d THEN x ELSE timers[q][e]
<1>1. [timers[p] EXCEPT ![d] = x] \in [PresenceDevices -> PresenceConns \cup {NoConn}]
  OBVIOUS
<1>2. QED
  BY <1>1

LEMMA PresenceReconnected ==
  ASSUME P!PresenceInv, NEW c \in PresenceConns, P!Reconnected(c)
  PROVE  P!PresenceInv'
<1> USE PresenceConstants
<1>1. P!TypeOK /\ P!RegisteredIsPending
  BY DEF P!PresenceInv, P!Inv
<1>a. PICK p \in PresencePods : p = ppod[c]
  BY DEF P!PresenceInv, P!ConnExact, P!Reconnected
<1>b. PICK d \in PresenceDevices : d = dev[c]
  BY DEF P!PresenceInv, P!ConnExact, P!Reconnected
<1>c. PICK r \in PresenceConns \cup {NoConn} : r = timers[p][d]
  BY <1>1, PresenceTypes
<1>d. /\ timers' \in [PresencePods -> [PresenceDevices -> PresenceConns \cup {NoConn}]]
      /\ \A q \in PresencePods, e \in PresenceDevices :
           timers'[q][e] = IF q = p /\ e = d THEN NoConn ELSE timers[q][e]
  BY <1>1, <1>a, <1>b, PresenceTypes, PresenceSlot DEF P!Reconnected, P!Unregistered
<1>2. /\ ppc[c] = "reconnect" /\ ppc'[c] = "connect" /\ tm[c] = "none"
      /\ \A o \in PresenceConns \ {c} : ppc'[o] = ppc[o]
      /\ \A o \in PresenceConns : tm'[o] = IF o = r /\ tm[o] = "armed" THEN "stopped" ELSE tm[o]
      /\ UNCHANGED <<ppod, dev, online, shown, back, flapped, pfaults>>
  <2>1. tm' = P!Stopped(r)
    BY <1>a, <1>b, <1>c DEF P!Reconnected
  <2>2. QED
    BY <1>1, <2>1, PresenceTypes DEF P!Reconnected, P!Stopped, P!PresenceInv, P!ConnExact
<1>3. P!TypeOK'
  <2>1. ppc' \in [PresenceConns -> P!PCs]
    BY <1>1, PresenceTypes DEF P!Reconnected, P!PCs
  <2>2. tm' \in [PresenceConns -> P!Timers]
    <3>1. tm' = [t \in PresenceConns |-> IF t = r /\ tm[t] = "armed" THEN "stopped" ELSE tm[t]]
      BY <1>a, <1>b, <1>c DEF P!Reconnected, P!Stopped
    <3>2. QED
      BY <1>1, <3>1, PresenceTypes DEF P!Timers
  <2>3. QED
    BY <1>1, <1>2, <1>d, <2>1, <2>2 DEF P!TypeOK, P!Reconnected
<1>4. P!RegisteredIsPending'
  <2> SUFFICES ASSUME NEW q \in PresencePods, NEW e \in PresenceDevices, timers'[q][e] # NoConn
               PROVE  LET x == timers'[q][e] IN
                      ppod[x] = q /\ dev[x] = e /\ tm'[x] \in {"armed", "fired"}
    BY <1>2 DEF P!RegisteredIsPending
  <2>1. ~(q = p /\ e = d) /\ timers'[q][e] = timers[q][e]
    BY <1>d
  <2>2. PICK x \in PresenceConns : x = timers[q][e]
    BY <1>1, <2>1, PresenceTypes
  <2>3. ppod[x] = q /\ dev[x] = e /\ tm[x] \in {"armed", "fired"}
    BY <1>1, <2>2 DEF P!RegisteredIsPending
  <2>4. x # r
    BY <1>1, <1>c, <2>1, <2>3 DEF P!RegisteredIsPending
  <2>5. QED
    BY <1>2, <2>1, <2>2, <2>3, <2>4
<1>5. \A o \in PresenceConns : P!ConnExact(o)'
  <2>1. ASSUME NEW o \in PresenceConns PROVE P!ConnExact(o)'
    <3>1. P!ConnExact(o) /\ (tm'[o] = "none" <=> tm[o] = "none")
      BY <1>2 DEF P!PresenceInv
    <3>2. QED
      BY <1>2, <3>1 DEF P!ConnExact
  <2>2. QED
    BY <2>1
<1>6. \A e : P!In(e)' = P!In(e) \cup {x \in {c} : e = d}
  BY <1>2, <1>b DEF P!In
<1>7. ASSUME pfaults' = 0, NEW e \in online' PROVE P!Backed(e)'
  <2>1. CASE e = d
    BY <1>6, <2>1 DEF P!Backed
  <2>2. CASE e # d
    <3>1. P!Backed(e) /\ e \in PresenceDevices
      BY <1>1, <1>2, <1>7, PresenceTypes DEF P!PresenceInv
    <3>2. \A q \in PresencePods : timers'[q][e] = timers[q][e]
      BY <1>d, <2>2, <3>1
    <3>3. \A o \in PresenceConns : tm[o] = "disconnect" => tm'[o] = "disconnect"
      BY <1>2
    <3>4. QED
      BY <1>2, <1>6, <3>1, <3>2, <3>3 DEF P!Backed
  <2>3. QED
    BY <2>1, <2>2
<1>8. ASSUME ~pcrossed' PROVE P!Orderly'
  <2>1. P!Orderly /\ ~P!Crosses(c)
    BY <1>8 DEF P!PresenceInv, P!Reconnected
  <2>2. P!In(d) = {}
    <3>1. \A o \in PresenceConns \ {c} : dev[o] = d => ppc[o] = "ended"
      BY <1>b, <2>1 DEF P!Crosses
    <3>2. QED
      BY <1>2, <3>1 DEF P!In
  <2>3. ASSUME NEW x \in PresenceConns, NEW y \in PresenceConns,
               x \in P!In(dev[x])', y \in P!In(dev[x])'
        PROVE  x = y
    <3>1. CASE dev[x] = d
      BY <1>2, <1>6, <2>2, <2>3, <3>1
    <3>2. CASE dev[x] # d
      BY <1>2, <1>6, <2>1, <2>3, <3>2 DEF P!Orderly
    <3>3. QED
      BY <3>1, <3>2
  <2>4. ASSUME NEW x \in PresenceConns, tm'[x] = "armed"
        PROVE  timers'[ppod'[x]][dev'[x]] = x /\ P!In(dev[x])' = {}
    <3>1. tm[x] = "armed" /\ x # r /\ x # c
      BY <1>2, <2>4
    <3>2. timers[ppod[x]][dev[x]] = x /\ P!In(dev[x]) = {}
      BY <2>1, <3>1 DEF P!Orderly
    <3>3. dev[x] # d
      <4> SUFFICES ASSUME dev[x] = d PROVE FALSE
        OBVIOUS
      <4>1. ppod[x] = p
        BY <1>a, <1>b, <2>1, <3>1 DEF P!Crosses
      <4>2. QED
        BY <1>c, <3>1, <3>2, <4>1
    <3>4. ppod[x] \in PresencePods /\ dev[x] \in PresenceDevices
      BY <3>1 DEF P!PresenceInv, P!ConnExact
    <3>5. QED
      BY <1>2, <1>6, <1>d, <3>2, <3>3, <3>4
  <2>5. back' = {} /\ ~flapped'
    BY <1>2, <2>1 DEF P!Orderly
  <2>6. QED
    BY <2>3, <2>4, <2>5 DEF P!Orderly
<1>9. QED
  BY <1>3, <1>4, <1>5, <1>7, <1>8, PresenceWhole

LEMMA PresenceDisconnected ==
  ASSUME P!PresenceInv, NEW c \in PresenceConns, P!Disconnected(c)
  PROVE  P!PresenceInv'
<1> USE PresenceConstants
<1>1. P!TypeOK /\ P!RegisteredIsPending
  BY DEF P!PresenceInv, P!Inv
<1>a. PICK p \in PresencePods : p = ppod[c]
  BY DEF P!PresenceInv, P!ConnExact, P!Disconnected
<1>b. PICK d \in PresenceDevices : d = dev[c]
  BY DEF P!PresenceInv, P!ConnExact, P!Disconnected
<1>c. PICK r \in PresenceConns \cup {NoConn} : r = timers[p][d]
  BY <1>1, PresenceTypes
<1>d. /\ timers' \in [PresencePods -> [PresenceDevices -> PresenceConns \cup {NoConn}]]
      /\ \A q \in PresencePods, e \in PresenceDevices :
           timers'[q][e] = IF q = p /\ e = d THEN c ELSE timers[q][e]
  BY <1>1, <1>a, <1>b, PresenceTypes, PresenceSlot DEF P!Disconnected
<1>2. /\ ppc[c] = "live" /\ ppc'[c] = "ended" /\ tm[c] = "none" /\ tm'[c] = "armed"
      /\ \A o \in PresenceConns \ {c} :
           /\ ppc'[o] = ppc[o]
           /\ tm'[o] = IF o = r /\ tm[o] = "armed" THEN "stopped" ELSE tm[o]
      /\ tm' \in [PresenceConns -> P!Timers]
      /\ UNCHANGED <<ppod, dev, online, shown, back, flapped, pfaults, pcrossed>>
  <2>1. tm' = [P!Stopped(r) EXCEPT ![c] = "armed"]
    BY <1>a, <1>b, <1>c DEF P!Disconnected
  <2>2. P!Stopped(r) = [t \in PresenceConns |-> IF t = r /\ tm[t] = "armed" THEN "stopped" ELSE tm[t]]
    BY DEF P!Stopped
  <2>3. P!Stopped(r) \in [PresenceConns -> P!Timers]
    BY <1>1, <2>2, PresenceTypes DEF P!Timers
  <2>4. tm' \in [PresenceConns -> P!Timers] /\ tm'[c] = "armed"
        /\ \A o \in PresenceConns \ {c} :
             tm'[o] = IF o = r /\ tm[o] = "armed" THEN "stopped" ELSE tm[o]
    BY <2>1, <2>2, <2>3 DEF P!Timers
  <2>5. QED
    BY <1>1, <2>4, PresenceTypes DEF P!Disconnected, P!PresenceInv, P!ConnExact
<1>3. P!TypeOK'
  <2>1. ppc' \in [PresenceConns -> P!PCs]
    BY <1>1, PresenceTypes DEF P!Disconnected, P!PCs
  <2>2. QED
    BY <1>1, <1>2, <1>d, <2>1 DEF P!TypeOK
<1>4. P!RegisteredIsPending'
  <2> SUFFICES ASSUME NEW q \in PresencePods, NEW e \in PresenceDevices, timers'[q][e] # NoConn
               PROVE  LET x == timers'[q][e] IN
                      ppod[x] = q /\ dev[x] = e /\ tm'[x] \in {"armed", "fired"}
    BY <1>2 DEF P!RegisteredIsPending
  <2>1. CASE q = p /\ e = d
    BY <1>2, <1>a, <1>b, <1>d, <2>1
  <2>2. CASE ~(q = p /\ e = d)
    <3>1. timers'[q][e] = timers[q][e]
      BY <1>d, <2>2
    <3>2. PICK x \in PresenceConns : x = timers[q][e]
      BY <1>1, <3>1, PresenceTypes
    <3>3. ppod[x] = q /\ dev[x] = e /\ tm[x] \in {"armed", "fired"}
      BY <1>1, <3>2 DEF P!RegisteredIsPending
    <3>4. x # r /\ x # c
      BY <1>1, <1>2, <1>c, <2>2, <3>3 DEF P!RegisteredIsPending
    <3>5. QED
      BY <1>2, <3>1, <3>2, <3>3, <3>4
  <2>3. QED
    BY <2>1, <2>2
<1>5. \A o \in PresenceConns : P!ConnExact(o)'
  <2>1. ASSUME NEW o \in PresenceConns PROVE P!ConnExact(o)'
    <3>1. P!ConnExact(o) /\ (o # c => (tm'[o] = "none" <=> tm[o] = "none"))
      BY <1>2 DEF P!PresenceInv
    <3>2. QED
      BY <1>2, <3>1 DEF P!ConnExact
  <2>2. QED
    BY <2>1
<1>6. (\A e : P!In(e)' = P!In(e) \ {c}) /\ c \in P!In(d)
  BY <1>2, <1>b DEF P!In
<1>7. ASSUME pfaults' = 0, NEW e \in online' PROVE P!Backed(e)'
  <2>1. CASE e = d
    <3>1. timers'[p][d] # NoConn
      BY <1>d
    <3>2. QED
      BY <2>1, <3>1 DEF P!Backed
  <2>2. CASE e # d
    <3>1. P!Backed(e) /\ e \in PresenceDevices
      BY <1>1, <1>2, <1>7, PresenceTypes DEF P!PresenceInv
    <3>2. \A q \in PresencePods : timers'[q][e] = timers[q][e]
      BY <1>d, <2>2, <3>1
    <3>3. \A o \in PresenceConns : tm[o] = "disconnect" => tm'[o] = "disconnect"
      BY <1>2
    <3>4. P!In(e)' = P!In(e)
      BY <1>2, <1>6, <1>b, <2>2 DEF P!In
    <3>5. QED
      BY <1>2, <3>1, <3>2, <3>3, <3>4 DEF P!Backed
  <2>3. QED
    BY <2>1, <2>2
<1>8. ASSUME ~pcrossed' PROVE P!Orderly'
  <2>1. P!Orderly
    BY <1>2, <1>8 DEF P!PresenceInv
  <2>2. P!In(d)' = {}
    BY <1>6, <1>b, <2>1 DEF P!Orderly, P!In
  <2>3. ASSUME NEW x \in PresenceConns, NEW y \in PresenceConns,
               x \in P!In(dev[x])', y \in P!In(dev[x])'
        PROVE  x = y
    <3>1. x \in P!In(dev[x]) /\ y \in P!In(dev[x])
      BY <1>2, <1>6, <2>3
    <3>2. QED
      BY <2>1, <3>1 DEF P!Orderly
  <2>4. ASSUME NEW x \in PresenceConns, tm'[x] = "armed"
        PROVE  timers'[ppod'[x]][dev'[x]] = x /\ P!In(dev[x])' = {}
    <3>1. CASE x = c
      BY <1>2, <1>a, <1>b, <1>d, <2>2, <3>1
    <3>2. CASE x # c
      <4>1. tm[x] = "armed"
        BY <1>2, <2>4, <3>2
      <4>2. timers[ppod[x]][dev[x]] = x /\ P!In(dev[x]) = {}
        BY <2>1, <4>1 DEF P!Orderly
      <4>3. dev[x] # d
        BY <1>6, <4>2
      <4>4. ppod[x] \in PresencePods /\ dev[x] \in PresenceDevices
        BY <4>1 DEF P!PresenceInv, P!ConnExact
      <4>5. QED
        BY <1>2, <1>6, <1>d, <4>2, <4>3, <4>4
    <3>3. QED
      BY <3>1, <3>2
  <2>5. back' = {} /\ ~flapped'
    BY <1>2, <2>1 DEF P!Orderly
  <2>6. QED
    BY <2>3, <2>4, <2>5 DEF P!Orderly
<1>9. QED
  BY <1>3, <1>4, <1>5, <1>7, <1>8, PresenceWhole

(* A callback that finds a timer registered, be it its own or not.         *)
LEMMA PresenceCallback ==
  ASSUME P!PresenceInv, NEW c \in PresenceConns, tm[c] = "fired", P!AnyRegistered(c),
         tm' = [tm EXCEPT ![c] = "disconnect"],
         timers' = [timers EXCEPT ![ppod[c]][dev[c]] = NoConn],
         pcrossed' = (pcrossed \/ timers[ppod[c]][dev[c]] # c),
         UNCHANGED <<ppc, ppod, dev, online, shown, back, flapped, pfaults>>
  PROVE  P!PresenceInv'
<1> USE PresenceConstants
<1>1. P!TypeOK /\ P!RegisteredIsPending
  BY DEF P!PresenceInv, P!Inv
<1>a. PICK p \in PresencePods : p = ppod[c]
  BY DEF P!PresenceInv, P!ConnExact
<1>b. PICK d \in PresenceDevices : d = dev[c]
  BY DEF P!PresenceInv, P!ConnExact
<1>d. /\ timers' \in [PresencePods -> [PresenceDevices -> PresenceConns \cup {NoConn}]]
      /\ \A q \in PresencePods, e \in PresenceDevices :
           timers'[q][e] = IF q = p /\ e = d THEN NoConn ELSE timers[q][e]
  BY <1>1, <1>a, <1>b, PresenceTypes, PresenceSlot
<1>2. /\ tm' \in [PresenceConns -> P!Timers] /\ tm'[c] = "disconnect"
      /\ \A o \in PresenceConns \ {c} : tm'[o] = tm[o]
  BY <1>1, PresenceTypes DEF P!Timers
<1>3. P!TypeOK'
  BY <1>1, <1>2, <1>d DEF P!TypeOK
<1>4. P!RegisteredIsPending'
  <2> SUFFICES ASSUME NEW q \in PresencePods, NEW e \in PresenceDevices, timers'[q][e] # NoConn
               PROVE  LET x == timers'[q][e] IN
                      ppod[x] = q /\ dev[x] = e /\ tm'[x] \in {"armed", "fired"}
    BY DEF P!RegisteredIsPending
  <2>1. ~(q = p /\ e = d) /\ timers'[q][e] = timers[q][e]
    BY <1>d
  <2>2. PICK x \in PresenceConns : x = timers[q][e]
    BY <1>1, <2>1, PresenceTypes
  <2>3. ppod[x] = q /\ dev[x] = e /\ tm[x] \in {"armed", "fired"}
    BY <1>1, <2>1, <2>2 DEF P!RegisteredIsPending
  <2>4. x # c
    BY <1>a, <1>b, <2>1, <2>3
  <2>5. QED
    BY <1>2, <2>1, <2>2, <2>3, <2>4
<1>5. \A o \in PresenceConns : P!ConnExact(o)'
  BY <1>2 DEF P!PresenceInv, P!ConnExact
<1>6. \A e : P!In(e)' = P!In(e)
  BY DEF P!In
<1>7. ASSUME pfaults' = 0, NEW e \in online' PROVE P!Backed(e)'
  <2>1. CASE e = d
    BY <1>2, <1>b, <2>1 DEF P!Backed
  <2>2. CASE e # d
    <3>1. P!Backed(e) /\ e \in PresenceDevices
      BY <1>1, <1>7, PresenceTypes DEF P!PresenceInv
    <3>2. \A q \in PresencePods : timers'[q][e] = timers[q][e]
      BY <1>d, <2>2, <3>1
    <3>3. \A o \in PresenceConns : tm[o] = "disconnect" => tm'[o] = "disconnect"
      BY <1>2
    <3>4. QED
      BY <1>6, <3>1, <3>2, <3>3 DEF P!Backed
  <2>3. QED
    BY <2>1, <2>2
<1>8. ASSUME ~pcrossed' PROVE P!Orderly'
  <2>1. P!Orderly /\ timers[p][d] = c
    BY <1>8, <1>a, <1>b DEF P!PresenceInv
  <2>2. ASSUME NEW x \in PresenceConns, tm'[x] = "armed"
        PROVE  timers'[ppod'[x]][dev'[x]] = x /\ P!In(dev[x])' = {}
    <3>1. x # c /\ tm[x] = "armed"
      BY <1>2, <2>2
    <3>2. timers[ppod[x]][dev[x]] = x /\ P!In(dev[x]) = {}
      BY <2>1, <3>1 DEF P!Orderly
    <3>3. ppod[x] \in PresencePods /\ dev[x] \in PresenceDevices
      BY <3>1 DEF P!PresenceInv, P!ConnExact
    <3>4. QED
      BY <1>6, <1>d, <2>1, <3>1, <3>2, <3>3
  <2>3. QED
    BY <1>6, <2>1, <2>2 DEF P!Orderly
<1>9. QED
  BY <1>3, <1>4, <1>5, <1>7, <1>8, PresenceWhole

LEMMA PresenceConnect ==
  ASSUME P!PresenceInv, NEW c \in PresenceConns,
         P!Connect(c) \/ P!AnnounceOnline(c) \/ P!Heartbeat(c)
  PROVE  P!PresenceInv'
<1>0. P!TypeOK /\ P!ConnExact(c) /\ tm[c] = "none" /\ timers[ppod[c]][dev[c]] # c
  <2>1. P!TypeOK /\ P!RegisteredIsPending /\ P!ConnExact(c) /\ ppc[c] \in {"connect", "announce", "live"}
    BY DEF P!PresenceInv, P!Inv, P!Connect, P!AnnounceOnline, P!Heartbeat
  <2>2. tm[c] = "none" /\ ppod[c] \in PresencePods /\ dev[c] \in PresenceDevices
    BY <2>1 DEF P!ConnExact
  <2>3. timers[ppod[c]][dev[c]] # c
    BY <2>1, <2>2, PresenceConstants DEF P!RegisteredIsPending
  <2>4. QED
    BY <2>1, <2>2, <2>3
<1>1. /\ ppc[c] \in {"connect", "announce", "live"} /\ ppc'[c] \in {"announce", "live"}
      /\ ppc' \in [PresenceConns -> P!PCs]
      /\ \A o \in PresenceConns \ {c} : ppc'[o] = ppc[o]
      /\ UNCHANGED <<ppod, dev, tm, timers, back, flapped, pcrossed>>
      /\ online' \subseteq online \cup {dev[c]} /\ online' \subseteq PresenceDevices
      /\ shown' \in {"online", "offline"}
  BY <1>0 DEF P!Connect, P!AnnounceOnline, P!Heartbeat, P!TypeOK, P!PCs, P!ConnExact
<1>2. pfaults' \in 0..PresenceFaults /\ (pfaults' = 0 => pfaults = 0)
  BY <1>0, PresenceConstants DEF P!Connect, P!AnnounceOnline, P!Heartbeat, P!TypeOK, P!Fault
<1>3. P!TypeOK'
  BY <1>0, <1>1, <1>2 DEF P!TypeOK
<1>4. ~pcrossed /\ P!Orderly => back' = {} /\ ~flapped'
  BY <1>1 DEF P!Orderly
<1>5. QED
  BY <1>0, <1>1, <1>2, <1>3, <1>4, PresenceQuiet

LEMMA PresenceTimer ==
  ASSUME P!PresenceInv, NEW c \in PresenceConns,
         P!Fire(c) \/ P!Callback(c) \/ P!Disconnect(c) \/ P!AnnounceOffline(c)
  PROVE  P!PresenceInv'
<1> USE PresenceConstants
<1>0. /\ P!TypeOK /\ P!RegisteredIsPending /\ P!ConnExact(c) /\ ppc[c] = "ended"
      /\ ppod[c] \in PresencePods /\ dev[c] \in PresenceDevices
  BY DEF P!PresenceInv, P!Inv, P!Fire, P!Callback, P!Disconnect, P!AnnounceOffline, P!ConnExact
<1>a. CASE P!Callback(c) /\ P!AnyRegistered(c)
  BY <1>a, PresenceCallback DEF P!Callback
<1>b. CASE P!Fire(c) \/ P!Disconnect(c) \/ P!AnnounceOffline(c)
           \/ (P!Callback(c) /\ ~P!AnyRegistered(c))
  <2>1. /\ \A o \in PresenceConns \ {c} : tm'[o] = tm[o]
        /\ tm' \in [PresenceConns -> P!Timers] /\ tm[c] # "none" /\ tm'[c] \notin {"none", "armed", "disconnect"}
        /\ tm'[c] = "fired" \/ tm[c] \in {"disconnect", "announce"}
             \/ timers[ppod[c]][dev[c]] = NoConn
        /\ UNCHANGED <<ppc, ppod, dev, timers, pcrossed>>
    BY <1>0, <1>b, PresenceTypes DEF P!Fire, P!Callback, P!Disconnect, P!AnnounceOffline, P!AnyRegistered,
         P!Timers
  <2>2. tm'[c] \in {"armed", "fired"} \/ timers[ppod[c]][dev[c]] # c
    BY <1>0, <2>1 DEF P!RegisteredIsPending
  <2>3. pfaults' \in 0..PresenceFaults /\ (pfaults' = 0 => pfaults = 0)
    BY <1>0, <1>b DEF P!Fire, P!Callback, P!Disconnect, P!AnnounceOffline, P!TypeOK, P!Fault
  <2>7. /\ online' \subseteq online
        /\ shown' \in {"online", "offline"} /\ flapped' \in BOOLEAN /\ back' \subseteq PresenceConns
    BY <1>0, <1>b, Zenon DEF P!Fire, P!Callback, P!Disconnect, P!AnnounceOffline, P!TypeOK, P!Fault
  <2>8. ASSUME pfaults' = 0, tm[c] = "disconnect" PROVE dev[c] \notin online'
    <3>1. P!Disconnect(c)
      BY <1>b, <2>8 DEF P!Fire, P!Callback, P!AnnounceOffline
    <3>2. ~P!Fault
      BY <1>0, <2>8 DEF P!Fault, P!TypeOK
    <3>3. QED
      BY <3>1, <3>2 DEF P!Disconnect
  <2>4. P!TypeOK'
    BY <1>0, <2>1, <2>3, <2>7 DEF P!TypeOK
  <2>5. ASSUME ~pcrossed, P!Orderly PROVE back' = {} /\ ~flapped'
    <3>1. back = {} /\ ~flapped
      BY <2>5 DEF P!Orderly
    <3>2. CASE P!Fire(c)
      <4>1. P!In(dev[c]) = {}
        BY <2>5, <3>2 DEF P!Orderly, P!Fire
      <4>3. P!Live(dev[c]) = {}
        BY <4>1 DEF P!In, P!Live
      <4>2. QED
        BY <3>1, <3>2, <4>3 DEF P!Fire
    <3>3. CASE ~P!Fire(c)
      <4>1. UNCHANGED back
        BY <1>b, <3>3 DEF P!Callback, P!Disconnect, P!AnnounceOffline
      <4>2. UNCHANGED flapped \/ flapped' = (flapped \/ (c \in back /\ P!Live(dev[c]) # {}))
        BY <1>b, <3>3, Zenon DEF P!Callback, P!Disconnect, P!AnnounceOffline
      <4>3. c \notin back /\ back' = {}
        BY <3>1, <4>1
      <4>4. ~flapped'
        BY <3>1, <4>2, <4>3, Zenon
      <4>5. QED
        BY <4>3, <4>4
    <3>4. QED
      BY <3>2, <3>3
  <2>6. QED
    BY <1>0, <2>1, <2>2, <2>3, <2>4, <2>5, <2>7, <2>8, PresenceQuiet
<1>c. QED
  BY <1>a, <1>b

LEMMA PresencePrune ==
  ASSUME P!PresenceInv, (\E d \in PresenceDevices : P!Prune(d)) \/ UNCHANGED PVars
  PROVE  P!PresenceInv'
<1>1. /\ UNCHANGED <<ppc, ppod, dev, tm, timers, shown, back, flapped, pfaults, pcrossed>>
      /\ online' \subseteq online
  BY DEF P!Prune, PVars
<1>2. P!TypeOK' /\ P!RegisteredIsPending' /\ \A c \in PresenceConns : P!ConnExact(c)'
  BY <1>1 DEF P!PresenceInv, P!Inv, P!TypeOK, P!RegisteredIsPending, P!ConnExact
<1>3. \A e : P!In(e)' = P!In(e) /\ P!Backed(e)' = P!Backed(e)
  BY <1>1 DEF P!In, P!Backed
<1>4. P!Orderly' = P!Orderly
  BY <1>1, <1>3 DEF P!Orderly
<1>5. QED
  BY <1>1, <1>2, <1>3, <1>4, PresenceWhole DEF P!PresenceInv

LEMMA PresenceStep == P!PresenceInv /\ P!Next => P!PresenceInv'
  BY PresenceOpen, PresenceReconnected, PresenceConnect, PresenceDisconnected, PresenceTimer,
     PresencePrune DEF P!Next, P!Steps

-----------------------------------------------------------------------------
(* Receipts.                                                               *)

\* The types of the watermarks of all connections.
Marks == [ReceiptConns -> [R!Kinds -> 0..MaxSeq]]

\* The types of Receipts.
RTypes ==
    /\ rconn \in [ReceiptConns -> {"new", "open", "done", "gone"}]
    /\ pending \in Marks /\ batch \in Marks /\ top \in Marks /\ sent \in Marks
    /\ rshown \in [R!Kinds -> 0..MaxSeq]
    /\ item \in [ReceiptConns -> {R!None} \cup [kind : R!Kinds, seq : 1..MaxSeq]]
    /\ enabled \in BOOLEAN /\ ever \in BOOLEAN /\ rcrossed \in BOOLEAN

\* The privacy gate with what is under way.
RGate ==
    /\ rshown["read"] > 0 => ever
    /\ enabled => ever
    /\ \A c \in ReceiptConns : item[c].kind = "read" => ever

LEMMA ReceiptParts ==
  ASSUME R!ReceiptsInv
  PROVE  /\ RTypes /\ RGate
         /\ \A c \in ReceiptConns, k \in R!Kinds : R!Accounted(c, k)
         /\ ~rcrossed => \A c \in ReceiptConns, k \in R!Kinds : R!InOrder(c, k) /\ top[c][k] <= rshown[k]
  BY DEF R!ReceiptsInv, R!ReceiptsSound, R!TypeOK, R!PrivateReads, R!WatermarkRises, RTypes, RGate, Marks

LEMMA ReceiptWhole ==
  ASSUME RTypes', RGate',
         \A c \in ReceiptConns, k \in R!Kinds : R!Accounted(c, k)',
         ~rcrossed' => \A c \in ReceiptConns, k \in R!Kinds :
                          R!InOrder(c, k)' /\ top'[c][k] <= rshown'[k]
  PROVE  R!ReceiptsInv'
<1>1. R!Lossless'
  <2> SUFFICES ASSUME NEW c \in ReceiptConns, NEW k \in R!Kinds
               PROVE  /\ top'[c][k] <= sent'[c][k]
                      /\ (rconn'[c] = "gone" /\ <<c, k>> \notin rfailed') => top'[c][k] = sent'[c][k]
    BY DEF R!Lossless
  <2>1. top'[c][k] \in Nat /\ sent'[c][k] \in Nat
    BY ReceiptConstants DEF RTypes, Marks
  <2>2. top'[c][k] \in R!Held(c, k)'
    BY DEF R!Held
  <2>3. QED
    BY <2>1, <2>2 DEF R!Accounted
<1>2. R!PrivateReads' /\ R!WatermarkRises' /\ R!TypeOK'
  BY DEF R!PrivateReads, R!WatermarkRises, R!TypeOK, RTypes, RGate, Marks
<1>3. QED
  BY <1>1, <1>2 DEF R!ReceiptsInv, R!ReceiptsSound, RTypes, RGate, Marks

LEMMA ReceiptInit == R!Init => R!ReceiptsInv
<1> SUFFICES ASSUME R!Init PROVE R!ReceiptsInv
  OBVIOUS
<1>1. R!NoMarks \in [R!Kinds -> 0..MaxSeq] /\ R!NoMarks = [k \in R!Kinds |-> 0]
  BY ReceiptConstants DEF R!NoMarks
<1>2. RTypes
  BY <1>1 DEF R!Init, RTypes, Marks
<1>3. ASSUME NEW c \in ReceiptConns, NEW k \in R!Kinds
      PROVE  /\ pending[c][k] = 0 /\ batch[c][k] = 0 /\ top[c][k] = 0 /\ sent[c][k] = 0
             /\ item[c].kind # k /\ rshown[k] = 0 /\ ~R!Busy(c) /\ rconn[c] = "new"
  BY <1>1 DEF R!Init, R!Kinds, R!None, R!Busy
<1>4. ASSUME NEW c \in ReceiptConns, NEW k \in R!Kinds
      PROVE  R!Accounted(c, k) /\ R!InOrder(c, k)
  <2>1. R!Held(c, k) = {0}
    BY <1>3 DEF R!Held
  <2>2. R!Accounted(c, k)
    BY <1>3, <2>1 DEF R!Accounted
  <2>3. R!InOrder(c, k)
    BY <1>3 DEF R!InOrder
  <2>4. QED
    BY <2>2, <2>3
<1>5. \A c \in ReceiptConns : item[c].kind = "none"
  BY DEF R!Init, R!None
<1>6. R!Lossless /\ R!WatermarkRises /\ R!PrivateReads
  <2>1. R!Lossless
    BY <1>3 DEF R!Lossless
  <2>2. R!WatermarkRises
    BY <1>3 DEF R!WatermarkRises
  <2>3. rshown["read"] = 0
    BY <1>1 DEF R!Init, R!Kinds
  <2>4. QED
    BY <2>1, <2>2, <2>3 DEF R!PrivateReads
<1>7. ever = enabled
  BY DEF R!Init
<1>8. QED
  BY <1>2, <1>4, <1>5, <1>6, <1>7 DEF R!ReceiptsInv, R!ReceiptsSound, R!TypeOK, RTypes, Marks

(* Open, Disconnect and the end of the loop.                               *)
LEMMA ReceiptConn ==
  ASSUME R!ReceiptsInv, NEW c \in ReceiptConns, R!Open(c) \/ R!Disconnect(c) \/ R!LoopEnds(c)
  PROVE  R!ReceiptsInv'
<1>1. /\ UNCHANGED <<pending, batch, item, enabled, ever, rshown, top, sent, rcrossed, rfailed>>
      /\ rconn' \in [ReceiptConns -> {"new", "open", "done", "gone"}]
      /\ \A d \in ReceiptConns \ {c} : rconn'[d] = rconn[d]
      /\ rconn'[c] # "gone" \/ (pending[c] = R!NoMarks /\ batch[c] = R!NoMarks /\ item[c] = R!None)
  BY ReceiptParts DEF R!Open, R!Disconnect, R!LoopEnds, R!FinalFlush, RTypes
<1>2. RTypes' /\ RGate'
  BY <1>1, ReceiptParts DEF RTypes, RGate
<1>3. ASSUME NEW d \in ReceiptConns, NEW k \in R!Kinds PROVE R!Accounted(d, k)'
  <2>1. R!Accounted(d, k)
    BY ReceiptParts
  <2>2. CASE d = c /\ rconn'[c] = "gone"
    <3>1. pending[c][k] = 0 /\ batch[c][k] = 0 /\ item[c].kind # k
      BY <1>1, <2>2 DEF R!NoMarks, R!None, R!Kinds
    <3>2. QED
      BY <1>1, <2>1, <2>2, <3>1 DEF R!Accounted, R!Held
  <2>3. CASE d # c \/ rconn'[c] # "gone"
    BY <1>1, <2>1, <2>3 DEF R!Accounted, R!Held
  <2>4. QED
    BY <2>2, <2>3
<1>4. \A d \in ReceiptConns, k \in R!Kinds : R!InOrder(d, k)' = R!InOrder(d, k)
  BY <1>1 DEF R!InOrder, R!Busy
<1>5. QED
  BY <1>1, <1>2, <1>3, <1>4, ReceiptParts, ReceiptWhole

(* A connection without a mark under way is not busy.                      *)
LEMMA ReceiptIdle ==
  ASSUME RTypes, NEW c \in ReceiptConns
  PROVE  ~R!Busy(c) <=> /\ \A k \in R!Kinds : pending[c][k] = 0 /\ batch[c][k] = 0
                        /\ item[c] = R!None
<1>1. pending[c] \in [R!Kinds -> 0..MaxSeq] /\ batch[c] \in [R!Kinds -> 0..MaxSeq]
  BY DEF RTypes, Marks
<1>2. QED
  BY <1>1 DEF R!Busy, R!NoMarks

LEMMA ReceiptNext ==
  ASSUME RTypes', NEW c \in ReceiptConns
  PROVE  ~R!Busy(c)' <=> /\ \A k \in R!Kinds : pending'[c][k] = 0 /\ batch'[c][k] = 0
                         /\ item'[c] = R!None
<1>1. pending'[c] \in [R!Kinds -> 0..MaxSeq] /\ batch'[c] \in [R!Kinds -> 0..MaxSeq]
  BY DEF RTypes, Marks
<1>2. QED
  BY <1>1 DEF R!Busy, R!NoMarks

LEMMA ReceiptSubmit ==
  ASSUME R!ReceiptsInv, NEW c \in ReceiptConns, NEW k \in R!Kinds, NEW seq \in 1..MaxSeq,
         R!Submit(c, k, seq)
  PROVE  R!ReceiptsInv'
<1> USE ReceiptConstants
<1>0. RTypes /\ RGate
  BY ReceiptParts
<1>n. \A d \in ReceiptConns, j \in R!Kinds :
        pending[d][j] \in Nat /\ batch[d][j] \in Nat /\ top[d][j] \in Nat /\ sent[d][j] \in Nat
  BY <1>0 DEF RTypes, Marks
<1>1. /\ pending' \in Marks /\ sent' \in Marks
      /\ \A d \in ReceiptConns, j \in R!Kinds :
           /\ pending'[d][j] = IF d = c /\ j = k /\ seq > pending[c][k] THEN seq ELSE pending[d][j]
           /\ sent'[d][j] = IF d = c /\ j = k /\ seq > sent[c][k] THEN seq ELSE sent[d][j]
  <2>1. R!Kept(pending[c][k], seq) \in 0..MaxSeq
    BY <1>0 DEF RTypes, Marks, R!Kept
  <2>2. (IF seq > sent[c][k] THEN seq ELSE sent[c][k]) \in 0..MaxSeq
    BY <1>0 DEF RTypes, Marks
  <2>3. /\ pending' = [pending EXCEPT ![c][k] = R!Kept(pending[c][k], seq)]
        /\ sent' = [sent EXCEPT ![c][k] = IF seq > sent[c][k] THEN seq ELSE sent[c][k]]
    BY DEF R!Submit
  <2>4. /\ pending' \in Marks
        /\ \A d \in ReceiptConns, j \in R!Kinds :
             pending'[d][j] = IF d = c /\ j = k THEN R!Kept(pending[c][k], seq) ELSE pending[d][j]
    <3>1. PICK v \in 0..MaxSeq : v = R!Kept(pending[c][k], seq)
      BY <2>1
    <3>2. pending' = [pending EXCEPT ![c][k] = v] /\ pending \in Marks
      BY <1>0, <2>3, <3>1 DEF RTypes
    <3>3. [pending[c] EXCEPT ![k] = v] \in [R!Kinds -> 0..MaxSeq]
      BY <3>2 DEF Marks
    <3>4. QED
      BY <3>1, <3>2, <3>3 DEF Marks
  <2>5. /\ sent' \in Marks
        /\ \A d \in ReceiptConns, j \in R!Kinds :
             sent'[d][j] = IF d = c /\ j = k THEN (IF seq > sent[c][k] THEN seq ELSE sent[c][k])
                           ELSE sent[d][j]
    <3>1. PICK v \in 0..MaxSeq : v = IF seq > sent[c][k] THEN seq ELSE sent[c][k]
      BY <2>2
    <3>2. sent' = [sent EXCEPT ![c][k] = v] /\ sent \in Marks
      BY <1>0, <2>3, <3>1 DEF RTypes
    <3>3. [sent[c] EXCEPT ![k] = v] \in [R!Kinds -> 0..MaxSeq]
      BY <3>2 DEF Marks
    <3>4. QED
      BY <3>1, <3>2, <3>3 DEF Marks
  <2>6. QED
    BY <2>4, <2>5 DEF R!Kept
<1>2. UNCHANGED <<rconn, batch, item, enabled, ever, rshown, top, rfailed>>
      /\ rcrossed' \in BOOLEAN /\ rconn[c] = "open"
  BY DEF R!Submit
<1>3. RTypes' /\ RGate'
  BY <1>0, <1>1, <1>2 DEF RTypes, RGate
<1>4. ASSUME NEW d \in ReceiptConns, NEW j \in R!Kinds PROVE R!Accounted(d, j)'
  <2>1. R!Accounted(d, j)
    BY ReceiptParts
  <2>2. CASE d = c /\ j = k
    <3>1. rconn'[d] # "gone"
      BY <1>2, <2>2
    <3>0. PICK i \in Nat : i = IF item[d].kind = j THEN item[d].seq ELSE 0
      BY <1>0 DEF RTypes, R!None, R!Kinds
    <3>5. /\ R!Held(d, j) = {pending[d][j], batch[d][j], top[d][j], i}
          /\ R!Held(d, j)' = {pending'[d][j], batch[d][j], top[d][j], i}
      BY <1>2, <3>0 DEF R!Held
    <3>6. /\ pending'[d][j] = IF seq > pending[d][j] THEN seq ELSE pending[d][j]
          /\ sent'[d][j] = IF seq > sent[d][j] THEN seq ELSE sent[d][j]
      BY <1>1, <2>2
    <3>7. /\ pending[d][j] <= sent[d][j] /\ batch[d][j] <= sent[d][j] /\ top[d][j] <= sent[d][j]
          /\ i <= sent[d][j] /\ pending[d][j] \in Nat /\ batch[d][j] \in Nat /\ top[d][j] \in Nat
          /\ sent[d][j] \in Nat
      BY <1>n, <2>1, <3>5 DEF R!Accounted
    <3>8. /\ pending'[d][j] <= sent'[d][j] /\ batch[d][j] <= sent'[d][j] /\ top[d][j] <= sent'[d][j]
          /\ i <= sent'[d][j]
      BY <3>0, <3>6, <3>7
    <3>2. \A x \in R!Held(d, j)' : x <= sent'[d][j]
      BY <3>5, <3>8
    <3>3. <<d, j>> \notin rfailed' => sent'[d][j] \in R!Held(d, j)'
      BY <1>2, <1>n, <2>1, <3>0, <3>5, <3>6 DEF R!Accounted
    <3>4. QED
      BY <1>2, <2>1, <3>1, <3>2, <3>3 DEF R!Accounted
  <2>3. CASE ~(d = c /\ j = k)
    <3>1. pending'[d][j] = pending[d][j] /\ sent'[d][j] = sent[d][j]
      BY <1>1, <2>3
    <3>2. QED
      BY <1>2, <2>1, <3>1 DEF R!Accounted, R!Held
  <2>4. QED
    BY <2>2, <2>3
<1>5. ASSUME ~rcrossed', NEW d \in ReceiptConns, NEW j \in R!Kinds
      PROVE  R!InOrder(d, j)' /\ top'[d][j] <= rshown'[j]
  <2>1. /\ ~rcrossed /\ \A e \in ReceiptConns : sent[e][k] <= seq
        /\ \A e \in ReceiptConns \ {c} : ~R!Busy(e)
    <3>1. ~rcrossed /\ (\A e \in ReceiptConns \ {c} : ~R!Busy(e))
          /\ \A e \in ReceiptConns : ~(seq < sent[e][k])
      BY <1>5 DEF R!Submit
    <3>2. QED
      BY <1>n, <3>1
  <2>2. R!InOrder(d, j) /\ top[d][j] <= rshown[j]
    BY <2>1, ReceiptParts
  <2>3. \A e \in ReceiptConns \ {c} : ~R!Busy(e)'
    <3>1. ASSUME NEW e \in ReceiptConns \ {c} PROVE ~R!Busy(e)'
      <4>1. \A i \in R!Kinds : pending'[e][i] = pending[e][i]
        BY <1>1
      <4>2. QED
        BY <1>0, <1>2, <1>3, <2>1, <4>1, ReceiptIdle, ReceiptNext
    <3>2. QED
      BY <3>1
  <2>4. \A e \in ReceiptConns : pending'[d][j] > 0 => sent'[e][j] <= pending'[d][j]
    <3>1. CASE d = c
      <4>1. CASE j = k
        <5>1. pending[c][k] <= sent[c][k]
          <6>1. R!Accounted(c, k)
            BY ReceiptParts
          <6>2. QED
            BY <6>1 DEF R!Accounted, R!Held
        <5>2. pending'[c][k] = seq
          BY <1>1, <1>n, <2>1, <5>1
        <5>3. QED
          BY <1>1, <1>n, <2>1, <3>1, <4>1, <5>2
      <4>2. CASE j # k
        BY <1>1, <2>2, <4>2 DEF R!InOrder
      <4>3. QED
        BY <4>1, <4>2
    <3>2. CASE d # c
      BY <1>3, <2>3, <3>2, ReceiptNext
    <3>3. QED
      BY <3>1, <3>2
  <2>5. QED
    BY <1>2, <2>2, <2>3, <2>4 DEF R!InOrder
<1>6. QED
  BY <1>3, <1>4, <1>5, ReceiptWhole

(* The numbers behind the invariant.                                       *)
LEMMA ReceiptNats ==
  ASSUME RTypes, NEW c \in ReceiptConns, NEW k \in R!Kinds
  PROVE  /\ pending[c][k] \in Nat /\ batch[c][k] \in Nat /\ top[c][k] \in Nat /\ sent[c][k] \in Nat
         /\ item[c] = R!None \/ (item[c].kind \in R!Kinds /\ item[c].seq \in 1..MaxSeq)
         /\ R!None.kind \notin R!Kinds
  BY ReceiptConstants DEF RTypes, Marks, R!None, R!Kinds

(* A connection that has less under way than before disturbs no order.     *)
LEMMA ReceiptBusy ==
  ASSUME R!ReceiptsInv, RTypes', NEW c \in ReceiptConns, R!Busy(c),
         \A d \in ReceiptConns \ {c} : pending'[d] = pending[d] /\ batch'[d] = batch[d] /\ item'[d] = item[d],
         ~rcrossed
  PROVE  /\ \A d, e \in ReceiptConns : d # e /\ R!Busy(d)' => ~R!Busy(e)'
         /\ \A d \in ReceiptConns \ {c}, k \in R!Kinds :
              pending'[d][k] = 0 /\ batch'[d][k] = 0 /\ item'[d].kind # k
<1>0. PICK k0 : k0 \in R!Kinds
  BY DEF R!Kinds
<1>1. \A d \in ReceiptConns \ {c} : ~R!Busy(d)
  <2>1. R!InOrder(c, k0)
    BY <1>0, ReceiptParts
  <2>2. QED
    BY <2>1 DEF R!InOrder
<1>2. \A d \in ReceiptConns \ {c} : ~R!Busy(d)'
  BY <1>1 DEF R!Busy
<1>3. QED
  BY <1>2, ReceiptNext DEF R!None, R!Kinds

LEMMA ReceiptDrain ==
  ASSUME R!ReceiptsInv, NEW c \in ReceiptConns, R!Drain(c)
  PROVE  R!ReceiptsInv'
<1> USE ReceiptConstants
<1>0. RTypes /\ RGate
  BY ReceiptParts
<1>1. R!NoMarks \in [R!Kinds -> 0..MaxSeq] /\ \A k \in R!Kinds : R!NoMarks[k] = 0
  BY DEF R!NoMarks
<1>2. /\ UNCHANGED <<rconn, item, enabled, ever, rshown, top, sent, rcrossed, rfailed>>
      /\ batch' = [batch EXCEPT ![c] = pending[c]] /\ pending' = [pending EXCEPT ![c] = R!NoMarks]
      /\ batch[c] = R!NoMarks /\ item[c] = R!None /\ rconn[c] # "gone" /\ R!Busy(c)
  BY DEF R!Drain, R!FinalFlush, R!Busy
<1>3. /\ batch' \in Marks /\ pending' \in Marks
      /\ \A d \in ReceiptConns \ {c} : batch'[d] = batch[d] /\ pending'[d] = pending[d]
      /\ batch'[c] = pending[c] /\ pending'[c] = R!NoMarks
  BY <1>0, <1>1, <1>2 DEF RTypes, Marks
<1>4. RTypes' /\ RGate'
  BY <1>0, <1>2, <1>3 DEF RTypes, RGate
<1>5. ASSUME NEW d \in ReceiptConns, NEW k \in R!Kinds PROVE R!Accounted(d, k)'
  <2>1. R!Accounted(d, k)
    BY ReceiptParts
  <2>2. CASE d = c
    <3>1. batch[c][k] = 0 /\ pending'[c][k] = 0 /\ batch'[c][k] = pending[c][k] /\ item[c].kind # k
      BY <1>1, <1>2, <1>3 DEF R!None, R!Kinds
    <3>2. R!Held(c, k)' = R!Held(c, k)
      BY <1>2, <3>1 DEF R!Held
    <3>3. QED
      BY <1>2, <2>1, <2>2, <3>1, <3>2 DEF R!Accounted
  <2>3. CASE d # c
    BY <1>2, <1>3, <2>1, <2>3 DEF R!Accounted, R!Held
  <2>4. QED
    BY <2>2, <2>3
<1>6. ASSUME ~rcrossed', NEW d \in ReceiptConns, NEW k \in R!Kinds
      PROVE  R!InOrder(d, k)' /\ top'[d][k] <= rshown'[k]
  <2>1. R!InOrder(d, k) /\ R!InOrder(c, k) /\ top[d][k] <= rshown[k]
    BY <1>2, <1>6, ReceiptParts
  <2>2. /\ \A x, e \in ReceiptConns : x # e /\ R!Busy(x)' => ~R!Busy(e)'
        /\ d # c => pending'[d][k] = 0 /\ batch'[d][k] = 0 /\ item'[d].kind # k
    BY <1>2, <1>3, <1>4, <1>6, ReceiptBusy
  <2>3. CASE d = c
    <3>1. /\ batch'[c][k] = pending[c][k] /\ pending'[c][k] = 0 /\ item'[c].kind # k
      BY <1>1, <1>2, <1>3 DEF R!None, R!Kinds
    <3>2. ASSUME NEW e \in ReceiptConns, pending[c][k] > 0 PROVE top[e][k] <= pending[c][k]
      <4>1. R!Accounted(e, k) /\ sent[e][k] <= pending[c][k]
        BY <2>1, <3>2, ReceiptParts DEF R!InOrder
      <4>2. top[e][k] <= sent[e][k]
        BY <4>1 DEF R!Accounted, R!Held
      <4>3. QED
        BY <1>0, <4>1, <4>2, ReceiptNats
    <3>3. QED
      BY <1>2, <2>1, <2>2, <2>3, <3>1, <3>2 DEF R!InOrder
  <2>4. CASE d # c
    BY <1>2, <2>1, <2>2, <2>4 DEF R!InOrder
  <2>5. QED
    BY <2>3, <2>4
<1>7. QED
  BY <1>4, <1>5, <1>6, ReceiptWhole

LEMMA ReceiptGate ==
  ASSUME R!ReceiptsInv, NEW c \in ReceiptConns, NEW k \in R!Kinds, R!SubmitReceipt(c, k)
  PROVE  R!ReceiptsInv'
<1> USE ReceiptConstants
<1>0. RTypes /\ RGate
  BY ReceiptParts
<1>1. /\ UNCHANGED <<rconn, pending, enabled, ever, rshown, top, sent, rcrossed>>
      /\ item[c] = R!None /\ batch[c][k] > 0 /\ batch' = [batch EXCEPT ![c][k] = 0]
  BY DEF R!SubmitReceipt
<1>2. /\ batch' \in Marks
      /\ \A d \in ReceiptConns, j \in R!Kinds : batch'[d][j] = IF d = c /\ j = k THEN 0 ELSE batch[d][j]
      /\ \A d \in ReceiptConns \ {c} : batch'[d] = batch[d]
  <2>1. [batch[c] EXCEPT ![k] = 0] \in [R!Kinds -> 0..MaxSeq]
    BY <1>0 DEF RTypes, Marks
  <2>2. QED
    BY <1>0, <1>1, <2>1 DEF RTypes, Marks
<1>3. PICK v \in 1..MaxSeq : v = batch[c][k]
  BY <1>0, <1>1 DEF RTypes, Marks
<1>4. /\ item' \in [ReceiptConns -> {R!None} \cup [kind : R!Kinds, seq : 1..MaxSeq]]
      /\ \A d \in ReceiptConns \ {c} : item'[d] = item[d]
      /\ \/ item'[c] = R!None /\ rfailed' = rfailed \cup {<<c, k>>}
         \/ item'[c].kind = k /\ item'[c].seq = v /\ rfailed' = rfailed /\ (k = "read" => ever)
  <2>1. CASE k = "read" /\ ~enabled
    BY <1>0, <2>1 DEF R!SubmitReceipt, RTypes
  <2>2. CASE ~(k = "read" /\ ~enabled)
    <3>1. PICK j \in [kind : R!Kinds, seq : 1..MaxSeq] : j = [kind |-> k, seq |-> v]
      OBVIOUS
    <3>2. item' = [item EXCEPT ![c] = j] /\ rfailed' = rfailed
      BY <1>3, <2>2, <3>1 DEF R!SubmitReceipt
    <3>3. item'[c] = j /\ (\A d \in ReceiptConns \ {c} : item'[d] = item[d])
          /\ item' \in [ReceiptConns -> {R!None} \cup [kind : R!Kinds, seq : 1..MaxSeq]]
      BY <1>0, <3>2 DEF RTypes
    <3>4. QED
      BY <1>0, <2>2, <3>1, <3>2, <3>3 DEF RGate
  <2>3. QED
    BY <2>1, <2>2
<1>5. RTypes'
  BY <1>0, <1>1, <1>2, <1>4 DEF RTypes
<1>6. RGate'
  BY <1>0, <1>1, <1>4 DEF RGate, R!None
<1>7. ASSUME NEW d \in ReceiptConns, NEW j \in R!Kinds PROVE R!Accounted(d, j)'
  <2>1. R!Accounted(d, j)
    BY ReceiptParts
  <2>2. CASE d = c /\ j = k
    <3>1. R!Held(d, j) = {pending[c][k], v, top[c][k], 0}
      BY <1>0, <1>1, <1>3, <2>2, ReceiptNats DEF R!Held
    <3>2. /\ R!Held(d, j)' \subseteq R!Held(d, j) /\ batch'[d][j] = 0
          /\ (rfailed' = rfailed /\ <<c, k>> \notin rfailed) => R!Held(d, j)' = R!Held(d, j)
      <4>1. batch'[d][j] = 0 /\ pending'[d][j] = pending[c][k] /\ top'[d][j] = top[c][k]
        BY <1>1, <1>2, <2>2
      <4>2. PICK i : i = IF item'[d].kind = j THEN item'[d].seq ELSE 0
        OBVIOUS
      <4>3. i \in {0, v} /\ (rfailed' = rfailed => i = v \/ <<c, k>> \in rfailed)
        BY <1>0, <1>4, <2>2, <4>2, ReceiptNats
      <4>4. R!Held(d, j)' = {pending[c][k], 0, top[c][k], i}
        BY <4>1, <4>2 DEF R!Held
      <4>5. QED
        BY <3>1, <4>1, <4>3, <4>4
    <3>3. <<d, j>> \in rfailed' \/ rfailed' = rfailed
      BY <1>4, <2>2
    <3>4. QED
      BY <1>1, <2>1, <2>2, <3>2, <3>3 DEF R!Accounted
  <2>3. CASE d # c
    BY <1>1, <1>2, <1>4, <2>1, <2>3 DEF R!Accounted, R!Held
  <2>4. CASE d = c /\ j # k
    <3>1. item[c].kind # j /\ item'[c].kind # j /\ batch'[d][j] = batch[d][j]
      BY <1>0, <1>1, <1>2, <1>4, <2>4, ReceiptNats
    <3>2. R!Held(d, j)' = R!Held(d, j)
      BY <1>1, <2>4, <3>1 DEF R!Held
    <3>3. <<d, j>> \notin rfailed' => <<d, j>> \notin rfailed
      BY <1>4
    <3>4. QED
      BY <1>1, <2>1, <2>4, <3>1, <3>2, <3>3 DEF R!Accounted
  <2>5. QED
    BY <2>2, <2>3, <2>4
<1>8. ASSUME ~rcrossed', NEW d \in ReceiptConns, NEW j \in R!Kinds
      PROVE  R!InOrder(d, j)' /\ top'[d][j] <= rshown'[j]
  <2>1. R!InOrder(d, j) /\ R!InOrder(c, k) /\ top[d][j] <= rshown[j]
    BY <1>1, <1>8, ReceiptParts
  <2>0. R!Busy(c)
    BY <1>0, <1>1, ReceiptIdle
  <2>2. /\ \A x, e \in ReceiptConns : x # e /\ R!Busy(x)' => ~R!Busy(e)'
        /\ d # c => pending'[d][j] = 0 /\ batch'[d][j] = 0 /\ item'[d].kind # j
    BY <1>1, <1>2, <1>4, <1>5, <1>8, <2>0, ReceiptBusy
  <2>3. CASE d = c /\ j = k
    <3>1. \A e \in ReceiptConns : top[e][k] <= v
      BY <1>1, <1>3, <2>1 DEF R!InOrder
    <3>2. batch'[d][j] = 0 /\ pending'[d][j] = pending[d][j] /\ (item'[d].kind = j => item'[d].seq = v)
      BY <1>0, <1>1, <1>2, <1>4, <2>3, ReceiptNats
    <3>3. QED
      BY <1>1, <2>1, <2>2, <2>3, <3>1, <3>2 DEF R!InOrder
  <2>4. CASE d = c /\ j # k
    <3>1. item'[c].kind # j /\ batch'[d][j] = batch[d][j] /\ pending'[d][j] = pending[d][j]
      BY <1>0, <1>1, <1>2, <1>4, <2>4, ReceiptNats
    <3>2. QED
      BY <1>1, <2>1, <2>2, <2>4, <3>1 DEF R!InOrder
  <2>5. CASE d # c
    BY <1>1, <2>1, <2>2, <2>5 DEF R!InOrder
  <2>6. QED
    BY <2>3, <2>4, <2>5
<1>9. QED
  BY <1>5, <1>6, <1>7, <1>8, ReceiptWhole

(* RelayReceipt and ReceiptLost.                                           *)
LEMMA ReceiptRelay ==
  ASSUME R!ReceiptsInv, NEW c \in ReceiptConns, R!RelayReceipt(c) \/ R!ReceiptLost(c)
  PROVE  R!ReceiptsInv'
<1> USE ReceiptConstants
<1>0. RTypes /\ RGate
  BY ReceiptParts
<1>1. PICK k \in R!Kinds, v \in 1..MaxSeq : item[c].kind = k /\ item[c].seq = v
  BY <1>0 DEF RTypes, R!RelayReceipt, R!ReceiptLost
<1>2. /\ UNCHANGED <<rconn, pending, batch, enabled, ever, sent, rcrossed>>
      /\ item' = [item EXCEPT ![c] = R!None] /\ item[c] # R!None
  BY DEF R!RelayReceipt, R!ReceiptLost
<1>3. /\ item' \in [ReceiptConns -> {R!None} \cup [kind : R!Kinds, seq : 1..MaxSeq]]
      /\ item'[c] = R!None /\ \A d \in ReceiptConns \ {c} : item'[d] = item[d]
  BY <1>0, <1>2 DEF RTypes
<1>4. /\ top' \in Marks /\ rshown' \in [R!Kinds -> 0..MaxSeq]
      /\ \/ /\ rfailed' = rfailed /\ rshown' = [rshown EXCEPT ![k] = v]
            /\ \A d \in ReceiptConns, j \in R!Kinds :
                 top'[d][j] = IF d = c /\ j = k /\ v > top[c][k] THEN v ELSE top[d][j]
         \/ rfailed' = rfailed \cup {<<c, k>>} /\ UNCHANGED <<top, rshown>>
  <2>1. CASE R!RelayReceipt(c)
    <3>1. PICK u \in 0..MaxSeq : u = IF v > top[c][k] THEN v ELSE top[c][k]
      BY <1>0 DEF RTypes, Marks
    <3>2. top' = [top EXCEPT ![c][k] = u] /\ rshown' = [rshown EXCEPT ![k] = v] /\ rfailed' = rfailed
      BY <1>1, <2>1, <3>1 DEF R!RelayReceipt
    <3>3. [top[c] EXCEPT ![k] = u] \in [R!Kinds -> 0..MaxSeq] /\ top \in Marks
      BY <1>0 DEF RTypes, Marks
    <3>4. /\ top' \in Marks
          /\ \A d \in ReceiptConns, j \in R!Kinds :
               top'[d][j] = IF d = c /\ j = k THEN u ELSE top[d][j]
      BY <3>2, <3>3 DEF Marks
    <3>5. rshown' \in [R!Kinds -> 0..MaxSeq]
      BY <1>0, <3>2 DEF RTypes
    <3>6. QED
      BY <3>1, <3>2, <3>4, <3>5
  <2>2. CASE R!ReceiptLost(c)
    BY <1>0, <1>1, <2>2 DEF R!ReceiptLost, RTypes
  <2>3. QED
    BY <2>1, <2>2
<1>5. RTypes'
  BY <1>0, <1>2, <1>3, <1>4 DEF RTypes
<1>6. RGate'
  <2>1. rshown'["read"] > 0 => ever
    BY <1>0, <1>1, <1>4 DEF RGate, RTypes, R!Kinds
  <2>2. QED
    BY <1>0, <1>2, <1>3, <2>1 DEF RGate, R!None
<1>7. ASSUME NEW d \in ReceiptConns, NEW j \in R!Kinds PROVE R!Accounted(d, j)'
  <2>1. R!Accounted(d, j)
    BY ReceiptParts
  <2>2. CASE d = c /\ j = k
    <3>1. R!Held(d, j) = {pending[c][k], batch[c][k], top[c][k], v}
      BY <1>1, <2>2 DEF R!Held
    <3>2. R!Held(d, j)' = {pending[c][k], batch[c][k], top'[c][k], 0}
      BY <1>0, <1>2, <1>3, <2>2, ReceiptNats DEF R!Held
    <3>3. /\ pending[c][k] \in Nat /\ batch[c][k] = 0 /\ top[c][k] \in Nat /\ sent[c][k] \in Nat
          /\ pending[c][k] <= sent[c][k] /\ top[c][k] <= sent[c][k] /\ v <= sent[c][k]
      BY <1>0, <1>1, <2>1, <2>2, <3>1, ReceiptNats DEF R!Accounted
    <3>4. top'[c][k] \in {top[c][k], v} /\ top'[c][k] <= sent[c][k]
      BY <1>4, <3>3
    <3>5. \A x \in R!Held(d, j)' : x <= sent'[d][j]
      BY <1>2, <2>2, <3>2, <3>3, <3>4
    <3>6. ASSUME <<d, j>> \notin rfailed' PROVE sent'[d][j] \in R!Held(d, j)'
      <4>1. rfailed' = rfailed /\ top'[c][k] = IF v > top[c][k] THEN v ELSE top[c][k]
        BY <1>4, <2>2, <3>6
      <4>2. sent[c][k] \in {pending[c][k], 0, top[c][k], v}
        BY <2>1, <2>2, <3>1, <3>3, <3>6, <4>1 DEF R!Accounted
      <4>3. sent[c][k] \in {pending[c][k], 0, top'[c][k]}
        BY <3>3, <4>1, <4>2
      <4>4. QED
        BY <1>2, <2>2, <3>2, <4>3
    <3>7. ASSUME rconn'[d] = "gone" PROVE R!Held(d, j)' \subseteq {0, top'[d][j]}
      <4>1. v = top[c][k] /\ pending[c][k] \in {0, top[c][k]}
        BY <1>2, <2>1, <2>2, <3>1, <3>7 DEF R!Accounted
      <4>2. top'[c][k] = top[c][k]
        BY <3>4, <4>1
      <4>3. QED
        BY <2>2, <3>2, <3>3, <4>1, <4>2
    <3>8. item'[d].kind = j => batch'[d][j] = 0
      BY <1>2, <2>2, <3>3
    <3>9. QED
      BY <3>5, <3>6, <3>7, <3>8 DEF R!Accounted
  <2>3. CASE ~(d = c /\ j = k)
    <3>1. top'[d][j] = top[d][j] /\ (<<d, j>> \notin rfailed' => <<d, j>> \notin rfailed)
      BY <1>4, <2>3
    <3>2. item'[d].kind = j <=> item[d].kind = j
      BY <1>0, <1>1, <1>3, <2>3, ReceiptNats
    <3>3. item'[d].kind = j => item'[d].seq = item[d].seq
      BY <1>0, <1>3, <3>2, ReceiptNats
    <3>4. R!Held(d, j)' = R!Held(d, j)
      BY <1>2, <3>1, <3>2, <3>3 DEF R!Held
    <3>5. QED
      BY <1>2, <2>1, <3>1, <3>2, <3>4 DEF R!Accounted
  <2>4. QED
    BY <2>2, <2>3
<1>8. ASSUME ~rcrossed', NEW d \in ReceiptConns, NEW j \in R!Kinds
      PROVE  R!InOrder(d, j)' /\ top'[d][j] <= rshown'[j]
  <2>1. R!InOrder(d, j) /\ R!InOrder(c, k) /\ top[d][j] <= rshown[j]
    BY <1>2, <1>8, ReceiptParts
  <2>0. R!Busy(c)
    BY <1>2 DEF R!Busy
  <2>2. /\ \A x, e \in ReceiptConns : x # e /\ R!Busy(x)' => ~R!Busy(e)'
        /\ d # c => pending'[d][j] = 0 /\ batch'[d][j] = 0 /\ item'[d].kind # j
    BY <1>2, <1>3, <1>5, <1>8, <2>0, ReceiptBusy
  <2>3. item'[d].kind # j
    BY <1>0, <1>3, <2>2, ReceiptNats
  <2>4. \A e \in ReceiptConns : batch'[d][j] > 0 => top'[e][j] <= batch'[d][j]
    <3>1. CASE d = c /\ j = k
      <4>1. batch[c][k] = 0
        <5>1. R!Accounted(c, k)
          BY ReceiptParts
        <5>2. QED
          BY <1>1, <5>1 DEF R!Accounted
      <4>2. QED
        BY <1>2, <3>1, <4>1
    <3>2. CASE d = c /\ j # k
      BY <1>2, <1>4, <2>1, <3>2 DEF R!InOrder
    <3>3. CASE d # c
      BY <2>2, <3>3
    <3>4. QED
      BY <3>1, <3>2, <3>3
  <2>5. top'[d][j] <= rshown'[j]
    <3>1. top[d][k] <= v /\ top[d][k] \in Nat
      BY <1>0, <1>1, <2>1, ReceiptNats DEF R!InOrder
    <3>2. CASE j = k
      BY <1>0, <1>4, <2>1, <3>1, <3>2 DEF RTypes
    <3>3. CASE j # k
      BY <1>0, <1>4, <2>1, <3>3 DEF RTypes
    <3>4. QED
      BY <3>2, <3>3
  <2>6. QED
    BY <1>2, <2>1, <2>2, <2>3, <2>4, <2>5 DEF R!InOrder
<1>9. QED
  BY <1>5, <1>6, <1>7, <1>8, ReceiptWhole

LEMMA ReceiptSetting ==
  ASSUME R!ReceiptsInv, R!SetReadReceipts \/ UNCHANGED RVars
  PROVE  R!ReceiptsInv'
<1>1. /\ UNCHANGED <<rconn, pending, batch, item, rshown, top, sent, rcrossed, rfailed>>
      /\ enabled' \in BOOLEAN /\ ever' \in BOOLEAN /\ (enabled' => ever') /\ (ever => ever')
  <2>0. RTypes /\ RGate
    BY ReceiptParts
  <2>1. CASE R!SetReadReceipts
    BY <2>0, <2>1, Zenon DEF R!SetReadReceipts, RTypes, RGate
  <2>2. CASE UNCHANGED RVars
    BY <2>0, <2>2 DEF RVars, RTypes, RGate
  <2>3. QED
    BY <2>1, <2>2
<1>2. RTypes' /\ RGate'
  BY <1>1, ReceiptParts DEF RTypes, RGate
<1>3. \A c \in ReceiptConns, k \in R!Kinds :
        R!Accounted(c, k)' = R!Accounted(c, k) /\ R!InOrder(c, k)' = R!InOrder(c, k)
  BY <1>1 DEF R!Accounted, R!InOrder, R!Held, R!Busy
<1>4. QED
  BY <1>1, <1>2, <1>3, ReceiptParts, ReceiptWhole

LEMMA ReceiptStep == R!ReceiptsInv /\ R!Next => R!ReceiptsInv'
  BY ReceiptConn, ReceiptSubmit, ReceiptDrain, ReceiptGate, ReceiptRelay, ReceiptSetting DEF R!Next

-----------------------------------------------------------------------------
(* The feeds of a connection.                                              *)

LEMMA FeedCardinality == ASSUME NEW S PROVE F!Cardinality(S) = Cardinality(S)
  BY DEF F!Cardinality, Cardinality, F!IsFiniteSet, IsFiniteSet

\* The types of Feeds.
FTypes ==
    /\ F!TypeOK /\ open \in BOOLEAN /\ loop \in F!Loops
    /\ state \in [FeedTargets -> 0..MaxChanges]
    /\ due \in [FeedTargets -> {0, 1}]
    /\ wire \in [FeedTargets -> Seq(0..MaxChanges)]

\* The subscriptions are those that can be closed.
FOpen ==
    /\ live = unsub \cup chans
    /\ ~open => live = {}

LEMMA FeedParts ==
  ASSUME F!FeedsInv
  PROVE  /\ FTypes /\ FOpen /\ F!Tracked /\ Cardinality(subs) <= MaxSubscriptions
         /\ \A t \in FeedTargets : F!FeedFits(t)
  BY FeedCardinality DEF F!FeedsInv, F!FeedsSound, F!NoLeak, FTypes, FOpen

LEMMA FeedWhole ==
  ASSUME FTypes', FOpen', F!Tracked', Cardinality(subs') <= MaxSubscriptions,
         \A t \in FeedTargets : F!FeedFits(t)'
  PROVE  F!FeedsInv'
<1>1. loop' = F!Idle => loop'.at = "idle" /\ loop'.add = {}
  BY DEF F!Idle
<1>2. F!NoLeak'
  BY <1>1, FeedCardinality DEF F!NoLeak, F!Tracked, FOpen
<1>3. F!PrivateUntilAllowed'
  BY DEF F!PrivateUntilAllowed, F!FeedFits
<1>4. F!ShowsPresent'
  <2> SUFFICES ASSUME NEW t \in unsub', loop' = F!Idle, wire'[t] = <<>>, due'[t] = 0
               PROVE  fshown'[t] = state'[t] \/ t \in fcrossed' \cup blind'
    BY DEF F!ShowsPresent
  <2>1. t \in FeedTargets
    BY DEF FTypes, F!TypeOK
  <2>2. QED
    BY <1>1, <2>1 DEF F!FeedFits
<1>5. QED
  BY <1>2, <1>3, <1>4 DEF F!FeedsInv, F!FeedsSound, FTypes

LEMMA FeedInit == F!Init => F!FeedsInv
<1> SUFFICES ASSUME F!Init PROVE F!FeedsInv
  OBVIOUS
<1> USE FeedConstants
<1>1. FTypes
  <2>1. <<>> \in Seq(0..MaxChanges) /\ F!Idle \in F!Loops
    BY DEF F!Loops
  <2>2. QED
    BY <2>1 DEF FTypes, F!Init, F!TypeOK
<1>2. F!NoLeak
  <2>1. Cardinality(subs) = 0
    BY FS_EmptySet DEF F!Init
  <2>2. QED
    BY <2>1, FeedCardinality DEF F!Init, F!NoLeak
<1>3. F!PrivateUntilAllowed /\ F!ShowsPresent
  BY DEF F!Init, F!PrivateUntilAllowed, F!ShowsPresent
<1>4. F!Tracked
  BY DEF F!Init, F!Tracked, F!Idle
<1>5. \A t \in FeedTargets : F!FeedFits(t)
  BY DEF F!Init, F!FeedFits
<1>6. QED
  BY <1>1, <1>2, <1>3, <1>4, <1>5 DEF F!FeedsInv, F!FeedsSound, FTypes

(* The shapes of the loop.                                                 *)
LEMMA LoopShape ==
  ASSUME loop \in F!Loops
  PROVE  /\ loop.at \in {"idle", "check", "subscribe", "snapshot", "deliver"}
         /\ loop.add \subseteq FeedTargets
         /\ loop.at \in {"subscribe", "snapshot", "deliver"} => loop.t \in FeedTargets
         /\ loop.at = "deliver" => loop.v \in 0..MaxChanges
         /\ loop.at = "idle" <=> loop = F!Idle
<1>1. CASE loop = F!Idle
  BY <1>1 DEF F!Idle
<1>2. CASE loop \in [at : {"check"}, add : SUBSET FeedTargets]
  BY <1>2 DEF F!Idle
<1>3. CASE loop \in [at : {"subscribe", "snapshot"}, add : SUBSET FeedTargets, t : FeedTargets]
  BY <1>3 DEF F!Idle
<1>4. CASE loop \in [at : {"deliver"}, add : SUBSET FeedTargets, t : FeedTargets, v : 0..MaxChanges]
  BY <1>4 DEF F!Idle
<1>5. QED
  BY <1>1, <1>2, <1>3, <1>4 DEF F!Loops

LEMMA LoopAfter ==
  ASSUME loop \in F!Loops, NEW t \in loop.add, loop' = F!After(t)
  PROVE  /\ loop' \in F!Loops /\ loop'.at \in {"idle", "check"} /\ loop'.add = loop.add \ {t}
         /\ loop' # F!Idle => loop'.add # {}
<1>1. CASE loop.add = {t}
  BY <1>1 DEF F!After, F!Idle, F!Loops
<1>2. CASE loop.add # {t}
  <2>1. PICK a \in SUBSET FeedTargets : a = loop.add \ {t}
    BY LoopShape
  <2>2. loop' = [at |-> "check", add |-> a]
    BY <1>2, <2>1 DEF F!After
  <2>3. loop' \in [at : {"check"}, add : SUBSET FeedTargets] /\ loop'.at = "check" /\ loop'.add = a
    BY <2>2
  <2>4. loop' \in F!Loops
    BY <2>3 DEF F!Loops
  <2>5. QED
    BY <1>2, <2>1, <2>3, <2>4
<1>3. QED
  BY <1>1, <1>2

(* Subscriptions.Apply stays within the cap.                               *)
LEMMA FeedCap ==
  ASSUME NEW kept \in SUBSET FeedTargets, NEW sub \in SUBSET FeedTargets,
         Cardinality(kept) <= MaxSubscriptions, NEW add \in F!Additions(kept, sub)
  PROVE  /\ add \subseteq FeedTargets \ kept
         /\ Cardinality(kept \cup add) <= MaxSubscriptions
<1> USE FeedConstants
<1>1. PICK fresh : fresh = sub \ kept
  OBVIOUS
<1>2. add \subseteq fresh /\ Cardinality(add) =
        IF Cardinality(fresh) < MaxSubscriptions - Cardinality(kept) THEN Cardinality(fresh)
        ELSE MaxSubscriptions - Cardinality(kept)
  BY <1>1, FeedCardinality DEF F!Additions
<1>3. IsFiniteSet(kept) /\ IsFiniteSet(add) /\ IsFiniteSet(fresh)
  BY <1>1, <1>2, FS_Subset
<1>4. Cardinality(kept) \in Nat /\ Cardinality(add) \in Nat /\ Cardinality(fresh) \in Nat
  BY <1>3, FS_CardinalityType
<1>5. Cardinality(kept \cup add) <= Cardinality(kept) + Cardinality(add)
  <2>1. kept \cap add = {}
    BY <1>1, <1>2
  <2>2. Cardinality(kept \cup add) = Cardinality(kept) + Cardinality(add) - Cardinality(kept \cap add)
    BY <1>3, FS_Union
  <2>3. Cardinality(kept \cap add) = 0
    BY <2>1, FS_EmptySet, Zenon
  <2>4. QED
    BY <1>4, <2>2, <2>3
<1>6. Cardinality(kept \cup add) \in Nat
  BY <1>3, FS_Union, FS_CardinalityType
<1>7. QED
  BY <1>1, <1>2, <1>4, <1>5, <1>6

LEMMA FeedPresenceSub ==
  ASSUME F!FeedsInv, NEW sub \in SUBSET FeedTargets, NEW rem \in SUBSET FeedTargets,
         F!PresenceSub(sub, rem)
  PROVE  F!FeedsInv'
<1> USE FeedConstants
<1>0. /\ FTypes /\ FOpen /\ F!Tracked /\ Cardinality(subs) <= MaxSubscriptions
      /\ subs \subseteq FeedTargets /\ unsub \subseteq FeedTargets /\ chans \subseteq FeedChannels
  BY FeedParts DEF FTypes, F!TypeOK
<1>a. loop.at = "idle" /\ loop.add = {} /\ subs = unsub /\ open
  BY <1>0 DEF F!PresenceSub, F!Idle, F!Tracked
<1>b. PICK gone \in SUBSET FeedTargets : gone = subs \cap rem
  OBVIOUS
<1>c. PICK add \in F!Additions(subs \ gone, sub) :
        /\ subs' = (subs \ gone) \cup add
        /\ loop' = IF add = {} THEN F!Idle ELSE [at |-> "check", add |-> add]
  BY <1>b DEF F!PresenceSub
<1>1. /\ unsub' = unsub \ gone /\ live' = live \ gone
      /\ wire' = [t \in FeedTargets |-> IF t \in gone THEN <<>> ELSE wire[t]]
      /\ fshown' = [t \in FeedTargets |-> IF t \in gone THEN -1 ELSE fshown[t]]
      /\ UNCHANGED <<open, chans, state, due, visible, withdrawn, fcrossed, blind>>
  <2>1. gone \cap unsub = gone
    BY <1>a, <1>b
  <2>2. QED
    BY <1>b, <2>1 DEF F!PresenceSub, F!Closed
<1>2. add \subseteq FeedTargets \ (subs \ gone) /\ Cardinality(subs') <= MaxSubscriptions
  <2>1. PICK kept \in SUBSET FeedTargets : kept = subs \ gone
    BY <1>0
  <2>2. IsFiniteSet(subs)
    BY <1>0, FS_Subset
  <2>3. Cardinality(kept) <= Cardinality(subs)
    BY <2>1, <2>2, FS_Subset
  <2>4. Cardinality(kept) <= MaxSubscriptions
    <3>1. Cardinality(kept) \in Nat /\ Cardinality(subs) \in Nat
      BY <2>1, <2>2, FS_Subset, FS_CardinalityType
    <3>2. QED
      BY <1>0, <2>3, <3>1
  <2>5. QED
    BY <1>c, <2>1, <2>4, FeedCap
<1>3. /\ loop' \in F!Loops /\ loop'.at \in {"idle", "check"} /\ loop'.add = add
      /\ loop' # F!Idle => add # {}
  <2>1. CASE add = {}
    BY <1>c, <2>1 DEF F!Loops, F!Idle
  <2>2. CASE add # {}
    <3>1. loop' = [at |-> "check", add |-> add] /\ add \in SUBSET FeedTargets
      BY <1>2, <1>c, <2>2
    <3>2. loop' \in [at : {"check"}, add : SUBSET FeedTargets] /\ loop'.at = "check" /\ loop'.add = add
      BY <3>1
    <3>3. QED
      BY <2>2, <3>2 DEF F!Loops
  <2>3. QED
    BY <2>1, <2>2
<1>4. FTypes'
  <2>1. wire' \in [FeedTargets -> Seq(0..MaxChanges)]
    <3>0. <<>> \in Seq(0..MaxChanges)
      OBVIOUS
    <3>1. PICK e \in Seq(0..MaxChanges) : e = <<>>
      BY <3>0
    <3>2. wire' = [t \in FeedTargets |-> IF t \in gone THEN e ELSE wire[t]]
      BY <1>1, <3>1
    <3>3. QED
      BY <1>0, <3>2 DEF FTypes
  <2>2. fshown' \in [FeedTargets -> -1..MaxChanges]
    <3>1. PICK n \in -1..MaxChanges : n = -1
      OBVIOUS
    <3>2. fshown' = [t \in FeedTargets |-> IF t \in gone THEN n ELSE fshown[t]]
      BY <1>1, <3>1
    <3>3. QED
      BY <1>0, <3>2 DEF FTypes, F!TypeOK
  <2>3. QED
    BY <1>0, <1>1, <1>2, <1>3, <1>c, <2>1, <2>2 DEF FTypes, F!TypeOK
<1>5. FOpen'
  BY <1>0, <1>1, <1>a DEF FOpen
<1>6. F!Tracked'
  BY <1>1, <1>2, <1>3, <1>a, <1>c DEF F!Tracked
<1>7. ASSUME NEW t \in FeedTargets PROVE F!FeedFits(t)'
  <2>1. F!FeedFits(t)
    BY FeedParts
  <2>2. CASE t \in gone
    BY <1>1, <2>2 DEF F!FeedFits
  <2>3. CASE t \notin gone
    BY <1>1, <1>3, <1>a, <2>1, <2>3 DEF F!FeedFits
  <2>4. QED
    BY <2>2, <2>3
<1>8. QED
  BY <1>2, <1>4, <1>5, <1>6, <1>7, FeedWhole

(* Dropping a target from the tracked set keeps the cap.                   *)
LEMMA FeedFewer ==
  ASSUME F!FeedsInv, subs' \subseteq subs
  PROVE  Cardinality(subs') <= MaxSubscriptions
<1>1. Cardinality(subs) <= MaxSubscriptions /\ IsFiniteSet(subs)
  BY FeedParts, FeedConstants, FS_Subset DEF FTypes, F!TypeOK
<1>2. Cardinality(subs') <= Cardinality(subs) /\ IsFiniteSet(subs')
  BY <1>1, FS_Subset
<1>3. Cardinality(subs) \in Nat /\ Cardinality(subs') \in Nat
  BY <1>1, <1>2, FS_CardinalityType
<1>4. QED
  BY <1>1, <1>2, <1>3, FeedConstants

LEMMA FeedCheck ==
  ASSUME F!FeedsInv, NEW t \in FeedTargets, F!CanSeePresence(t)
  PROVE  F!FeedsInv'
<1>0. FTypes /\ FOpen /\ F!Tracked
  BY FeedParts
<1>a. /\ loop.at = "check" /\ t \in loop.add /\ loop # F!Idle /\ loop.add \cap unsub = {}
      /\ loop \in F!Loops /\ loop.add \subseteq FeedTargets /\ open
  BY <1>0, LoopShape DEF F!CanSeePresence, F!Tracked, F!Idle, FTypes
<1>b. UNCHANGED <<open, unsub, chans, live, state, due, wire, fshown, visible, withdrawn,
                   fcrossed, blind>>
  BY DEF F!CanSeePresence
<1>1. CASE F!Opened(t)
  <2>1. PICK a \in SUBSET FeedTargets : a = loop.add
    BY <1>a
  <2>2. loop' = [at |-> "subscribe", add |-> a, t |-> t] /\ subs' = subs
    BY <1>1, <2>1 DEF F!CanSeePresence
  <2>3. /\ loop' \in [at : {"subscribe", "snapshot"}, add : SUBSET FeedTargets, t : FeedTargets]
        /\ loop'.at = "subscribe" /\ loop'.add = a /\ loop'.t = t
    BY <2>2
  <2>4. FTypes'
    BY <1>0, <1>b, <2>2, <2>3 DEF FTypes, F!TypeOK, F!Loops
  <2>5. F!Tracked'
    BY <1>0, <1>1, <1>a, <1>b, <2>1, <2>2, <2>3 DEF F!Tracked, F!Opened
  <2>6. ASSUME NEW x \in FeedTargets PROVE F!FeedFits(x)'
    <3>1. F!FeedFits(x)
      BY FeedParts
    <3>2. QED
      BY <1>a, <1>b, <2>3, <3>1 DEF F!FeedFits
  <2>7. FOpen'
    BY <1>0, <1>b DEF FOpen
  <2>8. QED
    BY <2>2, <2>4, <2>5, <2>6, <2>7, FeedFewer, FeedWhole
<1>2. CASE ~F!Opened(t)
  <2>1. subs' = subs \ {t} /\ loop' = F!After(t)
    BY <1>2 DEF F!CanSeePresence
  <2>2. /\ loop' \in F!Loops /\ loop'.at \in {"idle", "check"} /\ loop'.add = loop.add \ {t}
        /\ loop' # F!Idle => loop'.add # {}
    BY <1>a, <2>1, LoopAfter
  <2>4. FTypes'
    BY <1>0, <1>b, <2>1, <2>2 DEF FTypes, F!TypeOK
  <2>5. F!Tracked'
    BY <1>0, <1>a, <1>b, <2>1, <2>2 DEF F!Tracked
  <2>6. ASSUME NEW x \in FeedTargets PROVE F!FeedFits(x)'
    <3>1. F!FeedFits(x)
      BY FeedParts
    <3>2. QED
      BY <1>a, <1>b, <2>2, <3>1 DEF F!FeedFits
  <2>7. FOpen'
    BY <1>0, <1>b DEF FOpen
  <2>8. QED
    BY <2>1, <2>4, <2>5, <2>6, <2>7, FeedFewer, FeedWhole
<1>3. QED
  BY <1>1, <1>2

LEMMA FeedSubscribe ==
  ASSUME F!FeedsInv, F!Subscribe
  PROVE  F!FeedsInv'
<1>0. FTypes /\ FOpen /\ F!Tracked
  BY FeedParts
<1>a. PICK t \in FeedTargets : t = loop.t
  BY <1>0, LoopShape DEF F!Subscribe, FTypes
<1>b. /\ loop.at = "subscribe" /\ t \in loop.add /\ loop # F!Idle /\ loop.add \cap unsub = {}
      /\ loop \in F!Loops /\ loop.add \subseteq FeedTargets /\ open /\ t \in visible \cup withdrawn
      /\ t \notin unsub
  BY <1>0, <1>a, LoopShape DEF F!Subscribe, F!Tracked, F!Idle, FTypes
<1>c. UNCHANGED <<open, chans, state, due, wire, fshown, visible, withdrawn>>
  BY DEF F!Subscribe
<1>1. CASE /\ live' = live \cup {loop.t} /\ unsub' = unsub \cup {loop.t}
           /\ loop' = [loop EXCEPT !.at = "snapshot"]
           /\ fcrossed' = fcrossed \ {loop.t} /\ blind' = blind \ {loop.t} /\ subs' = subs
  <2>1. /\ loop' \in [at : {"subscribe", "snapshot"}, add : SUBSET FeedTargets, t : FeedTargets]
        /\ loop'.at = "snapshot" /\ loop'.add = loop.add /\ loop'.t = t
    <3>1. loop \in [at : {"subscribe", "snapshot"}, add : SUBSET FeedTargets, t : FeedTargets]
      BY <1>b DEF F!Loops, F!Idle
    <3>2. QED
      BY <1>1, <1>a, <3>1
  <2>2. FTypes'
    BY <1>0, <1>1, <1>a, <1>c, <2>1 DEF FTypes, F!TypeOK, F!Loops
  <2>3. F!Tracked'
    BY <1>0, <1>1, <1>a, <1>b, <1>c, <2>1 DEF F!Tracked
  <2>4. FOpen'
    BY <1>0, <1>1, <1>b, <1>c DEF FOpen
  <2>5. ASSUME NEW x \in FeedTargets PROVE F!FeedFits(x)'
    <3>1. F!FeedFits(x)
      BY FeedParts
    <3>2. CASE x = t
      BY <1>1, <1>a, <1>b, <1>c, <2>1, <3>1, <3>2 DEF F!FeedFits
    <3>3. CASE x # t
      BY <1>1, <1>a, <1>b, <1>c, <2>1, <3>1, <3>3 DEF F!FeedFits
    <3>4. QED
      BY <3>2, <3>3
  <2>6. QED
    BY <1>1, <2>2, <2>3, <2>4, <2>5, FeedFewer, FeedWhole
<1>2. CASE /\ subs' = F!Revoked(loop.t) /\ loop' = F!After(loop.t)
           /\ UNCHANGED <<live, unsub, fcrossed, blind>>
  <2>1. /\ loop' \in F!Loops /\ loop'.at \in {"idle", "check"} /\ loop'.add = loop.add \ {t}
        /\ loop' # F!Idle => loop'.add # {}
    BY <1>2, <1>a, <1>b, LoopAfter
  <2>2. subs' = subs \ {t}
    BY <1>2, <1>a DEF F!Revoked
  <2>3. FTypes'
    BY <1>0, <1>2, <1>c, <2>1, <2>2 DEF FTypes, F!TypeOK
  <2>4. F!Tracked'
    BY <1>0, <1>2, <1>b, <1>c, <2>1, <2>2 DEF F!Tracked
  <2>5. FOpen'
    BY <1>0, <1>2, <1>c DEF FOpen
  <2>6. ASSUME NEW x \in FeedTargets PROVE F!FeedFits(x)'
    <3>1. F!FeedFits(x)
      BY FeedParts
    <3>2. QED
      BY <1>2, <1>b, <1>c, <2>1, <3>1 DEF F!FeedFits
  <2>7. QED
    BY <2>2, <2>3, <2>4, <2>5, <2>6, FeedFewer, FeedWhole
<1>3. QED
  BY <1>1, <1>2 DEF F!Subscribe

(* Snapshot and DeliverSnapshot.                                           *)
LEMMA FeedSnapshot ==
  ASSUME F!FeedsInv, F!Snapshot \/ F!DeliverSnapshot
  PROVE  F!FeedsInv'
<1>0. FTypes /\ FOpen /\ F!Tracked
  BY FeedParts
<1>a. PICK t \in FeedTargets : t = loop.t
  BY <1>0, LoopShape DEF F!Snapshot, F!DeliverSnapshot, FTypes
<1>b. /\ loop.at \in {"snapshot", "deliver"} /\ t \in loop.add /\ loop # F!Idle
      /\ loop \in F!Loops /\ loop.add \subseteq FeedTargets /\ open /\ t \in visible \cup withdrawn
      /\ t \in unsub /\ loop.add \cap unsub = {t}
  BY <1>0, <1>a, LoopShape DEF F!Snapshot, F!DeliverSnapshot, F!Tracked, F!Idle, FTypes
<1>c. UNCHANGED <<open, subs, unsub, chans, live, state, due, wire, visible, withdrawn, fcrossed>>
  BY DEF F!Snapshot, F!DeliverSnapshot
<1>d. FOpen'
  BY <1>0, <1>c DEF FOpen
<1>1. CASE /\ loop.at = "snapshot" /\ UNCHANGED <<blind, fshown>>
           /\ loop' = [at |-> "deliver", add |-> loop.add, t |-> loop.t, v |-> state[loop.t]]
  <2>1. PICK v \in 0..MaxChanges, a \in SUBSET FeedTargets : v = state[t] /\ a = loop.add
    BY <1>0, <1>b DEF FTypes
  <2>2. loop' = [at |-> "deliver", add |-> a, t |-> t, v |-> v]
    BY <1>1, <1>a, <2>1
  <2>3. /\ loop' \in [at : {"deliver"}, add : SUBSET FeedTargets, t : FeedTargets, v : 0..MaxChanges]
        /\ loop'.at = "deliver" /\ loop'.add = a /\ loop'.t = t /\ loop'.v = v
    BY <2>2
  <2>4. FTypes'
    BY <1>0, <1>1, <1>c, <2>3 DEF FTypes, F!TypeOK, F!Loops
  <2>5. F!Tracked'
    BY <1>0, <1>b, <1>c, <2>1, <2>3 DEF F!Tracked
  <2>6. ASSUME NEW x \in FeedTargets PROVE F!FeedFits(x)'
    <3>1. F!FeedFits(x)
      BY FeedParts
    <3>2. QED
      BY <1>1, <1>a, <1>c, <2>1, <2>3, <3>1 DEF F!FeedFits
  <2>7. QED
    BY <1>c, <1>d, <2>4, <2>5, <2>6, FeedFewer, FeedWhole
<1>2. CASE /\ loop' = F!After(loop.t)
           /\ \/ loop.at = "snapshot" /\ blind' = blind \cup {loop.t} /\ UNCHANGED fshown
              \/ /\ loop.at = "deliver" /\ UNCHANGED blind
                 /\ fshown' = [fshown EXCEPT ![loop.t] = loop.v]
  <2>1. /\ loop' \in F!Loops /\ loop'.at \in {"idle", "check"} /\ loop'.add = loop.add \ {t}
        /\ loop' # F!Idle => loop'.add # {}
    BY <1>2, <1>a, <1>b, LoopAfter
  <2>2. /\ fshown' \in [FeedTargets -> -1..MaxChanges]
        /\ \A x \in FeedTargets \ {t} : fshown'[x] = fshown[x]
        /\ loop.at = "deliver" => fshown'[t] = loop.v
    <3>1. loop.at = "deliver" => loop.v \in -1..MaxChanges
      BY <1>b, LoopShape
    <3>2. QED
      BY <1>0, <1>2, <1>a, <3>1 DEF FTypes, F!TypeOK
  <2>3. FTypes'
    BY <1>0, <1>c, <2>1, <2>2 DEF FTypes, F!TypeOK
  <2>4. F!Tracked'
    BY <1>0, <1>b, <1>c, <2>1 DEF F!Tracked
  <2>5. ASSUME NEW x \in FeedTargets PROVE F!FeedFits(x)'
    <3>1. F!FeedFits(x)
      BY FeedParts
    <3>2. CASE x = t
      <4>1. CASE loop.at = "snapshot"
        <5>1. t \in blind'
          BY <1>2, <1>a, <4>1
        <5>2. QED
          BY <1>b, <1>c, <3>2, <5>1 DEF F!FeedFits
      <4>2. CASE loop.at = "deliver"
        <5>1. fshown'[t] = loop.v /\ blind' = blind
          BY <1>2, <2>2, <4>2
        <5>2. ASSUME t \notin fcrossed \cup blind, due[t] = 0, wire[t] = <<>>
              PROVE  fshown'[t] = state[t]
          BY <1>a, <1>b, <3>1, <3>2, <4>2, <5>1, <5>2 DEF F!FeedFits
        <5>3. QED
          BY <1>b, <1>c, <2>1, <2>2, <3>1, <3>2, <4>2, <5>1, <5>2 DEF F!FeedFits
      <4>3. QED
        BY <1>b, <4>1, <4>2
    <3>3. CASE x # t
      BY <1>2, <1>a, <1>b, <1>c, <2>1, <2>2, <3>1, <3>3 DEF F!FeedFits
    <3>4. QED
      BY <3>2, <3>3
  <2>6. QED
    BY <1>c, <1>d, <2>3, <2>4, <2>5, FeedFewer, FeedWhole
<1>3. QED
  BY <1>1, <1>2 DEF F!Snapshot, F!DeliverSnapshot

(* What the targets do: their presence changes and is published, or they   *)
(* hide it.                                                                *)
LEMMA FeedTarget ==
  ASSUME F!FeedsInv, NEW t \in FeedTargets,
         F!Change(t) \/ F!HidePresence(t) \/ F!PublishUpdate(t)
  PROVE  F!FeedsInv'
<1> USE FeedConstants
<1>0. FTypes /\ FOpen /\ F!Tracked
  BY FeedParts
<1>a. UNCHANGED <<open, subs, unsub, chans, live, loop, fshown, fcrossed, blind>>
  BY DEF F!Change, F!HidePresence, F!PublishUpdate
<1>b. FOpen'
  BY <1>0, <1>a DEF FOpen
<1>1. CASE F!Change(t)
  <2>1. /\ state' \in [FeedTargets -> 0..MaxChanges] /\ due' \in [FeedTargets -> {0, 1}] /\ due'[t] = 1
        /\ \A x \in FeedTargets \ {t} : state'[x] = state[x] /\ due'[x] = due[x]
        /\ UNCHANGED <<wire, visible, withdrawn>>
    <3>1. state[t] + 1 \in 0..MaxChanges
      BY <1>0, <1>1 DEF FTypes, F!Change
    <3>2. QED
      BY <1>0, <1>1, <3>1 DEF FTypes, F!Change
  <2>2. FTypes' /\ F!Tracked'
    BY <1>0, <1>a, <2>1 DEF FTypes, F!TypeOK, F!Tracked
  <2>3. ASSUME NEW x \in FeedTargets PROVE F!FeedFits(x)'
    <3>1. F!FeedFits(x)
      BY FeedParts
    <3>2. QED
      BY <1>a, <2>1, <3>1 DEF F!FeedFits
  <2>4. QED
    BY <1>a, <1>b, <2>2, <2>3, FeedFewer, FeedWhole
<1>2. CASE F!HidePresence(t)
  <2>1. /\ visible' = visible \ {t} /\ withdrawn' = IF t \in subs THEN withdrawn \cup {t} ELSE withdrawn
        /\ UNCHANGED <<state, due, wire>>
    BY <1>2 DEF F!HidePresence
  <2>2. \A x \in subs : x \in visible \cup withdrawn => x \in visible' \cup withdrawn'
    BY <2>1
  <2>3. FTypes'
    BY <1>0, <1>a, <2>1 DEF FTypes, F!TypeOK
  <2>4. F!Tracked'
    BY <1>0, <1>a, <2>2 DEF F!Tracked
  <2>5. ASSUME NEW x \in FeedTargets PROVE F!FeedFits(x)'
    <3>1. F!FeedFits(x) /\ (x \in unsub => x \in subs)
      BY <1>0, FeedParts DEF F!Tracked
    <3>2. QED
      BY <1>a, <2>1, <2>2, <3>1 DEF F!FeedFits
  <2>6. QED
    BY <1>a, <1>b, <2>3, <2>4, <2>5, FeedFewer, FeedWhole
<1>3. CASE F!PublishUpdate(t)
  <2>0. t \in live <=> t \in unsub
    BY <1>0 DEF FOpen, FTypes, F!TypeOK
  <2>1. /\ due' \in [FeedTargets -> {0, 1}] /\ UNCHANGED <<state, visible, withdrawn>>
        /\ \A x \in FeedTargets \ {t} : due'[x] = due[x]
    BY <1>0, <1>3 DEF FTypes, F!PublishUpdate
  <2>2. /\ wire' \in [FeedTargets -> Seq(0..MaxChanges)]
        /\ \A x \in FeedTargets \ {t} : wire'[x] = wire[x]
        /\ IF t \in unsub THEN wire'[t] # <<>> /\ wire'[t][Len(wire'[t])] = state[t]
           ELSE wire'[t] = wire[t]
    <3>1. PICK w \in Seq(0..MaxChanges) : w = IF t \in live THEN Append(wire[t], state[t]) ELSE wire[t]
      <4>1. wire[t] \in Seq(0..MaxChanges) /\ state[t] \in 0..MaxChanges
        BY <1>0 DEF FTypes
      <4>2. Append(wire[t], state[t]) \in Seq(0..MaxChanges)
        BY <4>1
      <4>3. QED
        BY <4>1, <4>2
    <3>2. wire' = [wire EXCEPT ![t] = w]
      BY <1>3, <3>1 DEF F!PublishUpdate
    <3>3. /\ wire' \in [FeedTargets -> Seq(0..MaxChanges)] /\ wire'[t] = w
          /\ \A x \in FeedTargets \ {t} : wire'[x] = wire[x]
      BY <1>0, <3>2 DEF FTypes
    <3>4. t \in live => w # <<>> /\ w[Len(w)] = state[t]
      BY <1>0, <3>1 DEF FTypes
    <3>5. QED
      BY <2>0, <3>1, <3>3, <3>4
  <2>3. FTypes' /\ F!Tracked'
    BY <1>0, <1>a, <2>1, <2>2 DEF FTypes, F!TypeOK, F!Tracked
  <2>4. ASSUME NEW x \in FeedTargets PROVE F!FeedFits(x)'
    <3>1. F!FeedFits(x)
      BY FeedParts
    <3>2. CASE x = t
      BY <1>a, <2>1, <2>2, <3>1, <3>2 DEF F!FeedFits
    <3>3. CASE x # t
      BY <1>a, <2>1, <2>2, <3>1, <3>3 DEF F!FeedFits
    <3>4. QED
      BY <3>2, <3>3
  <2>5. QED
    BY <1>a, <1>b, <2>3, <2>4, FeedFewer, FeedWhole
<1>4. QED
  BY <1>1, <1>2, <1>3

LEMMA FeedReceive ==
  ASSUME F!FeedsInv, NEW t \in FeedTargets, F!Receive(t)
  PROVE  F!FeedsInv'
<1> USE FeedConstants
<1>0. FTypes /\ FOpen /\ F!Tracked /\ F!FeedFits(t)
  BY FeedParts
<1>a. UNCHANGED <<open, subs, unsub, chans, live, loop, state, due, visible, withdrawn>>
  BY DEF F!Receive
<1>b. FOpen' /\ t \in unsub /\ t \in subs
  BY <1>0, <1>a DEF FOpen, F!FeedFits, F!Receive, F!Tracked
<1>1. PICK w \in Seq(0..MaxChanges) : w = wire[t] /\ w # <<>>
  BY <1>0 DEF FTypes, F!Receive
<1>2. /\ wire' \in [FeedTargets -> Seq(0..MaxChanges)] /\ wire'[t] = Tail(w)
      /\ \A x \in FeedTargets \ {t} : wire'[x] = wire[x]
  BY <1>0, <1>1 DEF FTypes, F!Receive
<1>3. /\ Head(w) \in 0..MaxChanges
      /\ IF Tail(w) = <<>> THEN w[Len(w)] = Head(w) ELSE Tail(w)[Len(Tail(w))] = w[Len(w)]
  <2>0. Len(w) \in Nat \ {0} /\ Head(w) \in 0..MaxChanges
    BY <1>1, HeadTailProperties, EmptySeq, Zenon
  <2>1. Len(w) \in Nat /\ Len(w) # 0 /\ Head(w) = w[1] /\ Head(w) \in 0..MaxChanges
    BY <1>1, <2>0
  <2>2. /\ Len(Tail(w)) = Len(w) - 1 /\ \A i \in 1..Len(Tail(w)) : Tail(w)[i] = w[i + 1]
        /\ Len(Tail(w)) = 0 <=> Tail(w) = <<>>
    <3>1. /\ Len(Tail(w)) = Len(w) - 1 /\ \A i \in 1..Len(Tail(w)) : Tail(w)[i] = w[i + 1]
          /\ Tail(w) \in Seq(0..MaxChanges)
      <4>1. w \in Seq(0..MaxChanges) /\ w # <<>>
        BY <1>1
      <4>2. Tail(w) \in Seq(0..MaxChanges)
        BY <4>1, HeadTailProperties, Zenon
      <4>3. Len(Tail(w)) = Len(w) - 1
        BY <4>1, HeadTailProperties, Zenon
      <4>4. \A i \in 1..Len(Tail(w)) : Tail(w)[i] = w[i + 1]
        BY <4>1, HeadTailProperties, Zenon
      <4>5. QED
        BY <4>2, <4>3, <4>4
    <3>2. Len(Tail(w)) = 0 <=> Tail(w) = <<>>
      BY <3>1, EmptySeq
    <3>3. QED
      BY <3>1, <3>2
  <2>3. CASE Len(w) = 1
    BY <2>1, <2>2, <2>3
  <2>4. CASE Len(w) > 1
    <3>1. Tail(w) # <<>>
      BY <2>1, <2>2, <2>4
    <3>2. Tail(w)[Len(w) - 1] = w[Len(w) - 1 + 1]
      BY <2>1, <2>2, <2>4
    <3>3. QED
      BY <2>1, <2>2, <3>1, <3>2
  <2>5. QED
    BY <2>1, <2>3, <2>4
<1>4. \/ /\ fshown' = [fshown EXCEPT ![t] = Head(w)] /\ blind' = blind
         /\ fcrossed' = IF loop.at = "deliver" /\ loop.t = t THEN fcrossed \cup {t} ELSE fcrossed
      \/ blind' = blind \cup {t} /\ UNCHANGED <<fshown, fcrossed>>
  BY <1>1, <1>b DEF F!Receive
<1>5. /\ fshown' \in [FeedTargets -> -1..MaxChanges]
      /\ \A x \in FeedTargets \ {t} : fshown'[x] = fshown[x]
      /\ fcrossed \subseteq fcrossed' /\ blind \subseteq blind'
      /\ fcrossed' \ {t} = fcrossed \ {t} /\ blind' \ {t} = blind \ {t}
      /\ t \notin fcrossed' \cup blind' => fshown'[t] = Head(w) /\ ~(loop.at = "deliver" /\ loop.t = t)
  <2>1. PICK n \in -1..MaxChanges : n = Head(w)
    BY <1>3
  <2>2. QED
    BY <1>0, <1>4, <2>1 DEF FTypes, F!TypeOK
<1>6. FTypes' /\ F!Tracked'
  BY <1>0, <1>2, <1>5, <1>a DEF FTypes, F!TypeOK, F!Tracked
<1>7. ASSUME NEW x \in FeedTargets PROVE F!FeedFits(x)'
  <2>1. F!FeedFits(x)
    BY FeedParts
  <2>2. CASE x = t
    <3>1. ASSUME t \notin fcrossed' \cup blind', due[t] = 0
          PROVE  \/ wire'[t] # <<>> /\ wire'[t][Len(wire'[t])] = state[t]
                 \/ /\ wire'[t] = <<>> /\ fshown'[t] = state[t]
                    /\ ~(loop.at = "deliver" /\ loop.t = t)
      <4>1. w[Len(w)] = state[t]
        BY <1>1, <1>5, <1>b, <2>1, <2>2, <3>1 DEF F!FeedFits
      <4>2. QED
        BY <1>2, <1>3, <1>5, <3>1, <4>1
    <3>2. QED
      BY <1>0, <1>a, <1>b, <2>2, <3>1 DEF F!FeedFits
  <2>3. CASE x # t
    <3>1. x \in unsub \ (fcrossed' \cup blind') <=> x \in unsub \ (fcrossed \cup blind)
      BY <1>5, <2>3
    <3>2. QED
      BY <1>2, <1>5, <1>a, <2>1, <2>3, <3>1 DEF F!FeedFits
  <2>4. QED
    BY <2>2, <2>3
<1>8. QED
  BY <1>6, <1>7, <1>a, <1>b, FeedFewer, FeedWhole

(* The feeds of channels, and the end of the connection.                   *)
LEMMA FeedChannel ==
  ASSUME F!FeedsInv, NEW c \in FeedChannels, NEW on \in BOOLEAN, F!ChannelSub(c, on)
  PROVE  F!FeedsInv'
<1> USE FeedConstants
<1>0. FTypes /\ FOpen /\ F!Tracked
  BY FeedParts
<1>1. UNCHANGED <<open, subs, unsub, loop, state, due, wire, fshown, visible, withdrawn, fcrossed, blind>>
      /\ open
  BY DEF F!ChannelSub
<1>2. \/ UNCHANGED <<chans, live>>
      \/ chans' = chans \cup {c} /\ live' = live \cup {c}
      \/ chans' = chans \ {c} /\ live' = live \ {c}
  BY DEF F!ChannelSub
<1>3. FTypes'
  BY <1>0, <1>1, <1>2 DEF FTypes, F!TypeOK
<1>4. FOpen'
  BY <1>0, <1>1, <1>2 DEF FOpen, FTypes, F!TypeOK
<1>5. F!Tracked' /\ \A t \in FeedTargets : F!FeedFits(t)' = F!FeedFits(t)
  BY <1>0, <1>1 DEF F!Tracked, F!FeedFits
<1>6. QED
  BY <1>1, <1>3, <1>4, <1>5, FeedParts, FeedFewer, FeedWhole

LEMMA FeedClose ==
  ASSUME F!FeedsInv, F!CloseAll
  PROVE  F!FeedsInv'
<1> USE FeedConstants
<1>0. FTypes /\ FOpen /\ F!Tracked
  BY FeedParts
<1>1. /\ subs' = {} /\ unsub' = {} /\ chans' = {} /\ open' = FALSE /\ live' = {}
      /\ UNCHANGED <<loop, state, due, visible, withdrawn, fcrossed, blind>> /\ loop = F!Idle
      /\ wire' = [t \in FeedTargets |-> IF t \in unsub \cup chans THEN <<>> ELSE wire[t]]
      /\ fshown' = [t \in FeedTargets |-> -1]
  BY <1>0 DEF F!CloseAll, F!Closed, FOpen
<1>2. \A t \in FeedTargets : wire'[t] = <<>> /\ fshown'[t] = -1
  <2>1. ASSUME NEW t \in FeedTargets PROVE wire'[t] = <<>>
    <3>1. F!FeedFits(t)
      BY FeedParts
    <3>2. QED
      BY <1>1, <3>1 DEF F!FeedFits
  <2>2. QED
    BY <1>1, <2>1
<1>3. FTypes'
  <2>1. PICK n \in -1..MaxChanges : n = -1
    OBVIOUS
  <2>2. fshown' = [t \in FeedTargets |-> n]
    BY <1>1, <2>1
  <2>0. <<>> \in Seq(0..MaxChanges)
    OBVIOUS
  <2>5. PICK e \in Seq(0..MaxChanges) : e = <<>>
    BY <2>0
  <2>6. wire' = [t \in FeedTargets |-> IF t \in unsub \cup chans THEN e ELSE wire[t]]
    BY <1>1, <2>5
  <2>3. fshown' \in [FeedTargets -> -1..MaxChanges] /\ wire' \in [FeedTargets -> Seq(0..MaxChanges)]
    BY <1>0, <2>2, <2>6 DEF FTypes
  <2>4. QED
    BY <1>0, <1>1, <2>3 DEF FTypes, F!TypeOK
<1>4. FOpen' /\ F!Tracked'
  BY <1>1 DEF FOpen, F!Tracked, F!Idle
<1>5. \A t \in FeedTargets : F!FeedFits(t)'
  BY <1>1, <1>2 DEF F!FeedFits
<1>6. QED
  BY <1>1, <1>3, <1>4, <1>5, FeedFewer, FeedWhole

LEMMA FeedStutter == F!FeedsInv /\ UNCHANGED FVars => F!FeedsInv'
  BY DEF FVars, F!FeedsInv, F!FeedsSound, F!TypeOK, F!NoLeak, F!PrivateUntilAllowed, F!ShowsPresent,
         F!Tracked, F!FeedFits, F!Idle

LEMMA FeedStep == F!FeedsInv /\ F!Next => F!FeedsInv'
  BY FeedPresenceSub, FeedCheck, FeedSubscribe, FeedSnapshot, FeedTarget, FeedReceive, FeedChannel,
     FeedClose DEF F!Next

-----------------------------------------------------------------------------
(* The group fan-out.                                                      *)

LEMMA FanoutCardinality == ASSUME NEW S PROVE O!Cardinality(S) = Cardinality(S)
  BY DEF O!Cardinality, Cardinality, O!IsFiniteSet, IsFiniteSet

(* A finite set has a subset of every smaller size.                        *)
LEMMA SubsetOfSize ==
  ASSUME NEW S, IsFiniteSet(S), NEW k \in Nat, k <= Cardinality(S)
  PROVE  \E b \in SUBSET S : Cardinality(b) = k
<1>1. PICK n \in Nat : n = Cardinality(S) /\ ExistsBijection(1..n, S)
  BY FS_CardinalityType
<1>2. PICK f \in Bijection(1..n, S) : TRUE
  BY <1>1 DEF ExistsBijection
<1>3. /\ f \in [1..n -> S] /\ \A i, j \in 1..n : f[i] = f[j] => i = j
  BY <1>2 DEF Bijection, Injection, Surjection, IsInjective
<1>4. 1..k \subseteq 1..n
  BY <1>1
<1> DEFINE b == {f[i] : i \in 1..k}
           g == [i \in 1..k |-> f[i]]
<1>5. b \in SUBSET S
  BY <1>3, <1>4
<1>6. g \in Bijection(1..k, b)
  <2>1. g \in [1..k -> b] /\ (\A i, j \in 1..k : g[i] = g[j] => i = j)
    BY <1>3, <1>4
  <2>2. \A y \in b : \E i \in 1..k : g[i] = y
    OBVIOUS
  <2>3. QED
    BY <2>1, <2>2 DEF Bijection, Injection, Surjection, IsInjective
<1>7. IsFiniteSet(1..k) /\ Cardinality(1..k) = k
  BY FS_Interval
<1>8. Cardinality(b) = k
  <2>1. ExistsBijection(1..k, b)
    BY <1>6 DEF ExistsBijection
  <2>2. QED
    BY <1>7, <2>1, FS_Bijection
<1>9. QED
  BY <1>5, <1>8

(* Something is left to insert as long as there is a batch.                *)
LEMMA FanoutBatches ==
  ASSUME NEW todo \in SUBSET FanoutDevices, todo # {}
  PROVE  O!Batches(todo) # {}
<1> USE FanoutConstants
<1>1. IsFiniteSet(todo) /\ Cardinality(todo) \in Nat \ {0}
  BY FS_Subset, FS_CardinalityType, FS_EmptySet
<1>2. PICK k \in Nat \ {0} :
        k = IF Cardinality(todo) < BatchSize THEN Cardinality(todo) ELSE BatchSize
  BY <1>1
<1>3. k <= Cardinality(todo)
  BY <1>1, <1>2
<1>4. PICK b \in SUBSET todo : Cardinality(b) = k
  BY <1>1, <1>3, SubsetOfSize
<1>5. b # {}
  BY <1>2, <1>4, FS_EmptySet
<1>6. b \in O!Batches(todo)
  BY <1>2, <1>4, <1>5, FanoutCardinality DEF O!Batches
<1>7. QED
  BY <1>6

(* A family of at most one set has no two.                                 *)
LEMMA OneSet ==
  ASSUME NEW A \in SUBSET SUBSET FanoutDevices, Cardinality(A) <= 1, NEW x \in A, NEW y \in A
  PROVE  x = y
<1>1. IsFiniteSet(SUBSET FanoutDevices)
  BY FanoutConstants, FS_SUBSET
<1>2. IsFiniteSet(A) /\ Cardinality(A) \in Nat
  BY <1>1, FS_Subset, FS_CardinalityType
<1>3. Cardinality(A) # 0
  BY <1>2, FS_EmptySet
<1>4. Cardinality(A) = 1
  BY <1>2, <1>3
<1>5. QED
  BY <1>2, <1>4, FS_Singleton

\* The types of Fanout.
OTypes ==
    /\ O!TypeOK
    /\ active \subseteq FanoutDevices /\ announced \subseteq SUBSET FanoutDevices
    /\ ticks \in Nat /\ ofailed \in BOOLEAN
    /\ worker \in [Workers -> O!Jobs]

LEMMA FanoutParts ==
  ASSUME O!FanoutInv
  PROVE  /\ OTypes /\ O!TickIsAll /\ O!OneTotal
         /\ announced = {} => inbox = {} /\ expected = 0 /\ ticks = 0
         /\ \A w \in Workers : O!JobFits(w)
         /\ \A rows \in announced : O!Served(rows)
  BY DEF O!FanoutInv, O!FanoutSound, OTypes

LEMMA FanoutWhole ==
  ASSUME OTypes', O!TickIsAll', O!OneTotal',
         announced' = {} => inbox' = {} /\ expected' = 0 /\ ticks' = 0,
         \A w \in Workers : O!JobFits(w)',
         \A rows \in announced' : O!Served(rows)'
  PROVE  O!FanoutInv'
<1>1. O!EveryDeviceCovered'
  <2> SUFFICES ASSUME ~ofailed', \A w \in Workers : worker'[w] = O!Idle, NEW rows \in announced'
               PROVE  rows \subseteq inbox'
    BY DEF O!EveryDeviceCovered
  <2>1. O!Served(rows)'
    OBVIOUS
  <2>2. \A w \in Workers : worker'[w].at # "insert"
    BY DEF O!Idle
  <2>3. QED
    BY <2>1, <2>2 DEF O!Served
<1>2. QED
  BY <1>1 DEF O!FanoutInv, O!FanoutSound, OTypes

LEMMA FanoutInit == O!Init => O!FanoutInv
<1> SUFFICES ASSUME O!Init PROVE O!FanoutInv
  OBVIOUS
<1>1. Cardinality(FanoutDevices) \in Nat
  BY FanoutConstants, FS_CardinalityType
<1>2. OTypes
  <2>1. O!TypeOK
    BY <1>1, FanoutConstants, FanoutCardinality DEF O!Init, O!TypeOK
  <2>2. QED
    BY <2>1 DEF OTypes, O!Init, O!Jobs
<1>3. O!EveryDeviceCovered /\ O!TickIsAll /\ O!OneTotal
  BY DEF O!Init, O!EveryDeviceCovered, O!TickIsAll, O!OneTotal
<1>4. \A w \in Workers : O!JobFits(w)
  BY DEF O!Init, O!JobFits, O!Idle
<1>5. QED
  BY <1>2, <1>3, <1>4 DEF O!FanoutInv, O!FanoutSound, OTypes, O!Init

(* A step that announces, inserts and ticks nothing and takes no worker    *)
(* out of its insertion: Submit, DeviceGone, Expand.                       *)
LEMMA FanoutQueue ==
  ASSUME O!FanoutInv,
         \/ O!Submit \/ \E d \in FanoutDevices : O!DeviceGone(d)
         \/ \E w \in Workers : O!Expand(w)
         \/ UNCHANGED OVars
  PROVE  O!FanoutInv'
<1> USE FanoutConstants
<1>0. OTypes
  BY FanoutParts
<1>1. /\ UNCHANGED <<inbox, expected, reached, ticks, announced>>
      /\ active' \subseteq FanoutDevices /\ (ofailed => ofailed')
      /\ ofailed' \in BOOLEAN
  <2>1. CASE O!Submit \/ \E d \in FanoutDevices : O!DeviceGone(d)
    BY <1>0, <2>1 DEF O!Submit, O!DeviceGone, OTypes
  <2>2. CASE \E w \in Workers : O!Expand(w)
    <3>1. UNCHANGED <<active, inbox, expected, reached, ticks, announced>>
      BY <2>2 DEF O!Expand
    <3>2. ofailed' = ofailed \/ ofailed' = TRUE
      BY <2>2 DEF O!Expand, O!Fail
    <3>3. ofailed' \in BOOLEAN /\ (ofailed => ofailed')
      BY <1>0, <3>2, Zenon DEF OTypes
    <3>4. QED
      BY <1>0, <3>1, <3>3 DEF OTypes
  <2>3. CASE UNCHANGED OVars
    BY <1>0, <2>3 DEF OVars, OTypes
  <2>4. QED
    BY <2>1, <2>2, <2>3
<1>2. queue' \in 0..QueueDepth
  BY <1>0 DEF O!Submit, O!DeviceGone, O!Expand, OVars, OTypes, O!TypeOK
<1>3. /\ worker' \in [Workers -> O!Jobs]
      /\ \A x \in Workers :
           \/ worker'[x] = worker[x]
           \/ worker[x] = O!Idle /\ worker'[x].at = "announce" /\ worker'[x].todo = worker'[x].rows
  <2>1. CASE UNCHANGED worker
    BY <1>0, <2>1 DEF OTypes
  <2>2. ASSUME NEW w \in Workers, worker[w] = O!Idle,
               worker' = [worker EXCEPT ![w] = [at |-> "announce", rows |-> active, todo |-> active]]
        PROVE  /\ worker' \in [Workers -> O!Jobs]
               /\ \A x \in Workers \ {w} : worker'[x] = worker[x]
               /\ worker'[w].at = "announce" /\ worker'[w].todo = worker'[w].rows
    <3>1. PICK j \in O!Jobs : j = [at |-> "announce", rows |-> active, todo |-> active]
      BY <1>0 DEF OTypes, O!Jobs
    <3>2. j.at = "announce" /\ j.todo = j.rows
      BY <3>1
    <3>3. worker' = [worker EXCEPT ![w] = j]
      BY <2>2, <3>1
    <3>4. QED
      BY <1>0, <2>2, <3>2, <3>3 DEF OTypes
  <2>3. \/ UNCHANGED worker
        \/ \E w \in Workers : /\ worker[w] = O!Idle
              /\ worker' = [worker EXCEPT ![w] = [at |-> "announce", rows |-> active, todo |-> active]]
    BY DEF O!Submit, O!DeviceGone, O!Expand, O!Become, OVars
  <2>4. QED
    BY <2>1, <2>2, <2>3
<1>4. OTypes'
  BY <1>0, <1>1, <1>2, <1>3 DEF OTypes, O!TypeOK
<1>5. O!TickIsAll' /\ O!OneTotal'
  BY <1>1, FanoutParts DEF O!TickIsAll, O!OneTotal, O!OneSize
<1>6. ASSUME NEW x \in Workers PROVE O!JobFits(x)'
  <2>1. O!JobFits(x)
    BY FanoutParts
  <2>2. QED
    BY <1>1, <1>3, <2>1 DEF O!JobFits
<1>7. ASSUME NEW rows \in announced' PROVE O!Served(rows)'
  <2>1. O!Served(rows)
    BY <1>1, <1>7, FanoutParts
  <2>2. \A x \in Workers : worker[x].at = "insert" => worker'[x] = worker[x]
    BY <1>3 DEF O!Idle
  <2>3. QED
    BY <1>1, <2>1, <2>2 DEF O!Served
<1>8. QED
  BY <1>1, <1>4, <1>5, <1>6, <1>7, FanoutParts, FanoutWhole

(* The step of one worker, with what becomes of the jobs.                  *)
LEMMA FanoutSetExpected ==
  ASSUME O!FanoutInv, NEW w \in Workers, O!SetExpected(w)
  PROVE  O!FanoutInv'
<1> USE FanoutConstants
<1>0. OTypes
  BY FanoutParts
<1>1. PICK r \in SUBSET FanoutDevices : r = worker[w].rows /\ worker[w].at = "announce"
                                         /\ worker[w] = [at |-> "announce", rows |-> r, todo |-> r]
  <2>1. worker[w].at = "announce" /\ worker[w] \in O!Jobs /\ O!JobFits(w)
    BY <1>0, FanoutParts DEF O!SetExpected, OTypes
  <2>2. worker[w] \in [at : {"announce", "insert"}, rows : SUBSET FanoutDevices, todo : SUBSET FanoutDevices]
    BY <2>1 DEF O!Jobs, O!Idle
  <2>3. QED
    BY <2>1, <2>2 DEF O!JobFits
<1>2. /\ worker' \in [Workers -> O!Jobs]
      /\ worker'[w].at = "insert" /\ worker'[w].rows = r /\ worker'[w].todo = r
      /\ \A x \in Workers \ {w} : worker'[x] = worker[x]
  <2>1. PICK j \in O!Jobs : j = [at |-> "insert", rows |-> r, todo |-> r]
    BY <1>1 DEF O!Jobs
  <2>2. [worker[w] EXCEPT !.at = "insert"] = j
    BY <1>1, <2>1
  <2>3. worker' = [worker EXCEPT ![w] = j]
    BY <2>2 DEF O!SetExpected, O!Become
  <2>4. j.at = "insert" /\ j.rows = r /\ j.todo = r
    BY <2>1
  <2>5. QED
    BY <1>0, <2>3, <2>4 DEF OTypes
<1>3. /\ UNCHANGED <<active, queue, inbox, reached, ticks>>
      /\ announced' = announced \cup {r}
      /\ \/ expected' = (IF r = {} THEN expected ELSE Cardinality(r)) /\ ofailed' = ofailed
         \/ expected' = expected /\ ofailed' = TRUE
  BY <1>1, FanoutCardinality DEF O!SetExpected, O!Fail
<1>4. Cardinality(r) \in 0..Cardinality(FanoutDevices) /\ Cardinality(FanoutDevices) \in Nat
      /\ (r = {} => Cardinality(r) = 0)
  <2>1. IsFiniteSet(r) /\ Cardinality(r) <= Cardinality(FanoutDevices)
    BY FS_Subset
  <2>2. Cardinality(r) \in Nat /\ Cardinality(FanoutDevices) \in Nat
    BY <2>1, FS_CardinalityType
  <2>3. QED
    BY <2>1, <2>2, FS_EmptySet
<1>5. OTypes'
  <2>1. expected' \in 0..Cardinality(FanoutDevices)
    BY <1>0, <1>3, <1>4, FanoutCardinality DEF OTypes, O!TypeOK
  <2>2. ofailed' \in BOOLEAN /\ announced' \subseteq SUBSET FanoutDevices
    BY <1>0, <1>3, Zenon DEF OTypes
  <2>3. QED
    BY <1>0, <1>2, <1>3, <2>1, <2>2, FanoutCardinality DEF OTypes, O!TypeOK
<1>6. O!TickIsAll' /\ O!OneTotal'
  <2> SUFFICES ASSUME O!OneSize' PROVE O!TickIsAll' /\ O!OneTotal'
    BY DEF O!TickIsAll, O!OneTotal
  <2>1. \A x \in announced' : x = r
    BY <1>3, <1>5, OneSet, FanoutCardinality DEF O!OneSize, OTypes
  <2>2. CASE announced = {}
    <3>1. inbox = {} /\ expected = 0 /\ ticks = 0 /\ reached = {}
      BY <1>0, <2>2, FanoutParts DEF OTypes, O!TypeOK
    <3>2. expected' \in {0, Cardinality(r)} /\ (~ofailed' => expected' = Cardinality(r))
      BY <1>3, <1>4, <3>1
    <3>3. O!TickIsAll'
      BY <1>3, <1>4, <2>1, <3>1, <3>2 DEF O!TickIsAll
    <3>4. O!OneTotal'
      BY <1>3, <2>1, <3>1, <3>2, FanoutCardinality DEF O!OneTotal
    <3>5. QED
      BY <3>3, <3>4
  <2>3. CASE announced # {}
    <3>1. announced' = announced /\ r \in announced
      BY <1>3, <2>1, <2>3
    <3>2. /\ O!OneSize /\ inbox \subseteq r /\ expected \in {0, Cardinality(r)}
          /\ ~ofailed => expected = Cardinality(r)
          /\ ticks > 0 => r \subseteq reached
      BY <3>1, FanoutParts, FanoutCardinality DEF O!OneSize, O!OneTotal
    <3>3. /\ expected' \in {0, Cardinality(r)}
          /\ ~ofailed' => ~ofailed /\ expected' = Cardinality(r) /\ expected = Cardinality(r)
      BY <1>3, <1>4, <3>2
    <3>4. O!TickIsAll'
      BY <1>3, <3>1, <3>2, <3>3, FanoutParts DEF O!TickIsAll
    <3>5. O!OneTotal'
      BY <1>3, <2>1, <3>2, <3>3, FanoutCardinality DEF O!OneTotal
    <3>6. QED
      BY <3>4, <3>5
  <2>4. QED
    BY <2>2, <2>3
<1>7. ASSUME NEW x \in Workers PROVE O!JobFits(x)'
  <2>1. O!JobFits(x)
    BY FanoutParts
  <2>2. QED
    BY <1>2, <1>3, <2>1 DEF O!JobFits
<1>8. ASSUME NEW rows \in announced' PROVE O!Served(rows)'
  <2>1. CASE rows = r
    BY <1>2, <2>1 DEF O!Served
  <2>2. CASE rows # r
    <3>1. O!Served(rows)
      BY <1>3, <2>2, FanoutParts
    <3>2. \A x \in Workers : worker[x].at = "insert" => x # w
      BY <1>1
    <3>3. QED
      BY <1>2, <1>3, <3>1, <3>2 DEF O!Served
  <2>3. QED
    BY <2>1, <2>2
<1>9. QED
  BY <1>3, <1>5, <1>6, <1>7, <1>8, FanoutWhole

(* InsertBatch and JobDone.                                                *)
LEMMA FanoutInsert ==
  ASSUME O!FanoutInv, NEW w \in Workers, O!InsertBatch(w) \/ O!JobDone(w)
  PROVE  O!FanoutInv'
<1> USE FanoutConstants
<1>0. OTypes
  BY FanoutParts
<1>1. PICK r \in SUBSET FanoutDevices, t \in SUBSET FanoutDevices :
        /\ worker[w] = [at |-> "insert", rows |-> r, todo |-> t]
        /\ worker[w].at = "insert" /\ worker[w].rows = r /\ worker[w].todo = t
        /\ r \in announced /\ t \subseteq r /\ r \subseteq inbox \cup t
  <2>1. worker[w].at = "insert" /\ worker[w] \in O!Jobs /\ O!JobFits(w)
    BY <1>0, FanoutParts DEF O!InsertBatch, O!JobDone, OTypes
  <2>2. worker[w] \in [at : {"announce", "insert"}, rows : SUBSET FanoutDevices, todo : SUBSET FanoutDevices]
    BY <2>1 DEF O!Jobs, O!Idle
  <2>3. QED
    BY <2>1, <2>2 DEF O!JobFits
<1>2. UNCHANGED <<active, queue, expected, reached, ticks, announced>>
  BY DEF O!InsertBatch, O!JobDone
<1>3. /\ inbox \subseteq inbox' /\ inbox' \subseteq inbox \cup t
      /\ ofailed' \in BOOLEAN /\ (ofailed => ofailed')
      /\ worker' \in [Workers -> O!Jobs] /\ \A x \in Workers \ {w} : worker'[x] = worker[x]
      /\ \/ /\ worker'[w].at = "insert" /\ worker'[w].rows = r /\ worker'[w].todo \subseteq t
            /\ t \subseteq inbox' \cup worker'[w].todo
         \/ worker'[w] = O!Idle /\ (ofailed' \/ t = {})
  <2>1. CASE O!JobDone(w)
    <3>1. t = {}
      BY <1>1, <2>1, FanoutBatches DEF O!JobDone
    <3>2. worker' = [worker EXCEPT ![w] = O!Idle] /\ UNCHANGED <<inbox, ofailed>>
      BY <2>1 DEF O!JobDone, O!Become
    <3>3. QED
      BY <1>0, <3>1, <3>2 DEF OTypes, O!Jobs
  <2>2. CASE ofailed' = TRUE /\ worker' = [worker EXCEPT ![w] = O!Idle] /\ UNCHANGED inbox
    BY <1>0, <2>2 DEF OTypes, O!Jobs
  <2>3. ASSUME NEW b \in O!Batches(t), inbox' = inbox \cup b,
               worker' = [worker EXCEPT ![w] = [worker[w] EXCEPT !.todo = @ \ b]],
               ofailed' = ofailed
        PROVE  /\ inbox \subseteq inbox' /\ inbox' \subseteq inbox \cup t
               /\ ofailed' \in BOOLEAN /\ (ofailed => ofailed')
               /\ worker' \in [Workers -> O!Jobs] /\ \A x \in Workers \ {w} : worker'[x] = worker[x]
               /\ worker'[w].at = "insert" /\ worker'[w].rows = r /\ worker'[w].todo \subseteq t
               /\ t \subseteq inbox' \cup worker'[w].todo
    <3>1. b \subseteq t
      BY DEF O!Batches
    <3>2. PICK j \in O!Jobs : j = [at |-> "insert", rows |-> r, todo |-> t \ b]
      BY DEF O!Jobs
    <3>3. j.at = "insert" /\ j.rows = r /\ j.todo = t \ b
      BY <3>2
    <3>4. [worker[w] EXCEPT !.todo = @ \ b] = j
      BY <1>1, <3>2
    <3>5. worker' = [worker EXCEPT ![w] = j]
      BY <2>3, <3>4
    <3>6. worker'[w] = j /\ worker' \in [Workers -> O!Jobs] /\ \A x \in Workers \ {w} : worker'[x] = worker[x]
      BY <1>0, <3>5 DEF OTypes
    <3>7. ofailed' \in BOOLEAN /\ (ofailed => ofailed')
      BY <1>0, <2>3 DEF OTypes
    <3>8. QED
      BY <2>3, <3>1, <3>3, <3>6, <3>7
  <2>4. CASE O!InsertBatch(w)
    <3>1. \/ ofailed' = TRUE /\ worker' = [worker EXCEPT ![w] = O!Idle] /\ UNCHANGED inbox
          \/ \E b \in O!Batches(t) :
               /\ inbox' = inbox \cup b /\ ofailed' = ofailed
               /\ worker' = [worker EXCEPT ![w] = [worker[w] EXCEPT !.todo = @ \ b]]
      BY <1>1, <2>4, Zenon DEF O!InsertBatch, O!Become, O!Fail
    <3>2. QED
      BY <2>2, <2>3, <3>1
  <2>5. QED
    BY <2>1, <2>4
<1>4. OTypes'
  BY <1>0, <1>1, <1>2, <1>3 DEF OTypes, O!TypeOK
<1>5. O!TickIsAll'
  BY <1>2, <1>3, FanoutParts DEF O!TickIsAll, O!OneSize
<1>6. O!OneTotal'
  <2> SUFFICES ASSUME O!OneSize', NEW rows \in announced
               PROVE  /\ inbox' \subseteq rows
                      /\ expected' \in {0, O!Cardinality(rows)}
                      /\ ~ofailed' => expected' = O!Cardinality(rows)
                      /\ ticks' > 0 => rows \subseteq reached'
    BY <1>2 DEF O!OneTotal
  <2>1. O!OneSize /\ Cardinality(announced) <= 1
    BY <1>2, FanoutCardinality DEF O!OneSize
  <2>2. rows = r
    BY <1>0, <1>1, <2>1, OneSet DEF OTypes
  <2>3. QED
    BY <1>1, <1>2, <1>3, <2>1, <2>2, FanoutParts DEF O!OneTotal
<1>7. ASSUME NEW x \in Workers PROVE O!JobFits(x)'
  <2>1. O!JobFits(x)
    BY FanoutParts
  <2>2. CASE x # w
    BY <1>2, <1>3, <2>1, <2>2 DEF O!JobFits
  <2>3. CASE x = w
    BY <1>1, <1>2, <1>3, <2>3 DEF O!JobFits, O!Idle
  <2>4. QED
    BY <2>2, <2>3
<1>8. ASSUME NEW rows \in announced' PROVE O!Served(rows)'
  <2>1. O!Served(rows)
    BY <1>2, <1>8, FanoutParts
  <2>2. CASE rows = r
    BY <1>1, <1>3, <2>2 DEF O!Served
  <2>3. CASE rows # r
    <3>1. \A x \in Workers : worker[x].at = "insert" /\ worker[x].rows = rows => x # w
      BY <1>1, <2>3
    <3>2. QED
      BY <1>3, <2>1, <3>1 DEF O!Served
  <2>4. QED
    BY <2>2, <2>3
<1>9. QED
  BY <1>1, <1>2, <1>4, <1>5, <1>6, <1>7, <1>8, FanoutWhole

LEMMA FanoutReceipt ==
  ASSUME O!FanoutInv, NEW d \in FanoutDevices, O!OnDeviceReceipt(d)
  PROVE  O!FanoutInv'
<1> USE FanoutConstants
<1>0. OTypes
  BY FanoutParts
<1>1. /\ UNCHANGED <<active, queue, worker, inbox, expected, announced, ofailed>>
      /\ d \in inbox /\ reached' = reached \cup {d}
      /\ ticks' = IF ticks < 3 /\ d \notin reached /\ expected > 0 /\ Cardinality(reached') = expected
                  THEN ticks + 1 ELSE ticks
  BY FanoutCardinality DEF O!OnDeviceReceipt, O!Emits, O!MaxTicks
<1>2. ticks' \in Nat
  BY <1>0, <1>1 DEF OTypes
<1>3. OTypes'
  BY <1>0, <1>1, <1>2 DEF OTypes, O!TypeOK
<1>4. announced # {}
  BY <1>1, FanoutParts
<1>5. ASSUME O!OneSize' PROVE O!TickIsAll' /\ O!OneTotal'
  <2>1. PICK r \in announced : \A x \in announced : x = r
    BY <1>0, <1>1, <1>4, <1>5, OneSet, FanoutCardinality DEF O!OneSize, OTypes
  <2>2. /\ O!OneSize /\ inbox \subseteq r /\ expected \in {0, Cardinality(r)}
        /\ ~ofailed => expected = Cardinality(r)
        /\ ticks > 0 => r \subseteq reached
        /\ ticks <= 1
        /\ (~ofailed /\ expected > 0 /\ r \subseteq reached) => ticks = 1
    <3>1. O!OneSize
      BY <1>1, <1>5 DEF O!OneSize
    <3>2. QED
      BY <2>1, <3>1, FanoutParts, FanoutCardinality DEF O!OneTotal, O!TickIsAll
  <2>3. reached' \subseteq r /\ IsFiniteSet(r) /\ r \subseteq FanoutDevices
    <3>1. reached' \subseteq r /\ r \subseteq FanoutDevices
      BY <1>0, <1>1, <2>1, <2>2 DEF OTypes, O!TypeOK
    <3>2. QED
      BY <3>1, FS_Subset
  <2>4. Cardinality(reached') = Cardinality(r) <=> reached' = r
    BY <2>3, FS_Subset
  <2>5. CASE d \in reached
    <3>1. reached' = reached /\ ticks' = ticks
      BY <1>1, <2>5
    <3>2. QED
      BY <1>1, <2>1, <2>2, <3>1, FanoutCardinality DEF O!TickIsAll, O!OneTotal
  <2>6. CASE d \notin reached
    <3>1. ~(r \subseteq reached) /\ ticks = 0
      BY <1>0, <1>1, <2>2, <2>6 DEF OTypes
    <3>2. ticks' = IF expected > 0 /\ Cardinality(reached') = expected THEN 1 ELSE 0
      BY <1>1, <2>6, <3>1
    <3>3. ticks' > 0 => r \subseteq reached'
      BY <2>2, <2>4, <3>2
    <3>4. (~ofailed /\ expected > 0 /\ r \subseteq reached') => ticks' = 1
      BY <2>2, <2>3, <2>4, <3>2
    <3>5. ticks' \in {0, 1}
      BY <3>2
    <3>6. O!TickIsAll'
      BY <1>1, <2>1, <3>3, <3>4, <3>5 DEF O!TickIsAll
    <3>7. O!OneTotal'
      BY <1>1, <2>1, <2>2, <3>3, FanoutCardinality DEF O!OneTotal
    <3>8. QED
      BY <3>6, <3>7
  <2>7. QED
    BY <2>5, <2>6
<1>6. O!TickIsAll' /\ O!OneTotal'
  BY <1>5 DEF O!TickIsAll, O!OneTotal
<1>7. (\A w \in Workers : O!JobFits(w)' = O!JobFits(w))
      /\ \A rows \in announced : O!Served(rows)' = O!Served(rows)
  BY <1>1 DEF O!JobFits, O!Served
<1>8. QED
  BY <1>1, <1>3, <1>4, <1>6, <1>7, FanoutParts, FanoutWhole

LEMMA FanoutStep == O!FanoutInv /\ O!Next => O!FanoutInv'
  BY FanoutQueue, FanoutSetExpected, FanoutInsert, FanoutReceipt DEF O!Next

-----------------------------------------------------------------------------
(* The properties of the run, for every value of the constants.            *)

LEMMA PartInit ==
  ASSUME MCInit
  PROVE  /\ Init /\ P!Init
         /\ part = "receipts" => R!Init
         /\ part = "feeds" => F!Init
         /\ part = "fanout" => O!Init
  BY DEF MCInit

LEMMA PartStep ==
  ASSUME [MCNext]_mcvars
  PROVE  /\ part' = part
         /\ [Next]_vars /\ [P!Next]_PVars
         /\ part = "receipts" => [R!Next]_RVars
         /\ part = "feeds" => [F!Next]_FVars
         /\ part = "fanout" => [O!Next]_OVars
<1>1. CASE UNCHANGED mcvars
  BY <1>1 DEF mcvars
<1>2. CASE MCNext
  BY <1>2 DEF MCNext
<1>3. QED
  BY <1>1, <1>2

(* Whatever connections of a device claim, displace, drop and expire each  *)
(* other over any number of pods, the registry is exact, no subscription   *)
(* is left behind, and 4409 goes only to a connection that another one     *)
(* replaced (GatewaySession).                                              *)
THEOREM SessionIsSound == MCSpec => []SessionSound
<1>1. MCInit => SessionSound
  BY PartInit, SessionInit DEF SessionSound
<1>2. SessionSound /\ [MCNext]_mcvars => SessionSound'
  BY PartStep, SessionStep DEF SessionSound
<1>3. QED
  BY <1>1, <1>2, PTL DEF MCSpec

(* For any number of pods, devices and connections, a registered offline   *)
(* timer is pending, a device in the hash is backed by a connection or a   *)
(* pending offline unless a call failed, and a user flaps only when        *)
(* connections of the same device crossed (Presence).                      *)
THEOREM PresenceIsSound == MCSpec => []PresenceSound
<1>1. MCInit => PresenceSound
  BY PartInit, PresenceInit DEF PresenceSound
<1>2. PresenceSound /\ [MCNext]_mcvars => PresenceSound'
  BY PartStep, PresenceStep, PresencePrune DEF PresenceSound
<1>3. QED
  BY <1>1, <1>2, PTL DEF MCSpec

(* However receipts are coalesced, gated and relayed over any number of    *)
(* connections, none is lost or invented and no read leaks; the feeds of a *)
(* connection end with it, respect privacy and show the present, for any   *)
(* targets and channels (Receipts, Feeds).                                 *)
THEOREM FeedsAreSound == MCSpec => []FeedsSound
<1>1. MCInit => FeedsSound
  BY PartInit, ReceiptInit, FeedInit DEF FeedsSound
<1>2. FeedsSound /\ [MCNext]_mcvars => FeedsSound'
  BY PartStep, ReceiptStep, ReceiptSetting, FeedStep, FeedStutter DEF FeedsSound
<1>3. QED
  BY <1>1, <1>2, PTL DEF MCSpec

(* For any devices, workers, queue and batch size, a fan-out in which no   *)
(* call failed covers every device it announced, and the sender's tick     *)
(* flips once, when all of them have reached the state (Fanout).           *)
THEOREM FanoutIsSound == MCSpec => []FanoutSound
<1>1. MCInit => FanoutSound
  BY PartInit, FanoutInit DEF FanoutSound
<1>2. FanoutSound /\ [MCNext]_mcvars => FanoutSound'
  BY PartStep, FanoutStep, FanoutQueue DEF FanoutSound
<1>3. QED
  BY <1>1, <1>2, PTL DEF MCSpec
=============================================================================
