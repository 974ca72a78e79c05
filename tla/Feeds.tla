------------------------------- MODULE Feeds -------------------------------
(***************************************************************************)
(* The presence and channel feeds of one gateway connection                *)
(* (gateway/presence.go, gateway/channels.go, presence/subscriptions.go).  *)
(* The connection's read loop opens and closes feeds, one call at a time;  *)
(* NATS callbacks deliver what is published.  A user's presence is a       *)
(* version number, the number of its changes.                              *)
(***************************************************************************)
EXTENDS Integers, FiniteSets, Sequences

CONSTANTS Targets, Channels, MaxSubscriptions, MaxChanges, MaxFaults

VARIABLES
    open,      \* is the connection served
    subs,      \* Subscriptions.set
    unsub,     \* connPresence.unsub: the targets with a recorded unsubscribe
    chans,     \* connChannels.unsub
    live,      \* the NATS subscriptions of this connection
    loop,      \* what the read loop does: the targets to open, the step it is at
    state,     \* presence of each target in Valkey
    due,       \* changes of each target not published yet (0 or 1)
    wire,      \* published to the live subscription, not delivered yet
    shown,     \* the last version delivered to the client, -1 none
    visible,   \* whose presence the viewer may see
    withdrawn, \* history: targets that hid their presence from a viewer with a feed
    crossed,   \* history: targets whose update overtook the snapshot
    blind,     \* history: targets of which a frame or the snapshot was lost
    faults

vars == <<open, subs, unsub, chans, live, loop, state, due, wire, shown, visible, withdrawn,
          crossed, blind, faults>>

Idle == [at |-> "idle", add |-> {}]

Init ==
    /\ open = TRUE
    /\ subs = {} /\ unsub = {} /\ chans = {} /\ live = {}
    /\ loop = Idle
    /\ state = [t \in Targets |-> 0]
    /\ due = [t \in Targets |-> 0]
    /\ wire = [t \in Targets |-> <<>>]
    /\ shown = [t \in Targets |-> -1]
    /\ visible \in SUBSET Targets
    /\ withdrawn = {} /\ crossed = {} /\ blind = {} /\ faults = 0

(* Unsubscribing drops what the subscription still had to deliver.         *)
Closed(gone) ==
    /\ live' = live \ gone
    /\ wire' = [t \in Targets |-> IF t \in gone THEN <<>> ELSE wire[t]]

(* Subscriptions.Apply: removals first, then additions up to the cap.      *)
(* Which of several additions fit depends on their order in the frame.     *)
Additions(kept, sub) ==
    LET fresh == sub \ kept
        room == MaxSubscriptions - Cardinality(kept)
    IN  {add \in SUBSET fresh :
            Cardinality(add) = IF Cardinality(fresh) < room THEN Cardinality(fresh) ELSE room}

(* handlePresenceSub: apply the delta, close the feeds removed, then open  *)
(* those added one after the other.                                        *)
PresenceSub(sub, rem) ==
    LET gone == subs \cap rem
    IN  /\ open /\ loop = Idle
        /\ \E add \in Additions(subs \ gone, sub) :
            /\ subs' = (subs \ gone) \cup add
            /\ loop' = IF add = {} THEN Idle ELSE [at |-> "check", add |-> add]
        /\ Closed(gone \cap unsub)
        /\ unsub' = unsub \ gone
        /\ shown' = [t \in Targets |-> IF t \in gone THEN -1 ELSE shown[t]]
        /\ UNCHANGED <<open, chans, state, due, visible, withdrawn, crossed, blind, faults>>

(* What the loop does after it is done with target t.                      *)
After(t) == IF loop.add = {t} THEN Idle ELSE [at |-> "check", add |-> loop.add \ {t}]

(* Mutant of Opened: presence is fanned out before the check.              *)
OpenedAnyway(t) == TRUE

(* CanSeePresence.                                                         *)
Opened(t) == t \in visible

CanSeePresence(t) ==
    /\ loop.at = "check" /\ t \in loop.add
    /\ IF Opened(t)
       THEN /\ loop' = [at |-> "subscribe", add |-> loop.add, t |-> t]
            /\ UNCHANGED subs
       ELSE /\ subs' = subs \ {t}
            /\ loop' = After(t)
    /\ UNCHANGED <<open, unsub, chans, live, state, due, wire, shown, visible, withdrawn,
                   crossed, blind, faults>>

(* Mutant of Revoked: the subscription stays when the feed cannot open.    *)
RevokedNot(t) == subs

Revoked(t) == subs \ {t}

(* SubscribePresence and SubscribeTyping; one that fails takes the other   *)
(* back and revokes the subscription.                                      *)
Subscribe ==
    /\ loop.at = "subscribe"
    /\ \/ /\ live' = live \cup {loop.t}
          /\ unsub' = unsub \cup {loop.t}
          /\ loop' = [loop EXCEPT !.at = "snapshot"]
          /\ crossed' = crossed \ {loop.t} /\ blind' = blind \ {loop.t}
          /\ UNCHANGED <<subs, faults>>
       \/ /\ faults < MaxFaults
          /\ subs' = Revoked(loop.t)
          /\ loop' = After(loop.t)
          /\ faults' = faults + 1
          /\ UNCHANGED <<live, unsub, crossed, blind>>
    /\ UNCHANGED <<open, chans, state, due, wire, shown, visible, withdrawn>>

(* Snapshot reads Valkey; when it fails the client waits for the next      *)
(* change.                                                                 *)
Snapshot ==
    /\ loop.at = "snapshot"
    /\ \/ /\ loop' = [at |-> "deliver", add |-> loop.add, t |-> loop.t, v |-> state[loop.t]]
          /\ UNCHANGED <<blind, faults>>
       \/ /\ faults < MaxFaults
          /\ loop' = After(loop.t)
          /\ blind' = blind \cup {loop.t}
          /\ faults' = faults + 1
    /\ UNCHANGED <<open, subs, unsub, chans, live, state, due, wire, shown, visible, withdrawn,
                   crossed>>

DeliverSnapshot ==
    /\ loop.at = "deliver"
    /\ shown' = [shown EXCEPT ![loop.t] = loop.v]
    /\ loop' = After(loop.t)
    /\ UNCHANGED <<open, subs, unsub, chans, live, state, due, wire, visible, withdrawn, crossed,
                   blind, faults>>

(* A target goes online or offline on some gateway, which then publishes.  *)
Change(t) ==
    /\ state[t] < MaxChanges /\ due[t] = 0
    /\ state' = [state EXCEPT ![t] = @ + 1]
    /\ due' = [due EXCEPT ![t] = 1]
    /\ UNCHANGED <<open, subs, unsub, chans, live, loop, wire, shown, visible, withdrawn,
                   crossed, blind, faults>>

(* The target changes its privacy: a feed that is open stays open.         *)
HidePresence(t) ==
    /\ t \in visible
    /\ visible' = visible \ {t}
    /\ withdrawn' = IF t \in subs THEN withdrawn \cup {t} ELSE withdrawn
    /\ UNCHANGED <<open, subs, unsub, chans, live, loop, state, due, wire, shown, crossed,
                   blind, faults>>

PublishUpdate(t) ==
    /\ due[t] = 1
    /\ due' = [due EXCEPT ![t] = 0]
    /\ wire' = [wire EXCEPT ![t] = IF t \in live THEN Append(@, state[t]) ELSE @]
    /\ UNCHANGED <<open, subs, unsub, chans, live, loop, state, shown, visible, withdrawn,
                   crossed, blind, faults>>

(* The NATS callback of pres.{t}; a full outbound queue drops the frame.   *)
Receive(t) ==
    /\ wire[t] # <<>>
    /\ wire' = [wire EXCEPT ![t] = Tail(@)]
    /\ \/ /\ shown' = [shown EXCEPT ![t] = IF t \in subs THEN Head(wire[t]) ELSE @]
          /\ crossed' = IF loop.at = "deliver" /\ loop.t = t THEN crossed \cup {t} ELSE crossed
          /\ UNCHANGED <<blind, faults>>
       \/ /\ faults < MaxFaults
          /\ faults' = faults + 1
          /\ blind' = blind \cup {t}
          /\ UNCHANGED <<shown, crossed>>
    /\ UNCHANGED <<open, subs, unsub, chans, live, loop, state, due, visible, withdrawn>>

(* handleChannelSub: closes and opens channel feeds; opening one twice is  *)
(* a no-op, one that cannot be opened is skipped.                          *)
ChannelSub(c, on) ==
    /\ open /\ loop = Idle
    /\ \/ /\ chans' = IF on THEN chans \cup {c} ELSE chans \ {c}
          /\ live' = IF on THEN live \cup {c} ELSE live \ {c}
          /\ UNCHANGED faults
       \/ /\ on /\ c \notin chans /\ faults < MaxFaults
          /\ faults' = faults + 1
          /\ UNCHANGED <<chans, live>>
    /\ UNCHANGED <<open, subs, unsub, loop, state, due, wire, shown, visible, withdrawn, crossed,
                   blind>>

(* The read loop ends: cleanup closes every feed.                          *)
CloseAll ==
    /\ open /\ loop = Idle
    /\ open' = FALSE
    /\ Closed(unsub \cup chans)
    /\ subs' = {} /\ unsub' = {} /\ chans' = {}
    /\ shown' = [t \in Targets |-> -1]
    /\ UNCHANGED <<loop, state, due, visible, withdrawn, crossed, blind, faults>>

Next ==
    \/ \E sub, rem \in SUBSET Targets : PresenceSub(sub, rem)
    \/ Subscribe \/ Snapshot \/ DeliverSnapshot \/ CloseAll
    \/ \E t \in Targets :
        CanSeePresence(t) \/ Change(t) \/ HidePresence(t) \/ PublishUpdate(t) \/ Receive(t)
    \/ \E c \in Channels, on \in BOOLEAN : ChannelSub(c, on)

-----------------------------------------------------------------------------
TypeOK ==
    /\ subs \subseteq Targets /\ unsub \subseteq Targets /\ chans \subseteq Channels
    /\ live \subseteq Targets \cup Channels
    /\ shown \in [Targets -> -1..MaxChanges]

(* No feed outlives its entry: what NATS delivers to the connection is     *)
(* what it can still unsubscribe from, nothing after it has closed; between*)
(* two frames the set of tracked users is the set of open feeds, within    *)
(* the cap.                                                                *)
NoLeak ==
    /\ live = unsub \cup chans
    /\ ~open => live = {}
    /\ loop = Idle => subs = unsub
    /\ Cardinality(subs) <= MaxSubscriptions

(* Nobody is shown the presence of a user who hides it, unless it was      *)
(* hidden after the feed had been opened: the check is not repeated.       *)
PrivateUntilAllowed ==
    \A t \in Targets : shown[t] >= 0 => t \in visible \cup withdrawn

(* Once everything published has been delivered the client is shown the    *)
(* target's present state, unless a frame was dropped or an update reached *)
(* it between the snapshot's read and its delivery.                        *)
ShowsPresent ==
    \A t \in unsub : (loop = Idle /\ wire[t] = <<>> /\ due[t] = 0)
        => shown[t] = state[t] \/ t \in crossed \cup blind

FeedsSound == TypeOK /\ NoLeak /\ PrivateUntilAllowed /\ ShowsPresent

-----------------------------------------------------------------------------
\* What the read loop does.
Loops ==
    {Idle} \cup [at : {"check"}, add : SUBSET Targets]
    \cup [at : {"subscribe", "snapshot"}, add : SUBSET Targets, t : Targets]
    \cup [at : {"deliver"}, add : SUBSET Targets, t : Targets, v : 0..MaxChanges]

(* The users tracked are those with a feed and those the loop has still to *)
(* open; the one it works on passed the check.                             *)
Tracked ==
    /\ subs = unsub \cup loop.add
    /\ loop # Idle => loop.add # {} /\ open
    /\ loop.at \in {"idle", "check"} => loop.add \cap unsub = {}
    /\ loop.at \in {"subscribe", "snapshot", "deliver"} =>
        /\ loop.t \in loop.add /\ loop.t \in visible \cup withdrawn
        /\ loop.add \cap unsub = IF loop.at = "subscribe" THEN {} ELSE {loop.t}

(* A feed has been allowed, only a feed shows or carries anything, and the *)
(* state of its user is the last thing shown, on the wire, about to be     *)
(* published or about to be delivered by the snapshot.                     *)
FeedFits(t) ==
    /\ t \in unsub => t \in visible \cup withdrawn
    /\ t \notin unsub => shown[t] = -1 /\ wire[t] = <<>>
    /\ (t \in unsub \ (crossed \cup blind) /\ due[t] = 0) =>
        \/ wire[t] # <<>> /\ wire[t][Len(wire[t])] = state[t]
        \/ wire[t] = <<>> /\ shown[t] = state[t] /\ ~(loop.at = "deliver" /\ loop.t = t)
        \/ wire[t] = <<>> /\ loop.at = "snapshot" /\ loop.t = t
        \/ wire[t] = <<>> /\ loop.at = "deliver" /\ loop.t = t /\ loop.v = state[t]

(* The inductive invariant.                                                *)
FeedsInv ==
    /\ FeedsSound
    /\ open \in BOOLEAN
    /\ loop \in Loops
    /\ state \in [Targets -> 0..MaxChanges]
    /\ due \in [Targets -> {0, 1}]
    /\ wire \in [Targets -> Seq(0..MaxChanges)]
    /\ Tracked
    /\ \A t \in Targets : FeedFits(t)
=============================================================================
