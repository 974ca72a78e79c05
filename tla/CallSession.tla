---------------------------- MODULE CallSession ----------------------------
(***************************************************************************)
(* The client of a call: the phases of callState.ts, the requests that     *)
(* CallSession awaits, and the media connection it brings up and tears     *)
(* down.  Frames of the server and actions of the user arrive between any  *)
(* two awaits.  The application makes one CallSession and keeps it; frames *)
(* are not matched with the ring they belong to.                           *)
(***************************************************************************)
EXTENDS Naturals

CONSTANTS
    Offers,     \* rings other users offer to this client
    MaxStarts   \* bound on calls the user places

ASSUME ConstantsAssumption == MaxStarts \in Nat

Phases == {"idle", "outgoing", "incoming", "connecting", "connected", "ended"}
\* The ring states call-ctl signals; it never sends busy or ended.
Signals == {"answered", "answered_elsewhere", "declined", "missed"}

VARIABLES
    phase,
    creating, answering,  \* requests the session awaits
    link,      \* connectMedia: "none", "secret" or "join" is awaited
    media,     \* the room of the transport: "down", "joining" or "up"
    ringDone,  \* history: the callee answered, as this client knows it
    offered,   \* rings offered so far
    starts

vars == <<phase, creating, answering, link, media, ringDone, offered, starts>>
requests == <<creating, answering>>
ghosts == <<ringDone, offered>>

Active(p) == p \notin {"idle", "ended"}
-----------------------------------------------------------------------------
Init ==
    /\ phase = "idle"
    /\ creating = FALSE /\ answering = FALSE
    /\ link = "none" /\ media = "down"
    /\ ringDone = FALSE /\ offered = {}
    /\ starts = 0

\* Mutant: an answered signal moves every phase to connecting.
AnsweredAnywhere(p, sig) ==
    IF sig = "answered" /\ p # "ended" THEN "connecting" ELSE "ended"
(* onRing: the phase a ring signal leads to.                               *)
AfterRing(p, sig) ==
    CASE p = "ended" -> "ended"
      [] sig = "answered" -> IF p = "outgoing" THEN "connecting" ELSE p
      [] sig = "answered_elsewhere" -> IF p = "incoming" THEN "ended" ELSE p
      [] sig = "busy" -> IF p = "outgoing" THEN "ended" ELSE p
      [] sig \in {"declined", "missed"} ->
            IF p \in {"outgoing", "incoming"} THEN "ended" ELSE p
      [] sig = "ended" -> "ended"

\* media.disconnect(): a room that is joining or joined is left; before
\* join() has made a room there is nothing to leave.
Leave == media' = "down"

StartCall ==
    /\ phase = "idle" /\ ~creating
    /\ starts < MaxStarts
    /\ starts' = starts + 1
    /\ creating' = TRUE
    /\ UNCHANGED <<phase, answering, link, media, ghosts>>

(* create() resolves: the call is outgoing if the session is still idle.   *)
Created ==
    /\ creating
    /\ creating' = FALSE
    /\ phase' = IF phase = "idle" THEN "outgoing" ELSE phase
    /\ UNCHANGED <<answering, link, media, ghosts, starts>>

CreateFails ==
    /\ creating
    /\ creating' = FALSE
    /\ UNCHANGED <<phase, answering, link, media, ghosts, starts>>

OnOffer(c) ==
    /\ c \notin offered
    /\ offered' = offered \cup {c}
    /\ phase' = IF phase = "idle" THEN "incoming" ELSE phase
    /\ UNCHANGED <<requests, link, media, ringDone, starts>>

Accept ==
    /\ phase = "incoming" /\ ~answering
    /\ answering' = TRUE
    /\ UNCHANGED <<phase, creating, link, media, ghosts, starts>>

(* answer() resolves: the phase moves on if it is still incoming, and the  *)
(* media is connected whatever the phase is by now.                        *)
Answered ==
    /\ answering
    /\ answering' = FALSE
    /\ phase' = IF phase = "incoming" THEN "connecting" ELSE phase
    /\ link' = "secret"
    /\ ringDone' = TRUE
    /\ UNCHANGED <<creating, media, offered, starts>>

AnswerFails ==
    /\ answering
    /\ answering' = FALSE
    /\ UNCHANGED <<phase, creating, link, media, ghosts, starts>>

Decline ==
    /\ phase = "incoming"
    /\ phase' = "ended"
    /\ UNCHANGED <<requests, link, media, ghosts, starts>>

\* Mutant: the media is connected on every signal while the call is set up.
LinksOnAnySignal(sig) == phase \in {"outgoing", "incoming"} /\ link = "none"
\* The caller connects the media when it learns of the answer.
Links(sig) == sig = "answered" /\ phase = "outgoing"

OnRing(sig) ==
    /\ phase' = AfterRing(phase, sig)
    /\ link' = IF Links(sig) THEN "secret" ELSE link
    /\ ringDone' = (ringDone \/ (sig = "answered" /\ phase = "outgoing"))
    /\ UNCHANGED <<requests, media, offered, starts>>

OnRemoteEnd ==
    /\ phase # "ended"
    /\ phase' = "ended"
    /\ Leave
    /\ UNCHANGED <<requests, link, ghosts, starts>>

Hangup ==
    /\ Active(phase)
    /\ phase' = "ended"
    /\ Leave
    /\ UNCHANGED <<requests, link, ghosts, starts>>
-----------------------------------------------------------------------------
\* Nothing is dispatched before join() has ended.
PhaseOnJoin == phase

(* connectMedia: the secret and the frame keys are ready, join() starts.   *)
LinkJoins ==
    /\ link = "secret"
    /\ link' = "join"
    /\ media' = "joining"
    /\ phase' = PhaseOnJoin
    /\ UNCHANGED <<requests, ghosts, starts>>

Joined == link = "join" /\ media = "joining"

(* join() resolves; the phase is connected if it was still connecting.     *)
LinkUp ==
    /\ Joined
    /\ link' = "none"
    /\ media' = "up"
    /\ phase' = IF phase = "connecting" THEN "connected" ELSE phase
    /\ UNCHANGED <<requests, ghosts, starts>>

\* Mutant of OnFailure: the error of join() is swallowed.
EndOnFailure == phase

\* media-failed ends the call.
OnFailure == "ended"

(* The secret, the keys or join() fail, or a disconnect aborts the join.   *)
LinkFails ==
    /\ link \in {"secret", "join"}
    /\ link' = "none"
    /\ phase' = OnFailure
    /\ Leave
    /\ UNCHANGED <<requests, ghosts, starts>>
-----------------------------------------------------------------------------
Next ==
    \/ StartCall \/ Created \/ CreateFails
    \/ \E c \in Offers : OnOffer(c)
    \/ Accept \/ Answered \/ AnswerFails \/ Decline
    \/ \E sig \in Signals : OnRing(sig)
    \/ OnRemoteEnd \/ Hangup
    \/ LinkJoins \/ LinkUp \/ LinkFails

Spec == Init /\ [][Next]_vars

\* Promises settle: the secret is derived, a join ends one way or the other.
Fairness == WF_vars(LinkJoins) /\ WF_vars(LinkUp \/ LinkFails)

FairSpec == Spec /\ Fairness
-----------------------------------------------------------------------------
(* Every variable has its type.                                            *)
TypeOK ==
    /\ phase \in Phases
    /\ creating \in BOOLEAN /\ answering \in BOOLEAN
    /\ link \in {"none", "secret", "join"}
    /\ media \in {"down", "joining", "up"}
    /\ ringDone \in BOOLEAN
    /\ offered \subseteq Offers
    /\ starts \in 0..MaxStarts

(* A call that is shown as connected has its media up: no frame or user    *)
(* action that comes while the media is being joined can leave a connected *)
(* call without it.  "Media connects once the callee answers": neither     *)
(* side joins the room of a call this client does not know to be answered. *)
MediaFollowsCall ==
    /\ phase = "connected" => media = "up"
    /\ media # "down" => ringDone

\* The phases in the order of a call.
Rank(p) ==
    CASE p = "idle" -> 0
      [] p \in {"outgoing", "incoming"} -> 1
      [] p = "connecting" -> 2
      [] p = "connected" -> 3
      [] p = "ended" -> 4

(* A call never goes back: whatever frames come late or twice, a phase     *)
(* only gives way to a later one.                                          *)
PhaseForward == [][phase' # phase => Rank(phase') > Rank(phase)]_vars

(* A call does not stay in connecting: the media comes up or the call ends.*)
ConnectingEnds == (phase = "connecting") ~> (phase \in {"connected", "ended"})
=============================================================================
