------------------------------ MODULE Webinar ------------------------------
(***************************************************************************)
(* One webinar: waiting room, roles and join tokens                        *)
(* (webinar/service.go, webinar/domain/webinar.go, webinar/adapters/pg.go).*)
(* A host's operation reads that the caller is the host, then that the     *)
(* target takes part, then writes; a join token says whether its holder    *)
(* may publish and is not taken back.  The id of a webinar is told after   *)
(* its host was written down.  Questions are not part of the model.        *)
(***************************************************************************)
EXTENDS Integers, FiniteSets

CONSTANTS Users, Host, Handlers, MaxFaults

VARIABLES
    webinar,   \* webinars: "none", "live" or "ended"
    part,      \* webinar_participants: role, status and hand, or NoPart
    job,       \* what each running handler has read and does next
    token,     \* join tokens minted for each user: set of publish grants
    spoke,     \* history: users the host has made speakers
    let,       \* history: users the host has admitted
    faults

vars == <<webinar, part, job, token, spoke, let, faults>>

NoPart == [role |-> "none", status |-> "none", hand |-> FALSE]
Idle == [at |-> "idle"]

Init ==
    /\ webinar = "none"
    /\ part = [u \in Users |-> NoPart]
    /\ job = [h \in Handlers |-> Idle]
    /\ token = [u \in Users |-> {}]
    /\ spoke = {} /\ let = {}
    /\ faults = 0

Become(h, next) == job' = [job EXCEPT ![h] = next]

Decide(h, next) ==
    /\ job[h] = Idle
    /\ Become(h, next)
    /\ UNCHANGED <<webinar, part, token, spoke, let, faults>>

CanPublish(r) == r \in {"speaker", "host"}

Mint(u, publish) == token' = [token EXCEPT ![u] = @ \cup {publish}]

Create(h) ==
    /\ job[h] = Idle /\ webinar = "none"
    /\ webinar' = "live"
    /\ Become(h, [at |-> "host"])
    /\ UNCHANGED <<part, token, spoke, let, faults>>

(* The host takes part, and gets his token.                                *)
AddHost(h) ==
    /\ job[h].at = "host"
    /\ part' = [part EXCEPT ![Host] =
                  IF @ = NoPart THEN [role |-> "host", status |-> "admitted", hand |-> FALSE] ELSE @]
    /\ Mint(Host, TRUE)
    /\ Become(h, Idle)
    /\ UNCHANGED <<webinar, spoke, let, faults>>

(* Join: somebody new waits; whoever has a row keeps it, left or not.      *)
Join(h, u) ==
    /\ webinar = "live" /\ part[u] = NoPart /\ u # Host
    /\ Decide(h, [at |-> "wait", u |-> u])

Wait(h) ==
    LET u == job[h].u
    IN  /\ job[h].at = "wait"
        /\ part' = [part EXCEPT ![u] =
                      IF @ = NoPart THEN [role |-> "attendee", status |-> "waiting", hand |-> FALSE]
                      ELSE @]
        /\ Become(h, Idle)
        /\ UNCHANGED <<webinar, token, spoke, let, faults>>

(* load and participant: the webinar is there and the user has a row.      *)
TakesPart(u) == webinar # "none" /\ part[u] # NoPart

(* Mutant of MayJoin: whoever takes part gets a token.                     *)
MayJoinAny(u) == TakesPart(u)

MayJoin(u) == TakesPart(u) /\ part[u].status = "admitted"

(* Me: the row is read and the token minted from it; an ended webinar      *)
(* mints too.                                                              *)
Me(u) ==
    /\ MayJoin(u)
    /\ Mint(u, CanPublish(part[u].role))
    /\ UNCHANGED <<webinar, part, job, spoke, let, faults>>

(* requireHost: the host's row says so.                                    *)
IsHost == webinar # "none" /\ part[Host].role = "host"

(* Admit and Deny of one who takes part; Leave of oneself.                 *)
SetStatus(h, u, st) ==
    /\ IsHost /\ TakesPart(u)
    /\ Decide(h, [at |-> "status", u |-> u, st |-> st])

Leave(h, u) ==
    /\ TakesPart(u)
    /\ Decide(h, [at |-> "status", u |-> u, st |-> "left"])

WriteStatus(h) ==
    LET u == job[h].u
    IN  /\ job[h].at = "status"
        /\ part' = [part EXCEPT ![u].status = job[h].st]
        /\ let' = IF job[h].st = "admitted" THEN let \cup {u} ELSE let
        /\ Become(h, Idle)
        /\ UNCHANGED <<webinar, token, spoke, faults>>

(* SetRole: the host does not change his own.                              *)
SetRole(h, u, r) ==
    /\ IsHost /\ u # Host /\ TakesPart(u)
    /\ Decide(h, [at |-> "role", u |-> u, r |-> r])

WriteRole(h) ==
    LET u == job[h].u
    IN  /\ job[h].at = "role"
        /\ part' = [part EXCEPT ![u].role = job[h].r]
        /\ spoke' = IF job[h].r = "speaker" THEN spoke \cup {u} ELSE spoke
        /\ Become(h, IF job[h].r = "speaker" THEN [at |-> "hand", u |-> u, up |-> FALSE] ELSE Idle)
        /\ UNCHANGED <<webinar, token, let, faults>>

SetHand(h, u, up) ==
    /\ TakesPart(u)
    /\ Decide(h, [at |-> "hand", u |-> u, up |-> up])

WriteHand(h) ==
    /\ job[h].at = "hand"
    /\ part' = [part EXCEPT ![job[h].u].hand = job[h].up]
    /\ Become(h, Idle)
    /\ UNCHANGED <<webinar, token, spoke, let, faults>>

End ==
    /\ IsHost /\ webinar = "live"
    /\ webinar' = "ended"
    /\ UNCHANGED <<part, job, token, spoke, let, faults>>

Abandon(h) ==
    /\ job[h] # Idle /\ faults < MaxFaults
    /\ faults' = faults + 1
    /\ Become(h, Idle)
    /\ UNCHANGED <<webinar, part, token, spoke, let>>

Next ==
    \/ End
    \/ \E u \in Users : Me(u)
    \/ \E h \in Handlers, u \in Users :
        \/ Join(h, u) \/ Leave(h, u)
        \/ \E st \in {"admitted", "left"} : SetStatus(h, u, st)
        \/ \E r \in {"speaker", "attendee"} : SetRole(h, u, r)
        \/ \E up \in BOOLEAN : SetHand(h, u, up)
    \/ \E h \in Handlers :
        \/ Create(h) \/ AddHost(h) \/ Wait(h) \/ WriteStatus(h) \/ WriteRole(h)
        \/ WriteHand(h) \/ Abandon(h)

-----------------------------------------------------------------------------
TypeOK ==
    /\ webinar \in {"none", "live", "ended"}
    /\ part \in [Users -> [role : {"none", "attendee", "speaker", "host"},
                           status : {"none", "waiting", "admitted", "left"}, hand : BOOLEAN]]
    /\ token \in [Users -> SUBSET BOOLEAN]

(* The waiting room: a token is minted only for one the host has admitted, *)
(* and a token that publishes only for one he has made a speaker.          *)
TokensAreGranted ==
    \A u \in Users \ {Host} :
        /\ token[u] # {} => u \in let
        /\ TRUE \in token[u] => u \in spoke

(* Roles stay what they are for: one host, who is never demoted, and no    *)
(* speaker the host did not make, whatever order the writes came in.       *)
HostStays ==
    /\ \A u \in Users \ {Host} : part[u].role # "host" /\ (part[u].role = "speaker" => u \in spoke)
    /\ part[Host].role \in {"none", "host"}

WebinarSound == TypeOK /\ TokensAreGranted /\ HostStays

(* What a handler was let through to write.                                *)
JobFits(j) ==
    /\ j.at \in {"idle", "host", "wait", "status", "role", "hand"}
    /\ j.at \in {"wait", "status", "role", "hand"} => j.u \in Users
    /\ j.at = "wait" => j.u # Host
    /\ j.at = "status" => j.st \in {"admitted", "left"}
    /\ j.at = "role" => j.u # Host /\ j.r \in {"speaker", "attendee"}
    /\ j.at = "hand" => j.up \in BOOLEAN

(* The inductive invariant: the rows themselves are granted.               *)
WebinarInv ==
    /\ WebinarSound
    /\ job = [h \in Handlers |-> job[h]] /\ \A h \in Handlers : JobFits(job[h])
    /\ \A u \in Users \ {Host} : part[u].status = "admitted" => u \in let
=============================================================================
