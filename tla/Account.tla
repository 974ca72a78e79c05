------------------------------ MODULE Account ------------------------------
(***************************************************************************)
(* The devices of one user and their sessions: registration, refresh-token *)
(* rotation with reuse detection, logout, linking by QR code and           *)
(* revocation (auth/service.go Refresh, MintLinkedSession, Logout;         *)
(* auth/adapters/pg.go Sessions, Registrar; devices/service.go and         *)
(* devices/adapters/pg.go).                                                *)
(*                                                                         *)
(* A transaction is one step; reads and writes outside of one are steps of *)
(* their own.  Tokens are numbered in the order in which they are drawn.   *)
(***************************************************************************)
EXTENDS Integers, FiniteSets

CONSTANTS
    NDevices,           \* bound on the devices,
    NSessions,          \* the sessions
    NLinks,             \* and the links ever created
    Handlers,           \* handlers that may run at the same time
    MaxDevicesPerUser,
    MaxTokens           \* bound on the refresh tokens drawn

VARIABLES
    device,    \* devices: state and is_primary of each row
    session,   \* sessions: state, device, current and previous token
    link,      \* device_links: state, device, expiry
    token,     \* refresh tokens drawn so far
    job,       \* what each running handler has read and does next
    child      \* history: <<t, u>> when a rotation replaced t by u

vars == <<device, session, link, token, job, child>>

Devices == 1 .. NDevices
Sessions == 1 .. NSessions
Links == 1 .. NLinks
NoDevice == 0

Idle == [at |-> "idle"]

Init ==
    /\ device = [d \in Devices |-> [st |-> "none", primary |-> FALSE]]
    /\ session = [s \in Sessions |-> [st |-> "none", dev |-> NoDevice, cur |-> 0,
                                      prev |-> 0, late |-> FALSE]]
    /\ link = [l \in Links |-> [st |-> "none", dev |-> NoDevice, expired |-> FALSE]]
    /\ token = 0
    /\ job = [h \in Handlers |-> Idle]
    /\ child = {}

Active == {d \in Devices : device[d].st = "active"}

Become(h, next) == job' = [job EXCEPT ![h] = next]

Done(h) == Become(h, Idle)

(* The identity of a request is its access token alone (auth.              *)
(* BearerIdentity): a device that was given one is heard until it expires, *)
(* whatever has become of its row.                                         *)
Heard(d) == \E s \in Sessions : session[s].dev = d

(* Ids are drawn at random; here the rows of a table are used in order.    *)
Fresh(table, x) == table[x].st = "none" /\ \A y \in 1 .. x - 1 : table[y].st # "none"

(* A new session with a new token.                                         *)
NewSession(s, d) ==
    /\ Fresh(session, s) /\ token < MaxTokens
    /\ token' = token + 1
    /\ session' = [session EXCEPT ![s] =
                     [st |-> "live", dev |-> d, cur |-> token + 1, prev |-> 0,
                      late |-> device[d].st = "revoked"]]

(* Registrar.try under the lock of the user row: the first device of a     *)
(* user who has none is the primary one.                                   *)
RegisterDevice(d, s) ==
    /\ Fresh(device, d)
    /\ Cardinality(Active) < MaxDevicesPerUser
    /\ device' = [device EXCEPT ![d] = [st |-> "active", primary |-> Active = {}]]
    /\ NewSession(s, d)
    /\ UNCHANGED <<link, job, child>>

(* Refresh looks the token up: by its hash, and if that fails by the hash  *)
(* a rotation replaced (ByRefreshHash, EvaluateSession).                   *)
Refresh(h, t) ==
    LET found == {s \in Sessions : session[s].cur = t}
    IN  /\ job[h] = Idle
        /\ \/ /\ found = {}
              /\ Become(h, [at |-> "reuse", tok |-> t])
           \/ \E s \in found : /\ session[s].st = "live"
                               /\ Become(h, [at |-> "rotate", tok |-> t, ses |-> s])
        /\ UNCHANGED <<device, session, link, token, child>>

(* ByRotatedFrom: only the last token replaced is remembered, and only     *)
(* sessions that are not revoked are searched.                             *)
ByRotatedFrom(h) ==
    LET found == {s \in Sessions : session[s].prev = job[h].tok /\ session[s].st # "revoked"}
    IN  /\ job[h].at = "reuse"
        /\ \/ found = {} /\ Done(h)
           \/ \E s \in found : Become(h, [at |-> "revoke", ses |-> s])
        /\ UNCHANGED <<device, session, link, token, child>>

Revoked(s) == [session EXCEPT ![s].st = "revoked"]

RevokeReused(h) ==
    /\ job[h].at = "revoke"
    /\ session' = Revoked(job[h].ses)
    /\ Done(h)
    /\ UNCHANGED <<device, link, token, child>>

(* Mutant of Rotates: the UPDATE names the session only.                   *)
RotatesAlways(s, t) == session[s].st # "revoked"

(* Sessions.Rotate: the UPDATE names the old hash and a live session.      *)
Rotates(s, t) == session[s].cur = t /\ session[s].st # "revoked"

Rotate(h) ==
    LET s == job[h].ses
        t == job[h].tok
    IN  /\ job[h].at = "rotate"
        /\ \/ /\ Rotates(s, t) /\ token < MaxTokens
              /\ token' = token + 1
              /\ session' = [session EXCEPT ![s].cur = token + 1, ![s].prev = t]
              /\ child' = child \cup {<<t, token + 1>>}
           \/ /\ ~Rotates(s, t)
              /\ UNCHANGED <<token, session, child>>
        /\ Done(h)
        /\ UNCHANGED <<device, link>>

Logout(s) ==
    /\ session[s].st \in {"live", "expired"} /\ Heard(session[s].dev)
    /\ session' = Revoked(s)
    /\ UNCHANGED <<device, link, token, job, child>>

SessionExpires(s) ==
    /\ session[s].st = "live"
    /\ session' = [session EXCEPT ![s].st = "expired"]
    /\ UNCHANGED <<device, link, token, job, child>>

(* Mutant of RevokeDevice: sessions are left to expire.                    *)
RevokeRowOnly(d) ==
    /\ device[d].st = "active"
    /\ device' = [device EXCEPT ![d].st = "revoked"]
    /\ UNCHANGED <<session, link, token, job, child>>

(* Store.RevokeDevice: one transaction ends the device and all its         *)
(* sessions (prekeys and push tokens are in Prekeys and Push).             *)
RevokeDevice(d) ==
    /\ device[d].st = "active"
    /\ device' = [device EXCEPT ![d].st = "revoked"]
    /\ session' = [s \in Sessions |-> IF session[s].dev = d THEN Revoked(s)[s] ELSE session[s]]
    /\ UNCHANGED <<link, token, job, child>>

(* Service.Revoke, for any device of the same user.                        *)
Revoke(by, d) == Heard(by) /\ RevokeDevice(d)

CreateLink(l) == link' = [link EXCEPT ![l].st = "pending"]

LinkInit(l) ==
    /\ Fresh(link, l)
    /\ CreateLink(l)
    /\ UNCHANGED <<device, session, token, job, child>>

LinkExpires(l) ==
    /\ link[l].st # "none" /\ ~link[l].expired
    /\ link' = [link EXCEPT ![l].expired = TRUE]
    /\ UNCHANGED <<device, session, token, job, child>>

(* GetLink finds the row, whose expiry its caller judges.                  *)
GetLink(l, st) == link[l].st = st /\ ~link[l].expired

(* Store.Get: the row of a device, a revoked one too.                      *)
Get(d) == device[d]

(* LinkApprove checks link, approver and device count outside of the       *)
(* transaction; the row of the approver may be a revoked one.              *)
LinkApprove(h, by, l) ==
    /\ job[h] = Idle /\ Heard(by)
    /\ GetLink(l, "pending")
    /\ Get(by).primary
    /\ Cardinality(Active) < MaxDevicesPerUser
    /\ Become(h, [at |-> "approve", lnk |-> l])
    /\ UNCHANGED <<device, session, link, token, child>>

(* Store.ApproveLink: only a pending link is approved.                     *)
ApproveLink(h, d) ==
    LET l == job[h].lnk
    IN  /\ job[h].at = "approve"
        /\ \/ /\ link[l].st = "pending" /\ Fresh(device, d)
              /\ link' = [link EXCEPT ![l].st = "approved", ![l].dev = d]
              /\ device' = [device EXCEPT ![d].st = "active"]
           \/ link[l].st # "pending" /\ UNCHANGED <<link, device>>
        /\ Done(h)
        /\ UNCHANGED <<session, token, child>>

LinkComplete(h, l) ==
    /\ job[h] = Idle
    /\ GetLink(l, "approved")
    /\ Become(h, [at |-> "mint", lnk |-> l])
    /\ UNCHANGED <<device, session, link, token, child>>

MintLinkedSession(h, s) ==
    /\ job[h].at = "mint"
    /\ NewSession(s, link[job[h].lnk].dev)
    /\ Become(h, [job[h] EXCEPT !.at = "consume"])
    /\ UNCHANGED <<device, link, child>>

ConsumeLink(h) ==
    /\ job[h].at = "consume"
    /\ link' = [link EXCEPT ![job[h].lnk].st = "consumed"]
    /\ Done(h)
    /\ UNCHANGED <<device, session, token, child>>

(* A handler is cut off: a deadline, a failed call or a crash.             *)
Abandon(h) ==
    /\ job[h] # Idle
    /\ Done(h)
    /\ UNCHANGED <<device, session, link, token, child>>

Next ==
    \/ \E d \in Devices, s \in Sessions : RegisterDevice(d, s)
    \/ \E h \in Handlers, t \in 1 .. token : Refresh(h, t)
    \/ \E h \in Handlers, l \in Links :
          LinkComplete(h, l) \/ \E d \in Devices : LinkApprove(h, d, l)
    \/ \E h \in Handlers :
          \/ ByRotatedFrom(h) \/ RevokeReused(h) \/ Rotate(h)
          \/ \E d \in Devices : ApproveLink(h, d)
          \/ \E s \in Sessions : MintLinkedSession(h, s)
          \/ ConsumeLink(h) \/ Abandon(h)
    \/ \E s \in Sessions : Logout(s) \/ SessionExpires(s)
    \/ \E d, e \in Devices : Revoke(d, e)
    \/ \E l \in Links : LinkInit(l) \/ LinkExpires(l)

-----------------------------------------------------------------------------
DeviceRows == [st : {"none", "active", "revoked"}, primary : BOOLEAN]

SessionRows == [st : {"none", "live", "expired", "revoked"}, dev : Devices \cup {NoDevice},
                cur : 0 .. MaxTokens, prev : 0 .. MaxTokens, late : BOOLEAN]

LinkRows == [st : {"none", "pending", "approved", "consumed"}, dev : Devices \cup {NoDevice},
             expired : BOOLEAN]

TypeOK ==
    /\ device \in [Devices -> DeviceRows]
    /\ session \in [Sessions -> SessionRows]
    /\ link \in [Links -> LinkRows]
    /\ token \in 0 .. MaxTokens

(* "A concurrent rotation won the race; this presentation is stale": of    *)
(* two requests with one refresh token at most one gets a successor.       *)
NoFork == \A p, q \in child : p[1] = q[1] => p = q

(* "1 primary + 4 linked": never two primary devices, whatever overlaps.   *)
OnePrimary == \A d, e \in Active : device[d].primary /\ device[e].primary => d = e

(* The limit is exceeded at most by approvals that had counted before the  *)
(* others were committed.                                                  *)
DeviceCap == Cardinality(Active) <= MaxDevicesPerUser + Cardinality(Handlers)

(* pg.go "Sessions (auth) ... all die with the device": a revoked device   *)
(* has a session that can be refreshed only if the session was created     *)
(* for it after the revocation, by completing a link.                      *)
DeadDevices ==
    \A s \in Sessions :
        session[s].st = "live" /\ device[session[s].dev].st = "revoked" => session[s].late

AccountSound == TypeOK /\ OnePrimary /\ DeviceCap /\ DeadDevices

(* What a handler has read decides what it may still write.                *)
Jobs ==
    [at : {"reuse"}, tok : 1 .. MaxTokens]
        \cup [at : {"rotate"}, tok : 1 .. MaxTokens, ses : Sessions]
        \cup [at : {"revoke"}, ses : Sessions]
        \cup [at : {"approve", "mint", "consume"}, lnk : Links]

(* A link that was approved, or is being completed, names its device.      *)
LinksNamed ==
    /\ \A l \in Links : link[l].st \in {"approved", "consumed"} => link[l].dev # NoDevice
    /\ \A h \in Handlers : job[h].at \in {"mint", "consume"} => link[job[h].lnk].dev # NoDevice

(* A session that exists names its device, one that does not has no token. *)
SessionsNamed ==
    /\ \A s \in Sessions : session[s].st = "none" <=> session[s].dev = NoDevice
    /\ \A s \in Sessions : session[s].st = "none" => session[s].cur = 0 /\ session[s].prev = 0
    /\ \A h \in Handlers : job[h].at = "revoke" => session[job[h].ses].st # "none"

(* No two sessions share a token, and a token that was replaced is the     *)
(* current one of no session.                                              *)
TokensUnique ==
    /\ \A s \in Sessions : session[s].cur <= token
    /\ \A s, r \in Sessions : session[s].cur = session[r].cur /\ session[s].cur # 0 => s = r
    /\ \A p \in child : p[1] \in 1 .. token /\ \A s \in Sessions : session[s].cur # p[1]

(* The approvals that have counted the devices and not yet added theirs.   *)
Approving == {h \in Handlers : job[h].at = "approve"}

ApprovalsCounted ==
    Cardinality(Active) + Cardinality(Approving) <= MaxDevicesPerUser + Cardinality(Handlers)

(* The inductive invariant.                                                *)
AccountInv ==
    /\ AccountSound /\ NoFork
    /\ job \in [Handlers -> {Idle} \cup Jobs]
    /\ \A d \in Devices : device[d].st = "none" => ~device[d].primary
    /\ SessionsNamed /\ LinksNamed /\ TokensUnique /\ ApprovalsCounted
=============================================================================
