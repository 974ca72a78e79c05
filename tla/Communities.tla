----------------------------- MODULE Communities -----------------------------
(***************************************************************************)
(* One public community: its announcement group, members, linked groups    *)
(* and events (communities/service.go, communities/domain/community.go,    *)
(* communities/adapters/pg.go).  Creation is three calls, the first one to *)
(* the groups service; every other operation reads the caller's role and   *)
(* writes afterwards.  Rows of a deleted community go with it (cascade),   *)
(* and a row for it can no longer be inserted (foreign key).               *)
(***************************************************************************)
EXTENDS Integers, FiniteSets

CONSTANTS Users, Groups, Events, Handlers, MaxFaults

VARIABLES
    community,   \* communities: "none", "live" or "deleted"
    announce,    \* the announcement group exists
    role,        \* community_members
    linked,      \* community_groups
    events,      \* community_events
    job,         \* what each running handler has read and does next
    overtaken,   \* history: the creator joined before he was made owner
    faults

vars == <<community, announce, role, linked, events, job, overtaken, faults>>

None == -1
RoleMember == 0
RoleAdmin == 1
RoleOwner == 2

Idle == [at |-> "idle"]

Init ==
    /\ community = "none"
    /\ announce = FALSE
    /\ role = [u \in Users |-> None]
    /\ linked = {} /\ events = {}
    /\ job = [h \in Handlers |-> Idle]
    /\ overtaken = FALSE
    /\ faults = 0

Become(h, next) == job' = [job EXCEPT ![h] = next]

(* CreateAnnouncementGroup, the community, the owner: three calls.         *)
Create(h, u) ==
    /\ job[h] = Idle /\ ~announce
    /\ announce' = TRUE
    /\ Become(h, [at |-> "create", u |-> u])
    /\ UNCHANGED <<community, role, linked, events, overtaken, faults>>

InsertCommunity(h) ==
    /\ job[h].at = "create"
    /\ community' = "live"
    /\ Become(h, [at |-> "member", u |-> job[h].u, r |-> RoleOwner])
    /\ UNCHANGED <<announce, role, linked, events, overtaken, faults>>

Abandon(h) ==
    /\ job[h] # Idle /\ faults < MaxFaults
    /\ faults' = faults + 1
    /\ Become(h, Idle)
    /\ UNCHANGED <<community, announce, role, linked, events, overtaken>>

(* requireRole or roleOf, then a write.                                    *)
Decide(h, next) ==
    /\ job[h] = Idle /\ community = "live"
    /\ Become(h, next)
    /\ UNCHANGED <<community, announce, role, linked, events, overtaken, faults>>

Join(h, u) == Decide(h, [at |-> "member", u |-> u, r |-> RoleMember])

(* Mutant of AddMember: the insert does not ask for the community.         *)
AddMemberLoose(h) ==
    /\ job[h].at = "member"
    /\ role' = [role EXCEPT ![job[h].u] = IF @ = None THEN job[h].r ELSE @]
    /\ Become(h, Idle)
    /\ UNCHANGED <<community, announce, linked, events, overtaken, faults>>

(* The handler h is creating the community, u is to be its owner.          *)
Crowns(h, u) ==
    /\ job[h].at = "create" \/ (job[h].at = "member" /\ job[h].r = RoleOwner)
    /\ job[h].u = u

AddMember(h) ==
    LET u == job[h].u
    IN  /\ job[h].at = "member"
        /\ role' = [role EXCEPT ![u] = IF @ = None /\ community = "live" THEN job[h].r ELSE @]
        /\ overtaken' = (overtaken \/ \E k \in Handlers \ {h} : Crowns(k, u))
        /\ Become(h, Idle)
        /\ UNCHANGED <<community, announce, linked, events, faults>>

Leave(h, u) ==
    /\ role[u] \in {RoleMember, RoleAdmin}
    /\ Decide(h, [at |-> "role", u |-> u, r |-> None])

SetRole(h, u, t, r) ==
    /\ role[u] = RoleOwner /\ t # u /\ role[t] # None
    /\ Decide(h, [at |-> "role", u |-> t, r |-> r])

(* Admins remove each other too; the two roles are read one after the      *)
(* other and nothing that changes them can make the target the owner.      *)
RemoveMember(h, u, t) ==
    /\ role[u] >= RoleAdmin /\ t # u /\ role[t] \in {RoleMember, RoleAdmin}
    /\ Decide(h, [at |-> "role", u |-> t, r |-> None])

WriteRole(h) ==
    /\ job[h].at = "role"
    /\ role' = [role EXCEPT ![job[h].u] = IF @ = None THEN @ ELSE job[h].r]
    /\ Become(h, Idle)
    /\ UNCHANGED <<community, announce, linked, events, overtaken, faults>>

(* AddGroup, RemoveGroup, CreateEvent, DeleteEvent: admins.                *)
Edit(h, u, gs, es) ==
    /\ role[u] >= RoleAdmin
    /\ Decide(h, [at |-> "edit", gs |-> gs, es |-> es])

Toggle(s, xs) == (s \ xs) \cup (xs \ s)

WriteEdit(h) ==
    /\ job[h].at = "edit"
    /\ IF community = "live"
       THEN linked' = Toggle(linked, job[h].gs) /\ events' = Toggle(events, job[h].es)
       ELSE UNCHANGED <<linked, events>>
    /\ Become(h, Idle)
    /\ UNCHANGED <<community, announce, role, overtaken, faults>>

Delete(h, u) ==
    /\ role[u] = RoleOwner
    /\ Decide(h, [at |-> "drop"])

(* The announcement group stays.                                           *)
DropCommunity(h) ==
    /\ job[h].at = "drop"
    /\ community' = "deleted"
    /\ role' = [u \in Users |-> None]
    /\ linked' = {} /\ events' = {}
    /\ Become(h, Idle)
    /\ UNCHANGED <<announce, overtaken, faults>>

Next ==
    \/ \E h \in Handlers, u \in Users :
        \/ Create(h, u) \/ Join(h, u) \/ Leave(h, u) \/ Delete(h, u)
        \/ \E t \in Users :
            RemoveMember(h, u, t) \/ \E r \in {RoleMember, RoleAdmin} : SetRole(h, u, t, r)
        \/ \E g \in Groups : Edit(h, u, {g}, {})
        \/ \E e \in Events : Edit(h, u, {}, {e})
    \/ \E h \in Handlers :
        \/ InsertCommunity(h) \/ AddMember(h) \/ WriteRole(h) \/ WriteEdit(h)
        \/ DropCommunity(h) \/ Abandon(h)

-----------------------------------------------------------------------------
TypeOK ==
    /\ community \in {"none", "live", "deleted"}
    /\ announce \in BOOLEAN
    /\ role \in [Users -> None .. RoleOwner]
    /\ linked \subseteq Groups /\ events \subseteq Events

(* A live community has one owner who cannot be removed or demoted, unless *)
(* creation was cut short or the creator joined before it was over.        *)
OneOwner ==
    LET n == Cardinality({u \in Users : role[u] = RoleOwner})
    IN  /\ n <= 1
        /\ community = "live" /\ n = 0 =>
               overtaken \/ faults > 0 \/ \E h \in Handlers : job[h].at = "member"

(* Nothing is left of a deleted community, late writers included, and none *)
(* exists without its announcement group.                                  *)
NothingLeft ==
    /\ community # "live" => (\A u \in Users : role[u] = None) /\ linked = {} /\ events = {}
    /\ community # "none" => announce

CommunitiesSound == TypeOK /\ OneOwner /\ NothingLeft

Jobs ==
    [at : {"create"}, u : Users]
        \cup [at : {"member"}, u : Users, r : {RoleMember, RoleOwner}]
        \cup [at : {"role"}, u : Users, r : {None, RoleMember, RoleAdmin}]
        \cup [at : {"edit"}, gs : SUBSET Groups, es : SUBSET Events]
        \cup [at : {"drop"}]

(* One handler creates the community, before anybody owns it.              *)
OneCreation ==
    /\ \A h, k \in Handlers, u, v \in Users : Crowns(h, u) /\ Crowns(k, v) => h = k
    /\ \A h \in Handlers : /\ job[h].at = "create" => community = "none"
                           /\ job[h].at \notin {"idle", "create"} => community # "none"
    /\ \A h \in Handlers, u \in Users :
           Crowns(h, u) => announce /\ \A v \in Users : role[v] # RoleOwner

(* Unless the creator joined early, no handler holds a change of the role  *)
(* of the owner, or of the one who is to be.                               *)
OwnerSafe ==
    ~overtaken => /\ \A h \in Handlers, u \in Users : Crowns(h, u) => role[u] = None
                  /\ \A h \in Handlers : job[h].at = "role" =>
                        /\ role[job[h].u] # RoleOwner
                        /\ \A k \in Handlers : ~Crowns(k, job[h].u)

(* A live community has its owner, or is about to.                         *)
Owned ==
    /\ \A u, v \in Users : role[u] = RoleOwner /\ role[v] = RoleOwner => u = v
    /\ community = "live" =>
           \/ overtaken \/ faults > 0
           \/ \E u \in Users : role[u] = RoleOwner \/ \E h \in Handlers : Crowns(h, u)

(* The inductive invariant.                                                *)
CommunitiesInv ==
    /\ CommunitiesSound
    /\ job \in [Handlers -> {Idle} \cup Jobs] /\ faults \in Nat /\ overtaken \in BOOLEAN
    /\ OneCreation /\ OwnerSafe /\ Owned
=============================================================================
