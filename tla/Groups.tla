------------------------------- MODULE Groups -------------------------------
(***************************************************************************)
(* One group, its members, roles and an invite link (groups/service.go,    *)
(* groups/domain/roles.go, groups/adapters/pg.go).  Every operation first  *)
(* reads the role of its caller and then writes in a transaction that does *)
(* not read it again.  Members are mirrored into conversation_members,     *)
(* which is what the chat pipeline delivers to.                            *)
(***************************************************************************)
EXTENDS Integers, FiniteSets

CONSTANTS
    Users,
    Handlers,
    MaxMembers,
    MaxUses        \* max_uses of the invite

VARIABLES
    group,     \* groups: "none", "live" or "deleted"
    role,      \* group_members: role of each user, or None
    mirror,    \* conversation_members of the group's conversation
    invite,    \* invite_links: state and uses
    job,       \* what each running handler has read and does next
    crowded,   \* history: an addition had counted before another one committed
    ranked,    \* history: no removal so far went against the ranks read
    policy,    \* settings.who_can_edit_info: "all" or "admins"
    edited     \* history: no edit so far went against the role and policy read

infoVars == <<policy, edited>>

vars == <<group, role, mirror, invite, job, crowded, ranked, infoVars>>

None == -1
RoleMember == 0
RoleAdmin == 1
RoleOwner == 2

Idle == [at |-> "idle"]

Members == {u \in Users : role[u] # None}

Init ==
    /\ group = "none"
    /\ role = [u \in Users |-> None]
    /\ mirror = {}
    /\ invite = [st |-> "none", uses |-> 0]
    /\ job = [h \in Handlers |-> Idle]
    /\ crowded = FALSE
    /\ ranked = TRUE
    /\ policy = "all" /\ edited = TRUE

Become(h, next) == job' = [job EXCEPT ![h] = next]

CanManageMembers(r) == r >= RoleAdmin
CanChangeRoles(r) == r = RoleOwner

(* Mutant of CanRemove: rank alone decides, an owner outranks an owner.    *)
CanRemoveByRank(actor, target) == actor >= RoleAdmin

(* Admins remove members, the owner removes admins, nobody the owner.      *)
CanRemove(actor, target) ==
    /\ target # RoleOwner
    /\ IF target = RoleAdmin THEN actor = RoleOwner ELSE actor >= RoleAdmin

GetGroup == group = "live"

GetMember(u) == group = "live" /\ role[u] # None

(* service.caller: the role of the requesting user, a member.              *)
Caller(h, u) == job[h] = Idle /\ GetMember(u)

(* Mutant of MirrorMembers: nothing reaches the conversation.              *)
MirrorNobody(us) == mirror' = mirror

(* mirrorMembers, in the transaction of its caller.                        *)
MirrorMembers(us) == mirror' = mirror \cup us

(* Store.CreateGroup: the group, its members, its conversation.            *)
CreateGroup(u, others) ==
    /\ group' = "live"
    /\ role' = [x \in Users |-> IF x = u THEN RoleOwner
                                ELSE IF x \in others THEN RoleMember ELSE None]
    /\ MirrorMembers({u} \cup others)

Create(u, others) ==
    /\ group = "none" /\ u \notin others
    /\ 1 + Cardinality(others) <= MaxMembers
    /\ CreateGroup(u, others)
    /\ UNCHANGED <<invite, job, crowded, ranked, infoVars>>

CanEditSettings(r) == r >= RoleAdmin

SetSettings(h, u, pol) ==
    /\ Caller(h, u) /\ CanEditSettings(role[u])
    /\ Become(h, [at |-> "settings", pol |-> pol])
    /\ UNCHANGED <<group, role, mirror, invite, crowded, ranked, infoVars>>

UpdateSettings(h) ==
    /\ job[h].at = "settings"
    /\ policy' = IF group = "live" THEN job[h].pol ELSE policy
    /\ Become(h, Idle)
    /\ UNCHANGED <<group, role, mirror, invite, crowded, ranked, edited>>

(* Mutant of CanEditInfo: the setting is not consulted.                    *)
CanEditInfoAlways(r, pol) == TRUE

CanEditInfo(r, pol) == pol = "all" \/ r >= RoleAdmin

(* UpdateInfo reads the role, then the settings, then writes.              *)
EditInfo(h, u) ==
    /\ Caller(h, u)
    /\ Become(h, [at |-> "info", r |-> role[u], u |-> u])
    /\ UNCHANGED <<group, role, mirror, invite, crowded, ranked, infoVars>>

CheckInfo(h) ==
    /\ job[h].at = "info"
    /\ IF GetGroup /\ CanEditInfo(job[h].r, policy)
       THEN Become(h, [at |-> "edit", r |-> job[h].r, u |-> job[h].u, pol |-> policy])
       ELSE Become(h, Idle)
    /\ UNCHANGED <<group, role, mirror, invite, crowded, ranked, infoVars>>

(* Store.UpdateInfo: the row is written whatever became of the editor.     *)
UpdateInfo(h) ==
    LET j == job[h]
    IN  /\ j.at = "edit"
        /\ edited' = (edited /\ (group # "live" \/ policy = "all" \/ role[j.u] >= RoleAdmin
                                  \/ j.pol # policy \/ j.r # role[j.u]))
        /\ Become(h, Idle)
        /\ UNCHANGED <<group, role, mirror, invite, crowded, ranked, policy>>

AddMembers(h, u, us) ==
    /\ Caller(h, u) /\ CanManageMembers(role[u])
    /\ Become(h, [at |-> "count", us |-> us])
    /\ UNCHANGED <<group, role, mirror, invite, crowded, ranked, infoVars>>

CountMembers(h) ==
    LET n == Cardinality(Members)
    IN  /\ job[h].at = "count"
        /\ IF n + Cardinality(job[h].us) > MaxMembers THEN Become(h, Idle)
           ELSE Become(h, [at |-> "insert", us |-> job[h].us, n |-> n])
        /\ UNCHANGED <<group, role, mirror, invite, crowded, ranked, infoVars>>

(* INSERT ... ON CONFLICT DO NOTHING and the mirror, in one transaction: a *)
(* user who is a member keeps the role there is.                           *)
Insert(us, n) ==
    /\ role' = [x \in Users |-> IF x \in us /\ role[x] = None THEN RoleMember ELSE role[x]]
    /\ MirrorMembers(us \ Members)
    /\ crowded' = (crowded \/ Cardinality(Members) # n)

InsertMembers(h) ==
    /\ job[h].at = "insert"
    /\ IF group = "live" THEN Insert(job[h].us, job[h].n)
       ELSE UNCHANGED <<role, mirror, crowded>>
    /\ Become(h, Idle)
    /\ UNCHANGED <<group, invite, ranked, infoVars>>

RemoveMember(h, u, t) ==
    /\ Caller(h, u) /\ CanManageMembers(role[u])
    /\ Become(h, [at |-> "target", by |-> role[u], t |-> t])
    /\ UNCHANGED <<group, role, mirror, invite, crowded, ranked, infoVars>>

CheckTarget(h) ==
    LET t == job[h].t
    IN  /\ job[h].at = "target"
        /\ IF role[t] # None /\ CanRemove(job[h].by, role[t])
           THEN Become(h, [at |-> "delete", by |-> job[h].by, t |-> t, read |-> role[t]])
           ELSE Become(h, Idle)
        /\ UNCHANGED <<group, role, mirror, invite, crowded, ranked, infoVars>>

Leave(h, u) ==
    /\ Caller(h, u) /\ role[u] # RoleOwner
    /\ Become(h, [at |-> "delete", by |-> RoleOwner, t |-> u, read |-> role[u]])
    /\ UNCHANGED <<group, role, mirror, invite, crowded, ranked, infoVars>>

(* Mutant of DeleteMember: the mirrored row is forgotten.                  *)
DeleteMemberOnly(h) ==
    LET t == job[h].t
    IN  /\ job[h].at = "delete"
        /\ role' = [role EXCEPT ![t] = None]
        /\ Become(h, Idle)
        /\ UNCHANGED <<group, mirror, invite, crowded, ranked, infoVars>>

(* Store.RemoveMember: both rows go, whatever the role is by now.          *)
DeleteMember(h) ==
    LET t == job[h].t
    IN  /\ job[h].at = "delete"
        /\ role' = [role EXCEPT ![t] = None]
        /\ mirror' = mirror \ {t}
        /\ ranked' = (ranked /\ role[t] # RoleOwner
                     /\ (role[t] = RoleAdmin /\ job[h].by # RoleOwner => job[h].read = RoleMember))
        /\ Become(h, Idle)
        /\ UNCHANGED <<group, invite, crowded, infoVars>>

(* SetRole reads that the target is a member; the UPDATE finds the same    *)
(* out again, so the read is not a step of its own.                        *)
SetRole(h, u, t, r) ==
    /\ Caller(h, u) /\ CanChangeRoles(role[u]) /\ t # u
    /\ r \in {RoleMember, RoleAdmin}
    /\ Become(h, [at |-> "role", t |-> t, r |-> r])
    /\ UNCHANGED <<group, role, mirror, invite, crowded, ranked, infoVars>>

UpdateRole(h) ==
    /\ job[h].at = "role"
    /\ role' = IF role[job[h].t] = None THEN role ELSE [role EXCEPT ![job[h].t] = job[h].r]
    /\ Become(h, Idle)
    /\ UNCHANGED <<group, mirror, invite, crowded, ranked, infoVars>>

(* JoinViaInvite holds the row of the invite until it commits.             *)
Locked == \E h \in Handlers : job[h].at = "join"

Delete(h, u) ==
    /\ Caller(h, u) /\ role[u] = RoleOwner
    /\ Become(h, [at |-> "drop"])
    /\ UNCHANGED <<group, role, mirror, invite, crowded, ranked, infoVars>>

(* The cascade takes members, conversation and invites.                    *)
DeleteGroup(h) ==
    /\ job[h].at = "drop" /\ ~Locked
    /\ group' = "deleted"
    /\ role' = [u \in Users |-> None]
    /\ mirror' = {}
    /\ invite' = [invite EXCEPT !.st = "none"]
    /\ Become(h, Idle)
    /\ UNCHANGED <<crowded, ranked, infoVars>>

CreateInviteLink(h, u) ==
    /\ Caller(h, u) /\ CanManageMembers(role[u]) /\ invite.st = "none"
    /\ Become(h, [at |-> "mint"])
    /\ UNCHANGED <<group, role, mirror, invite, crowded, ranked, infoVars>>

CreateInvite(h) ==
    /\ job[h].at = "mint"
    /\ invite' = IF group = "live" /\ invite.st = "none" THEN [st |-> "live", uses |-> 0]
                 ELSE invite
    /\ Become(h, Idle)
    /\ UNCHANGED <<group, role, mirror, crowded, ranked, infoVars>>

GetInvite == invite.st # "none"

RevokeInviteLink(h, u) ==
    /\ GetInvite /\ Caller(h, u) /\ CanManageMembers(role[u])
    /\ Become(h, [at |-> "revoke"])
    /\ UNCHANGED <<group, role, mirror, invite, crowded, ranked, infoVars>>

RevokeInvite(h) ==
    /\ job[h].at = "revoke" /\ ~Locked
    /\ invite' = [invite EXCEPT !.st = IF @ = "none" THEN @ ELSE "over"]
    /\ Become(h, Idle)
    /\ UNCHANGED <<group, role, mirror, crowded, ranked, infoVars>>

InviteExpires ==
    /\ invite.st = "live"
    /\ invite' = [invite EXCEPT !.st = "over"]
    /\ UNCHANGED <<group, role, mirror, job, crowded, ranked, infoVars>>

(* Mutant of Usable: the row is read without FOR UPDATE.                   *)
UsableUnlocked == invite.st = "live" /\ invite.uses < MaxUses

(* The invite is locked, then checked.                                     *)
Usable == ~Locked /\ invite.st = "live" /\ invite.uses < MaxUses

(* One who is a member already uses nothing up.                            *)
Admits(u) == role[u] = None /\ Cardinality(Members) < MaxMembers

(* JoinViaInvite up to the count of members.                               *)
Join(h, u) ==
    /\ job[h] = Idle /\ Usable /\ Admits(u)
    /\ Become(h, [at |-> "join", u |-> u, n |-> Cardinality(Members)])
    /\ UNCHANGED <<group, role, mirror, invite, crowded, ranked, infoVars>>

(* The plain INSERT fails, and with it the transaction, when the user was  *)
(* added in the meantime.                                                  *)
CommitJoin(h) ==
    /\ job[h].at = "join"
    /\ IF role[job[h].u] = None
       THEN /\ Insert({job[h].u}, job[h].n)
            /\ invite' = [invite EXCEPT !.uses = @ + 1]
       ELSE UNCHANGED <<role, mirror, crowded, invite>>
    /\ Become(h, Idle)
    /\ UNCHANGED <<group, ranked, infoVars>>

Next ==
    \/ InviteExpires
    \/ \E u \in Users, us \in SUBSET Users : Create(u, us)
    \/ \E h \in Handlers, u \in Users :
        \/ \E us \in SUBSET Users : us # {} /\ AddMembers(h, u, us)
        \/ \E t \in Users : RemoveMember(h, u, t) \/ \E r \in {0, 1} : SetRole(h, u, t, r)
        \/ Leave(h, u) \/ Delete(h, u)
        \/ CreateInviteLink(h, u) \/ RevokeInviteLink(h, u) \/ Join(h, u)
        \/ EditInfo(h, u) \/ \E pol \in {"all", "admins"} : SetSettings(h, u, pol)
    \/ \E h \in Handlers :
        \/ CountMembers(h) \/ InsertMembers(h) \/ CheckTarget(h) \/ DeleteMember(h)
        \/ UpdateRole(h) \/ DeleteGroup(h) \/ CreateInvite(h)
        \/ RevokeInvite(h) \/ CommitJoin(h)
        \/ UpdateSettings(h) \/ CheckInfo(h) \/ UpdateInfo(h)

-----------------------------------------------------------------------------
TypeOK ==
    /\ group \in {"none", "live", "deleted"}
    /\ role \in [Users -> None .. RoleOwner]
    /\ invite \in [st : {"none", "live", "over"}, uses : 0 .. MaxUses + 1]

(* Messages go to exactly the members: the mirror never differs from the   *)
(* member table, through additions, joins, removals and deletion.          *)
MirrorExact == mirror = Members

(* A live group has one owner, whatever roles were written after a stale   *)
(* read: the owner neither leaves nor falls.                               *)
OneOwner ==
    Cardinality({u \in Users : role[u] = RoleOwner}) = IF group = "live" THEN 1 ELSE 0

(* An admin is removed by somebody who is not the owner only if he was     *)
(* promoted while the removal was under way.                               *)
AdminsFallToOwner == ranked

(* The cap is exceeded only by additions that counted side by side.        *)
CapNeedsOverlap == Cardinality(Members) > MaxMembers => crowded

(* Where only admins may edit, a plain member's edit lands only if his     *)
(* role or the setting changed while the request was under way.            *)
EditsAllowed == edited

(* The lock on the invite: no more members join by it than it allows.      *)
InviteBound == invite.uses <= MaxUses

GroupsSound ==
    /\ TypeOK /\ MirrorExact /\ OneOwner /\ AdminsFallToOwner /\ CapNeedsOverlap
    /\ InviteBound /\ EditsAllowed

(* Nobody is left of a group that is not live, and nobody works on one     *)
(* that was never created.                                                 *)
OnlyWhileLive ==
    /\ group # "live" => invite.st = "none" /\ \A u \in Users : role[u] = None
    /\ group = "none" => \A h \in Handlers : job[h] = Idle

(* What a handler has read bounds what it writes: the target of a pending  *)
(* removal or change of role is not the owner, whatever has happened       *)
(* since.                                                                  *)
JobFits(j) ==
    /\ j.at \in {"info", "edit"} => j.u \in Users /\ j.r \in None .. RoleOwner
    /\ j.at = "settings" => j.pol \in {"all", "admins"}
    /\ j.at = "edit" => CanEditInfo(j.r, j.pol)
    /\ j.at \in {"count", "insert"} => j.us \in SUBSET Users
    /\ j.at = "insert" => j.n \in Nat /\ j.n + Cardinality(j.us) <= MaxMembers
    /\ j.at \in {"target", "delete", "role"} => j.t \in Users
    /\ j.at \in {"target", "delete"} => j.by \in None .. RoleOwner
    /\ j.at \in {"delete", "role"} => role[j.t] # RoleOwner
    /\ j.at = "delete" => j.read \in RoleMember .. RoleOwner /\ CanRemove(j.by, j.read)
    /\ j.at = "role" => j.r \in {RoleMember, RoleAdmin}
    /\ j.at = "join" => j.u \in Users /\ j.n \in Nat /\ j.n < MaxMembers

(* A join holds the invite, alone, until it commits.                       *)
JoinHolds ==
    /\ Locked => GetInvite /\ invite.uses < MaxUses
    /\ \A g, h \in Handlers : job[g].at = "join" /\ job[h].at = "join" => g = h

(* The inductive invariant.                                                *)
GroupsInv ==
    /\ GroupsSound
    /\ policy \in {"all", "admins"} /\ crowded \in BOOLEAN
    /\ job = [h \in Handlers |-> job[h]] /\ \A h \in Handlers : JobFits(job[h])
    /\ OnlyWhileLive /\ JoinHolds
=============================================================================
