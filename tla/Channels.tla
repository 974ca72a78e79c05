------------------------------ MODULE Channels ------------------------------
(***************************************************************************)
(* One public broadcast channel: roles, posts that are scheduled, swept    *)
(* and announced, reactions and comments, and paid access that does not    *)
(* run out (channels/service.go, channels/domain/channel.go, channels/     *)
(* adapters/pg.go, the sweep of cmd/core-api/main.go).  Every replica runs *)
(* the sweep.  Nothing here is a transaction of more than one statement,   *)
(* and a handler may die between two of them.                              *)
(***************************************************************************)
EXTENDS Integers, FiniteSets, Functions

CONSTANTS
    Users,
    Posts,
    Handlers,      \* handlers and sweeps that may run at the same time
    MaxMarks,      \* bound on reactions and comments, those under way too
    MaxCharges,    \* bound on the charges
    MaxFaults

VARIABLES
    channel,   \* channels: state and premium
    role,      \* channel_members
    post,      \* channel_posts: state, author and deleted_at
    due,       \* scheduled posts whose time has come
    told,      \* announcements sent for each post
    marks,     \* reactions and comments: <<kind, user, post>>
    charged,   \* payments taken from each user
    stored,    \* subscriptions written for each user
    job,       \* what each running handler has read and does next
    crossed,   \* history: posts picked by a sweep that another one had picked
    overtaken, \* history: the creator had followed when he was made owner
    faults

vars == <<channel, role, post, due, told, marks, charged, stored, job, crossed, overtaken, faults>>

None == -1
RoleFollower == 0
RoleAdmin == 1
RoleOwner == 2
Nobody == 0

Idle == [at |-> "idle"]

Init ==
    /\ channel = [st |-> "none", premium |-> FALSE]
    /\ role = [u \in Users |-> None]
    /\ post = [p \in Posts |-> [st |-> "none", by |-> Nobody, deleted |-> FALSE]]
    /\ due = {}
    /\ told = [p \in Posts |-> 0]
    /\ marks = {}
    /\ charged = [u \in Users |-> 0] /\ stored = [u \in Users |-> 0]
    /\ job = [h \in Handlers |-> Idle]
    /\ crossed = {}
    /\ overtaken = FALSE
    /\ faults = 0

Become(h, next) == job' = [job EXCEPT ![h] = next]

(* caller: the channel is there and this is the user's role.               *)
Caller(h) == job[h] = Idle /\ channel.st = "live"

(* Handlers that only decide leave the tables alone.                       *)
Decide(h, next) ==
    /\ Become(h, next)
    /\ UNCHANGED <<channel, role, post, due, told, marks, charged, stored, crossed, overtaken, faults>>

(* Store.CreateChannel; the owner's membership is a second statement.      *)
CreateChannel == channel' = [channel EXCEPT !.st = "live"]

Create(h, u) ==
    /\ job[h] = Idle /\ channel.st = "none"
    /\ CreateChannel
    /\ Become(h, [at |-> "member", u |-> u, r |-> RoleOwner])
    /\ UNCHANGED <<role, post, due, told, marks, charged, stored, crossed, overtaken, faults>>

Follow(h, u) ==
    /\ Caller(h) /\ role[u] < RoleAdmin
    /\ Decide(h, [at |-> "member", u |-> u, r |-> RoleFollower])

(* Mutant of Joined: the row is overwritten.                               *)
JoinedOver(u, r) == [role EXCEPT ![u] = r]

(* Store.AddMember: ON CONFLICT DO NOTHING.                                *)
Joined(u, r) == [role EXCEPT ![u] = IF @ = None THEN r ELSE @]

(* The user u has followed, and perhaps is about to leave again.           *)
Joining(u) == role[u] # None \/ \E h \in Handlers : job[h].at = "role" /\ job[h].u = u

AddMember(h) ==
    /\ job[h].at = "member"
    /\ role' = Joined(job[h].u, job[h].r)
    /\ overtaken' = (overtaken \/ (job[h].r = RoleOwner /\ Joining(job[h].u)))
    /\ Become(h, Idle)
    /\ UNCHANGED <<channel, post, due, told, marks, charged, stored, crossed, faults>>

Unfollow(h, u) ==
    /\ Caller(h) /\ role[u] \in {RoleFollower, RoleAdmin}
    /\ Decide(h, [at |-> "role", u |-> u, r |-> None])

SetRole(h, u, t, r) ==
    /\ Caller(h) /\ role[u] = RoleOwner /\ t # u
    /\ Decide(h, [at |-> "role", u |-> t, r |-> r])

(* Store.SetRole and RemoveMember: a row that is gone stays gone.          *)
WriteRole(h) ==
    /\ job[h].at = "role"
    /\ role' = [role EXCEPT ![job[h].u] = IF @ = None THEN @ ELSE job[h].r]
    /\ Become(h, Idle)
    /\ UNCHANGED <<channel, post, due, told, marks, charged, stored, crossed, overtaken, faults>>

(* Delete and SetPremium are the owner's; both rows are written only where *)
(* the channel is not deleted.                                             *)
SetPremium(h, u, premium) ==
    /\ Caller(h) /\ role[u] = RoleOwner
    /\ Decide(h, [at |-> "premium", to |-> premium])

WritePremium(h) ==
    /\ job[h].at = "premium"
    /\ channel' = IF channel.st = "live" THEN [channel EXCEPT !.premium = job[h].to] ELSE channel
    /\ Become(h, Idle)
    /\ UNCHANGED <<role, post, due, told, marks, charged, stored, crossed, overtaken, faults>>

Delete(h, u) ==
    /\ Caller(h) /\ role[u] = RoleOwner
    /\ Decide(h, [at |-> "drop"])

DeleteChannel(h) ==
    /\ job[h].at = "drop"
    /\ channel' = [channel EXCEPT !.st = "deleted"]
    /\ Become(h, Idle)
    /\ UNCHANGED <<role, post, due, told, marks, charged, stored, crossed, overtaken, faults>>

CanPost(u) == role[u] >= RoleAdmin

CreatePost(h, u, p, st) ==
    /\ Caller(h) /\ CanPost(u)
    /\ post[p].st = "none" /\ \A q \in Posts : q < p => post[q].st # "none"
    /\ Decide(h, [at |-> "post", u |-> u, p |-> p, st |-> st])

InsertPost(h) ==
    LET p == job[h].p
    IN  /\ job[h].at = "post"
        /\ IF post[p].st = "none"
           THEN post' = [post EXCEPT ![p].st = job[h].st, ![p].by = job[h].u]
           ELSE UNCHANGED post
        /\ Become(h, IF post[p].st = "none" /\ job[h].st = "published"
                     THEN [at |-> "tell", ps |-> {p}] ELSE Idle)
        /\ UNCHANGED <<channel, role, due, told, marks, charged, stored, crossed, overtaken, faults>>

(* broadcast: one announcement for each post, best effort.                 *)
Broadcast(h) ==
    /\ job[h].at = "tell"
    /\ told' = [p \in Posts |-> IF p \in job[h].ps THEN told[p] + 1 ELSE told[p]]
    /\ Become(h, Idle)
    /\ UNCHANGED <<channel, role, post, due, marks, charged, stored, crossed, overtaken, faults>>

TimeComes(p) ==
    /\ post[p].st = "scheduled" /\ p \notin due
    /\ due' = due \cup {p}
    /\ UNCHANGED <<channel, role, post, told, marks, charged, stored, job, crossed, overtaken, faults>>

(* Mutant of Due: what is published already is picked again.               *)
DuePublished == {p \in due : ~post[p].deleted}

(* The inner SELECT of PublishDue, on the snapshot of the statement.       *)
Due == {p \in due : post[p].st = "scheduled" /\ ~post[p].deleted}

PublishDue(h) ==
    /\ job[h] = Idle /\ Due # {}
    /\ Become(h, [at |-> "publish", ps |-> Due])
    /\ crossed' = crossed \cup {p \in Due : \E g \in Handlers :
                                   job[g].at = "publish" /\ p \in job[g].ps}
    /\ UNCHANGED <<channel, role, post, due, told, marks, charged, stored, overtaken, faults>>

(* The outer UPDATE locks the rows and does not look at them again: a row  *)
(* another sweep has published, or a user deleted, is returned all the     *)
(* same.                                                                   *)
PublishRows(h) ==
    /\ job[h].at = "publish"
    /\ post' = [p \in Posts |-> IF p \in job[h].ps THEN [post[p] EXCEPT !.st = "published"]
                                ELSE post[p]]
    /\ Become(h, [at |-> "tell", ps |-> job[h].ps])
    /\ UNCHANGED <<channel, role, due, told, marks, charged, stored, crossed, overtaken, faults>>

DeletePost(h, u, p) ==
    /\ Caller(h) /\ post[p].st # "none" /\ ~post[p].deleted
    /\ post[p].by = u \/ CanPost(u)
    /\ Decide(h, [at |-> "delete", p |-> p])

TombstonePost(h) ==
    /\ job[h].at = "delete"
    /\ post' = [post EXCEPT ![job[h].p].deleted = TRUE]
    /\ Become(h, Idle)
    /\ UNCHANGED <<channel, role, due, told, marks, charged, stored, crossed, overtaken, faults>>

(* Store.IsSubscribed: a row that has not ended.                           *)
IsSubscribed(u) == stored[u] > 0

(* canRead: a premium channel is read by its admins and its subscribers.   *)
CanRead(u) == channel.premium => CanPost(u) \/ IsSubscribed(u)

(* Mutant of ViewablePost: drafts are shown to admins.                     *)
ViewablePostDraft(u, p) ==
    post[p].st # "none" /\ ~post[p].deleted /\ (CanPost(u) \/ CanRead(u))

ViewablePost(u, p) == post[p].st = "published" /\ ~post[p].deleted /\ CanRead(u)

Marking == {h \in Handlers : job[h].at = "mark"}

(* React and Comment.                                                      *)
Mark(h, kind, u, p) ==
    /\ Caller(h) /\ ViewablePost(u, p)
    /\ Cardinality(marks) + Cardinality(Marking) < MaxMarks
    /\ Decide(h, [at |-> "mark", m |-> <<kind, u, p>>])

WriteMark(h) ==
    /\ job[h].at = "mark"
    /\ marks' = marks \cup {job[h].m}
    /\ Become(h, Idle)
    /\ UNCHANGED <<channel, role, post, due, told, charged, stored, crossed, overtaken, faults>>

(* React with on = false needs the post visible; DeleteComment its author  *)
(* or one who may post.                                                    *)
Unmark(u, m) ==
    /\ m \in marks /\ channel.st = "live"
    /\ IF m[1] = "reaction" THEN m[2] = u /\ ViewablePost(u, m[3]) ELSE m[2] = u \/ CanPost(u)
    /\ marks' = marks \ {m}
    /\ UNCHANGED <<channel, role, post, due, told, charged, stored, job, crossed, overtaken, faults>>

Subscribe(h, u) ==
    /\ Caller(h) /\ channel.premium /\ role[u] < RoleAdmin
    /\ Decide(h, [at |-> "charge", u |-> u])

(* The payment is taken first,                                             *)
Charge(h) ==
    /\ job[h].at = "charge" /\ SumFunction(charged) < MaxCharges
    /\ charged' = [charged EXCEPT ![job[h].u] = @ + 1]
    /\ Become(h, [at |-> "subscribe", u |-> job[h].u])
    /\ UNCHANGED <<channel, role, post, due, told, marks, stored, crossed, overtaken, faults>>

(* then the subscription is written, then the membership.                  *)
StoreSubscription(h) ==
    /\ job[h].at = "subscribe"
    /\ stored' = [stored EXCEPT ![job[h].u] = @ + 1]
    /\ Become(h, [at |-> "member", u |-> job[h].u, r |-> RoleFollower])
    /\ UNCHANGED <<channel, role, post, due, told, marks, charged, crossed, overtaken, faults>>

Abandon(h) ==
    /\ job[h] # Idle /\ faults < MaxFaults
    /\ faults' = faults + 1
    /\ Become(h, Idle)
    /\ UNCHANGED <<channel, role, post, due, told, marks, charged, stored, crossed, overtaken>>

Next ==
    \/ \E p \in Posts : TimeComes(p)
    \/ \E u \in Users, m \in marks : Unmark(u, m)
    \/ \E h \in Handlers, u \in Users :
        \/ Create(h, u) \/ Follow(h, u) \/ Unfollow(h, u) \/ Subscribe(h, u)
        \/ \E t \in Users, r \in {RoleFollower, RoleAdmin} : SetRole(h, u, t, r)
        \/ Delete(h, u) \/ \E premium \in BOOLEAN : SetPremium(h, u, premium)
        \/ \E p \in Posts :
            \/ \E st \in {"scheduled", "published"} : CreatePost(h, u, p, st)
            \/ \E kind \in {"reaction", "comment"} : Mark(h, kind, u, p)
            \/ DeletePost(h, u, p)
    \/ \E h \in Handlers :
        \/ AddMember(h) \/ WriteRole(h) \/ WritePremium(h) \/ InsertPost(h)
        \/ DeleteChannel(h) \/ Broadcast(h) \/ PublishDue(h) \/ PublishRows(h) \/ TombstonePost(h)
        \/ WriteMark(h) \/ Charge(h) \/ StoreSubscription(h) \/ Abandon(h)

-----------------------------------------------------------------------------
TypeOK ==
    /\ channel \in [st : {"none", "live", "deleted"}, premium : BOOLEAN]
    /\ role \in [Users -> None .. RoleOwner]
    /\ told \in [Posts -> 0 .. Cardinality(Handlers)]

Busy(at) == \E h \in Handlers : job[h].at = at

(* A channel that was created has one owner for ever, unless the handler   *)
(* that created it died before it wrote him down or he had followed first. *)
OneOwner ==
    LET n == Cardinality({u \in Users : role[u] = RoleOwner})
    IN  n <= 1 /\ (channel.st # "none" /\ n = 0 => Busy("member") \/ overtaken \/ faults > 0)

(* A post is announced once however many replicas sweep, unless two sweeps *)
(* picked it side by side.                                                 *)
ToldOnce == \A p \in Posts : told[p] > 1 => p \in crossed

(* Nobody reacts to or comments on a post that is not out.                 *)
MarksArePublic == \A m \in marks : post[m[3]].st = "published"

(* Whoever was charged is subscribed, or will be, unless the handler died  *)
(* with the payment taken.                                                 *)
PaidIsSubscribed ==
    \A u \in Users : charged[u] > stored[u] =>
        faults > 0 \/ \E h \in Handlers : job[h].at = "subscribe" /\ job[h].u = u

ChannelsSound == TypeOK /\ OneOwner /\ ToldOnce /\ MarksArePublic /\ PaidIsSubscribed

PostRows == [st : {"none", "scheduled", "published"}, by : Users \cup {Nobody}, deleted : BOOLEAN]

Jobs ==
    [at : {"member"}, u : Users, r : {RoleFollower, RoleOwner}]
        \cup [at : {"role"}, u : Users, r : {None, RoleFollower, RoleAdmin}]
        \cup [at : {"premium"}, to : BOOLEAN]
        \cup [at : {"drop"}]
        \cup [at : {"post"}, u : Users, p : Posts, st : {"scheduled", "published"}]
        \cup [at : {"tell", "publish"}, ps : SUBSET Posts]
        \cup [at : {"delete"}, p : Posts]
        \cup [at : {"mark"}, m : {"reaction", "comment"} \X Users \X Posts]
        \cup [at : {"charge", "subscribe"}, u : Users]

RowsTyped ==
    /\ post \in [Posts -> PostRows] /\ due \subseteq Posts /\ crossed \subseteq Posts
    /\ marks \subseteq {"reaction", "comment"} \X Users \X Posts
    /\ charged \in [Users -> Nat] /\ stored \in [Users -> Nat]
    /\ job \in [Handlers -> {Idle} \cup Jobs]
    /\ overtaken \in BOOLEAN /\ faults \in Nat

(* Before it is created the channel has nothing, and nobody works on it.   *)
Fresh ==
    channel.st = "none" =>
        /\ \A u \in Users : role[u] = None
        /\ \A h \in Handlers : job[h] = Idle
        /\ \A p \in Posts : post[p].st = "none"

(* The handler h has created the channel, u is to be its owner.            *)
Crowns(h, u) == job[h].at = "member" /\ job[h].r = RoleOwner /\ job[h].u = u

(* One handler makes one user the owner of a channel that has none; unless *)
(* he had followed, no change of his role is under way.                    *)
Crowned ==
    /\ \A u, v \in Users : role[u] = RoleOwner /\ role[v] = RoleOwner => u = v
    /\ \A h, k \in Handlers, u, v \in Users : Crowns(h, u) /\ Crowns(k, v) => h = k
    /\ \A h \in Handlers, u \in Users : Crowns(h, u) => \A v \in Users : role[v] # RoleOwner
    /\ channel.st # "none" =>
           \/ overtaken \/ faults > 0
           \/ \E u \in Users : role[u] = RoleOwner \/ \E h \in Handlers : Crowns(h, u)

OwnerSafe == ~overtaken => \A h \in Handlers : job[h].at = "role" => role[job[h].u] # RoleOwner

(* The handlers that have yet to announce the post p.                      *)
Telling(p) == {h \in Handlers : job[h].at \in {"publish", "tell"} /\ p \in job[h].ps}

(* A post is picked before it is out and announced after; each handler     *)
(* announces it once, and only one does unless two had picked it.          *)
Announced ==
    \A p \in Posts :
        /\ post[p].st = "none" => Telling(p) = {}
        /\ post[p].st # "published" => told[p] = 0 /\ \A h \in Telling(p) : job[h].at = "publish"
        /\ told[p] + Cardinality(Telling(p)) <= Cardinality(Handlers)
        /\ p \notin crossed => /\ told[p] = 0 => \A h, k \in Telling(p) : h = k
                               /\ told[p] > 0 => told[p] = 1 /\ Telling(p) = {}

MarkingPublic == \A h \in Handlers : job[h].at = "mark" => post[job[h].m[3]].st = "published"

Paying(u) == {h \in Handlers : job[h].at = "subscribe" /\ job[h].u = u}

(* Every charge is stored or about to be, until a handler has died.        *)
ChargesKept == \A u \in Users : faults = 0 => charged[u] = stored[u] + Cardinality(Paying(u))

(* The inductive invariant.                                                *)
ChannelsInv ==
    /\ ChannelsSound /\ RowsTyped /\ Fresh /\ Crowned /\ OwnerSafe
    /\ Announced /\ MarkingPublic /\ ChargesKept
=============================================================================
