------------------------------ MODULE Contacts ------------------------------
(***************************************************************************)
(* One owner's contact discovery, invites and favourites                   *)
(* (contacts/service.go, contacts/domain/contacts.go, contacts/adapters/). *)
(* A sync spends one of the day's calls, matches the hashes of the numbers *)
(* against the registered users and writes the edges; a number that        *)
(* matches nobody leaves the edge it had.  Numbers are given up and taken  *)
(* by other users; nothing counts the uses of an invite.                   *)
(***************************************************************************)
EXTENDS Integers, FiniteSets

CONSTANTS Users, Numbers, Handlers, SyncDailyLimit, MaxMoves, MaxFaults

Nobody == 0

VARIABLES
    holder,    \* users: the active user of each number, or Nobody
    edge,      \* contacts: matched_user_id of each number, or Nobody
    spent,     \* calls of the day's window
    invite,    \* contact_invites: "none", "valid", "expired" or "revoked"
    favorite,  \* favorites of the owner
    job,       \* what each running handler has read and does next
    found,     \* history: what the last sync to match each number found
    crossed,   \* history: numbers matched while another sync was writing
    moves,     \* how often a number changed hands
    faults

vars == <<holder, edge, spent, invite, favorite, job, found, crossed, moves, faults>>

Idle == [at |-> "idle"]

Init ==
    /\ holder = [n \in Numbers |-> Nobody]
    /\ edge = [n \in Numbers |-> Nobody]
    /\ spent = 0
    /\ invite = "none" /\ favorite = {}
    /\ job = [h \in Handlers |-> Idle]
    /\ found = [n \in Numbers |-> Nobody]
    /\ crossed = {} /\ moves = 0 /\ faults = 0

Become(h, next) == job' = [job EXCEPT ![h] = next]

(* A number is registered, suspended or tombstoned elsewhere.              *)
ChangeHands(n, u) ==
    /\ holder[n] # u /\ moves < MaxMoves
    /\ holder' = [holder EXCEPT ![n] = u]
    /\ moves' = moves + 1
    /\ UNCHANGED <<edge, spent, invite, favorite, job, found, crossed, faults>>

(* AllowDaily decides and counts in one script.                            *)
AllowDaily(h) ==
    /\ job[h] = Idle /\ spent < SyncDailyLimit
    /\ spent' = spent + 1
    /\ Become(h, [at |-> "match"])
    /\ UNCHANGED <<holder, edge, invite, favorite, found, crossed, moves, faults>>

Refill ==
    /\ spent > 0
    /\ spent' = spent - 1
    /\ UNCHANGED <<holder, edge, invite, favorite, job, found, crossed, moves, faults>>

Matches == {n \in Numbers : holder[n] # Nobody}

MatchHashes(h) ==
    /\ job[h].at = "match"
    /\ Become(h, IF Matches = {} THEN Idle
                 ELSE [at |-> "upsert", who |-> [n \in Matches |-> holder[n]]])
    /\ found' = [n \in Numbers |-> IF n \in Matches THEN holder[n] ELSE found[n]]
    /\ crossed' = crossed \cup {n \in Matches : \E g \in Handlers : job[g].at = "upsert"}
    /\ UNCHANGED <<holder, edge, spent, invite, favorite, moves, faults>>

(* Mutant of Upserted: an edge once written is never refreshed.            *)
UpsertedOnce(who) ==
    [n \in Numbers |-> IF n \in DOMAIN who /\ edge[n] = Nobody THEN who[n] ELSE edge[n]]

Upserted(who) == [n \in Numbers |-> IF n \in DOMAIN who THEN who[n] ELSE edge[n]]

(* UpsertMatched: a failure is logged and the sync answers all the same.   *)
UpsertMatched(h) ==
    /\ job[h].at = "upsert"
    /\ \/ edge' = Upserted(job[h].who) /\ UNCHANGED faults
       \/ faults < MaxFaults /\ faults' = faults + 1 /\ UNCHANGED edge
    /\ Become(h, Idle)
    /\ UNCHANGED <<holder, spent, invite, favorite, found, crossed, moves>>

-----------------------------------------------------------------------------
(* Store.Add and Remove: both may be repeated.                             *)
Add(u) == favorite' = favorite \cup {u}

Remove(u) == favorite' = favorite \ {u}

AddFavorite(u) ==
    /\ Add(u)
    /\ UNCHANGED <<holder, edge, spent, invite, job, found, crossed, moves, faults>>

RemoveFavorite(u) ==
    /\ Remove(u)
    /\ UNCHANGED <<holder, edge, spent, invite, job, found, crossed, moves, faults>>

CreateInvite ==
    /\ invite = "none"
    /\ invite' = "valid"
    /\ UNCHANGED <<holder, edge, spent, favorite, job, found, crossed, moves, faults>>

InviteExpires ==
    /\ invite = "valid"
    /\ invite' = "expired"
    /\ UNCHANGED <<holder, edge, spent, favorite, job, found, crossed, moves, faults>>

(* Store.Revoke: any invite of the caller, whatever its state.             *)
Revoke == invite # "none" /\ invite' = "revoked"

RevokeInvite ==
    /\ Revoke
    /\ UNCHANGED <<holder, edge, spent, favorite, job, found, crossed, moves, faults>>

Next ==
    \/ Refill \/ CreateInvite \/ InviteExpires \/ RevokeInvite
    \/ \E n \in Numbers, u \in Users \cup {Nobody} : ChangeHands(n, u)
    \/ \E u \in Users : AddFavorite(u) \/ RemoveFavorite(u)
    \/ \E h \in Handlers : AllowDaily(h) \/ MatchHashes(h) \/ UpsertMatched(h)

-----------------------------------------------------------------------------
TypeOK ==
    /\ holder \in [Numbers -> Users \cup {Nobody}]
    /\ edge \in [Numbers -> Users \cup {Nobody}]
    /\ spent \in 0..SyncDailyLimit
    /\ invite \in {"none", "valid", "expired", "revoked"} /\ favorite \subseteq Users

(* The address book follows the numbers: the edge of a number names the    *)
(* user the last sync that matched it found, unless that sync is still     *)
(* writing, its write failed or two syncs overlapped.                      *)
EdgeIsLastFound ==
    \A n \in Numbers :
        \/ edge[n] = found[n] \/ n \in crossed \/ faults > 0
        \/ \E h \in Handlers : job[h].at = "upsert" /\ n \in DOMAIN job[h].who

ContactsSound == TypeOK /\ EdgeIsLastFound

(* What a handler has matched and not yet written.                         *)
JobFits(j) ==
    /\ j.at \in {"idle", "match", "upsert"}
    /\ j.at = "upsert" => /\ DOMAIN j.who \subseteq Numbers
                          /\ \A n \in DOMAIN j.who : j.who[n] \in Users \cup {Nobody}

Writing(n) == {h \in Handlers : job[h].at = "upsert" /\ n \in DOMAIN job[h].who}

(* Without an overlap or a failure every sync that is writing a number     *)
(* writes what was found last, and it is written or being written.         *)
EdgeFollows(n) ==
    n \in crossed \/ faults > 0
        \/ /\ \A h \in Writing(n) : job[h].who[n] = found[n]
           /\ edge[n] = found[n] \/ Writing(n) # {}

(* The inductive invariant.                                                *)
ContactsInv ==
    /\ ContactsSound
    /\ job = [h \in Handlers |-> job[h]] /\ \A h \in Handlers : JobFits(job[h])
    /\ found \in [Numbers -> Users \cup {Nobody}] /\ faults \in Nat
    /\ \A n \in Numbers : EdgeFollows(n)
=============================================================================
