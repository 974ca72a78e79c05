------------------------------- MODULE Stories -------------------------------
(***************************************************************************)
(* One story: audience snapshot, feed, view receipts and the purge         *)
(* (stories/service.go, stories/domain/stories.go, stories/adapters/pg.go).*)
(* The author's contacts are read when the story is posted and frozen in   *)
(* its row; a viewer is checked against the row and then written down,     *)
(* and the views go when the story goes (foreign key with cascade).        *)
(***************************************************************************)
EXTENDS Integers, FiniteSets

CONSTANTS
    Author,
    Users,      \* the others
    Handlers,
    MaxFaults

VARIABLES
    contacts,  \* contacts: matched users of the author
    story,     \* stories: its audience, and "none", "live", "edge" (the very
               \* instant of expires_at), "expired" or "gone"
    views,     \* story_views
    job,       \* what each running handler has read and does next
    chosen,    \* history: the contacts, or the override, the posting had read
    late,      \* history: viewers let in while the story was still live
    faults

vars == <<contacts, story, views, job, chosen, late, faults>>

Idle == [at |-> "idle"]

Init ==
    /\ contacts \in SUBSET Users
    /\ story = [state |-> "none", audience |-> {}]
    /\ views = {}
    /\ job = [h \in Handlers |-> Idle]
    /\ chosen = {} /\ late = {} /\ faults = 0

Become(h, next) == job' = [job EXCEPT ![h] = next]

ContactsChange(u) ==
    /\ contacts' = IF u \in contacts THEN contacts \ {u} ELSE contacts \cup {u}
    /\ UNCHANGED <<story, views, job, chosen, late, faults>>

(* Mutant of Audience: the author's contacts get it besides.               *)
AudienceBoth(source) == {Author} \cup source \cup contacts

(* domain.Audience: the author sees the story too.                         *)
Audience(source) == {Author} \cup source

(* ValidateCreate: a picture has its media, a text none.                   *)
ValidateCreate(kind, hasMediaRef, aud) ==
    (kind \in {"image", "video"}) = hasMediaRef /\ aud # {}

(* Post: the override if there is one, else the contacts.                  *)
Post(h, source, kind, hasMediaRef) ==
    /\ job[h] = Idle /\ story.state = "none"
    /\ \A g \in Handlers : job[g].at # "create"
    /\ ValidateCreate(kind, hasMediaRef, Audience(source))
    /\ Become(h, [at |-> "create", aud |-> Audience(source)])
    /\ chosen' = source \cup {Author}
    /\ UNCHANGED <<contacts, story, views, late, faults>>

Create(h) ==
    /\ job[h].at = "create"
    /\ story' = [state |-> "live", audience |-> job[h].aud]
    /\ Become(h, Idle)
    /\ UNCHANGED <<contacts, views, chosen, late, faults>>

Expire ==
    /\ story.state \in {"live", "edge"}
    /\ story' = [story EXCEPT !.state = IF @ = "live" THEN "edge" ELSE "expired"]
    /\ UNCHANGED <<contacts, views, job, chosen, late, faults>>

(* Mutant of Visible: the author's contacts of the moment decide.          *)
VisibleToContacts(u) == story.state = "live" /\ u \in contacts

(* Store.Feed: expires_at is still to come.                                *)
Visible(u) == story.state = "live" /\ u \in story.audience

(* Feed: the unexpired stories that name the caller.                       *)
Feed(u) == IF Visible(u) THEN {story} ELSE {}

(* Service.load: the row, if there is one.                                 *)
Load == story.state \notin {"none", "gone"}

(* Mutant of MayView: the expiry is left to the purge.                     *)
MayViewStale(u) == Load /\ u \in story.audience

(* View refuses after expires_at, not at it.                               *)
MayView(u) == Load /\ story.state # "expired" /\ u \in story.audience

View(h, u) ==
    /\ job[h] = Idle /\ MayView(u)
    /\ Become(h, [at |-> "record", u |-> u])
    /\ late' = IF story.state = "expired" THEN late ELSE late \cup {u}
    /\ UNCHANGED <<contacts, story, views, chosen, faults>>

(* Viewers: for the author alone.                                          *)
Viewers(u) == IF Load /\ u = Author THEN views ELSE {}

(* Mutant of RowThere: the view's row does not need its story's.           *)
RowAnyway == TRUE

RowThere == story.state # "gone"

RecordView(h) ==
    /\ job[h].at = "record"
    /\ views' = IF RowThere THEN views \cup {job[h].u} ELSE views
    /\ Become(h, Idle)
    /\ UNCHANGED <<contacts, story, chosen, late, faults>>

(* Delete looks the author up first.                                       *)
Delete(h) ==
    /\ job[h] = Idle /\ Load
    /\ Become(h, [at |-> "delete"])
    /\ UNCHANGED <<contacts, story, views, chosen, late, faults>>

DeleteStory(h) ==
    /\ job[h].at = "delete"
    /\ story' = [story EXCEPT !.state = "gone"]
    /\ views' = {}
    /\ Become(h, Idle)
    /\ UNCHANGED <<contacts, chosen, late, faults>>

(* The purge takes expired stories only.                                   *)
PurgeExpired ==
    /\ story.state = "expired"
    /\ story' = [story EXCEPT !.state = "gone"]
    /\ views' = {}
    /\ UNCHANGED <<contacts, job, chosen, late, faults>>

Abandon(h) ==
    /\ job[h] # Idle /\ faults < MaxFaults
    /\ faults' = faults + 1
    /\ Become(h, Idle)
    /\ UNCHANGED <<contacts, story, views, chosen, late>>

Next ==
    \/ Expire \/ PurgeExpired
    \/ \E u \in Users : ContactsChange(u)
    \/ \E h \in Handlers :
        \/ \E source \in (SUBSET Users) \cup {contacts}, kind \in {"image", "text"}, ref \in BOOLEAN :
            Post(h, source, kind, ref)
        \/ \E u \in Users \cup {Author} : View(h, u)
        \/ Create(h) \/ RecordView(h) \/ Delete(h) \/ DeleteStory(h) \/ Abandon(h)

-----------------------------------------------------------------------------
TypeOK ==
    /\ contacts \subseteq Users /\ views \subseteq Users \cup {Author}
    /\ story \in [state : {"none", "live", "edge", "expired", "gone"},
                  audience : SUBSET (Users \cup {Author})]

(* The audience is frozen: whoever sees the story or has a view recorded   *)
(* was chosen when it was posted, whatever became of the contacts since,   *)
(* and was let in while the story was live.                                *)
AudienceFrozen ==
    /\ \A u \in Users \cup {Author} : Feed(u) # {} => u \in chosen /\ MayView(u)
    /\ views \subseteq chosen \cap late
    /\ \A u \in Users : Viewers(u) = {}

(* Gone is gone: no view outlives its story, not even one that was being   *)
(* written when the story was deleted or purged.                           *)
NoViewOutlives == story.state \in {"none", "gone"} => views = {}

StoriesSound == TypeOK /\ AudienceFrozen /\ NoViewOutlives

(* A posting under way has read what was chosen, and is alone; a view is   *)
(* written for somebody who was let in.                                    *)
JobFits(j) ==
    /\ j.at \in {"idle", "create", "record", "delete"}
    /\ j.at = "create" => j.aud = chosen /\ story.state = "none"
    /\ j.at = "record" => j.u \in chosen \cap late /\ story.state # "none"
    /\ j.at = "delete" => story.state # "none"

OnePosting ==
    \A g, h \in Handlers : job[g].at = "create" /\ job[h].at = "create" => g = h

(* The inductive invariant.                                                *)
StoriesInv ==
    /\ StoriesSound
    /\ job = [h \in Handlers |-> job[h]] /\ \A h \in Handlers : JobFits(job[h])
    /\ OnePosting
    /\ chosen \subseteq Users \cup {Author} /\ late \subseteq Users \cup {Author}
    /\ story.state # "none" => story.audience = chosen
=============================================================================
