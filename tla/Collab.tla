------------------------------- MODULE Collab -------------------------------
(***************************************************************************)
(* One shared note and one task of a conversation (collab/service.go,      *)
(* collab/domain/collab.go, collab/adapters/pg.go).  An edit names the     *)
(* version it is based on; the handler compares it with the version it has *)
(* loaded and writes the next one with an UPDATE that asks nothing.  The   *)
(* revision and the activity entry are written after it, errors ignored.   *)
(***************************************************************************)
EXTENDS Integers, FiniteSets

CONSTANTS Handlers, MaxVersion, MaxFaults

VARIABLES
    note,      \* collab_notes: version (0: no row), whose text, approval_state
    revisions, \* collab_note_revisions: whose text each version's row holds
    task,      \* collab_tasks: "none", "open", "done" or "deleted"
    member,    \* conversation_members: is the caller still one
    job,       \* what each running handler has read and does next
    lost,      \* history: an accepted edit overwrote one it had not seen
    undone,    \* history: an approval was overwritten
    crossed,   \* history: what was loaded while another handler held it
    faults

vars == <<note, revisions, task, member, job, lost, undone, crossed, faults>>

Idle == [at |-> "idle"]
Nobody == 0
Versions == 1..MaxVersion
Doing(places) == \E h \in Handlers : job[h].at \in places

Init ==
    /\ note = [version |-> 0, by |-> Nobody, approval |-> "none"]
    /\ revisions = [v \in Versions |-> Nobody]
    /\ task = "none"
    /\ member = TRUE
    /\ job = [h \in Handlers |-> Idle]
    /\ lost = FALSE /\ undone = FALSE /\ crossed = {}
    /\ faults = 0

Become(h, next) == job' = [job EXCEPT ![h] = next]

(* requireMember, after loadNoteMember has read the note.                  *)
Enter(h, what, places, next) ==
    /\ member /\ job[h] = Idle
    /\ Become(h, next)
    /\ crossed' = IF Doing(places) THEN crossed \cup {what} ELSE crossed
    /\ UNCHANGED <<note, revisions, task, member, lost, undone, faults>>

CreateNote(h) ==
    /\ member /\ job[h] = Idle /\ note.version = 0
    /\ note' = [note EXCEPT !.version = 1, !.by = h]
    /\ Become(h, [at |-> "revise", version |-> 1])
    /\ UNCHANGED <<revisions, task, member, lost, undone, crossed, faults>>

(* Mutant of CheckVersion: an edit based on any version is taken.          *)
CheckAnyVersion(current, base) == TRUE

CheckVersion(current, base) == base = current

UpdateNote(h, base) ==
    /\ note.version > 0 /\ note.version < MaxVersion
    /\ CheckVersion(note.version, base)
    /\ Enter(h, "edit", {"edit"}, [at |-> "edit", base |-> base, next |-> note.version + 1])

WriteNote(h) ==
    /\ job[h].at = "edit"
    /\ note' = [note EXCEPT !.version = job[h].next, !.by = h]
    /\ lost' = (lost \/ note.version # job[h].base)
    /\ Become(h, [at |-> "revise", version |-> job[h].next])
    /\ UNCHANGED <<revisions, task, member, undone, crossed, faults>>

(* (note_id, version) is unique: a second row of a version is refused and  *)
(* the refusal ignored.                                                    *)
AddRevision(h) ==
    /\ job[h].at = "revise"
    /\ revisions' = [revisions EXCEPT ![job[h].version] = IF @ = Nobody THEN h ELSE @]
    /\ Become(h, Idle)
    /\ UNCHANGED <<note, task, member, lost, undone, crossed, faults>>

-----------------------------------------------------------------------------
CanRequestApproval(s) == s \in {"none", "rejected"}

RequestApproval(h) ==
    /\ note.version > 0 /\ CanRequestApproval(note.approval)
    /\ Enter(h, "approval", {"approval"}, [at |-> "approval", to |-> "pending"])

(* Mutant of Decidable: a note may be decided that nobody submitted.       *)
DecidableAlways(s) == TRUE

Decidable(s) == s = "pending"

DecideApproval(h, to) ==
    /\ note.version > 0 /\ Decidable(note.approval)
    /\ Enter(h, "approval", {"approval"}, [at |-> "approval", to |-> to])

SetApproval(h) ==
    /\ job[h].at = "approval"
    /\ note' = [note EXCEPT !.approval = job[h].to]
    /\ undone' = (undone \/ note.approval = "approved")
    /\ Become(h, Idle)
    /\ UNCHANGED <<revisions, task, member, lost, crossed, faults>>

-----------------------------------------------------------------------------
CreateTask(h) ==
    /\ task = "none"
    /\ Enter(h, "task", {"task"}, [at |-> "task", from |-> {"none"}, to |-> "open"])

(* ToggleTask and DeleteTask touch the row if it is there.                 *)
ToggleTask(h, to) ==
    Enter(h, "task", {}, [at |-> "task", from |-> {"open", "done"}, to |-> to])

DeleteTask(h) ==
    Enter(h, "task", {}, [at |-> "task", from |-> {"open", "done"}, to |-> "deleted"])

WriteTask(h) ==
    /\ job[h].at = "task"
    /\ task' = IF task \in job[h].from THEN job[h].to ELSE task
    /\ Become(h, Idle)
    /\ UNCHANGED <<note, revisions, member, lost, undone, crossed, faults>>

(* The caller leaves the conversation; handlers that have checked go on.   *)
LeaveConversation ==
    /\ member
    /\ member' = FALSE
    /\ UNCHANGED <<note, revisions, task, job, lost, undone, crossed, faults>>

Abandon(h) ==
    /\ job[h] # Idle /\ faults < MaxFaults
    /\ faults' = faults + 1
    /\ Become(h, Idle)
    /\ UNCHANGED <<note, revisions, task, member, lost, undone, crossed>>

Next ==
    \/ LeaveConversation
    \/ \E h \in Handlers :
        \/ CreateNote(h) \/ WriteNote(h) \/ AddRevision(h)
        \/ \E base \in Versions : UpdateNote(h, base)
        \/ RequestApproval(h) \/ SetApproval(h)
        \/ \E to \in {"approved", "rejected"} : DecideApproval(h, to)
        \/ CreateTask(h) \/ DeleteTask(h) \/ WriteTask(h)
        \/ \E to \in {"open", "done"} : ToggleTask(h, to)
        \/ Abandon(h)

Spec == Init /\ [][Next]_vars

-----------------------------------------------------------------------------
TypeOK ==
    /\ note \in [version : 0..MaxVersion, by : Handlers \cup {Nobody}, approval : {"none", "pending", "approved", "rejected"}]
    /\ revisions \in [Versions -> Handlers \cup {Nobody}]
    /\ task \in {"none", "open", "done", "deleted"}

(* An accepted edit is never silently overwritten: the version rule holds  *)
(* for handlers that do not overlap, and only they can lose an edit.       *)
LostNeedsOverlap == lost => "edit" \in crossed

(* The history is whole: every version up to the note's has its revision,  *)
(* and the newest one the note's own text, unless its author is still      *)
(* writing it, a write failed or two edits overlapped.                     *)
HistoryWhole ==
    LET writing(v) == \E h \in Handlers : job[h].at = "revise" /\ job[h].version = v
    IN  faults = 0 => \A v \in 1..note.version :
            \/ writing(v)
            \/ revisions[v] # Nobody
               /\ (v = note.version /\ "edit" \notin crossed => revisions[v] = note.by)

(* An approval stands: only overlapping requests and decisions overwrite   *)
(* one.                                                                    *)
ApprovalStands == undone => "approval" \in crossed

CollabSound == TypeOK /\ LostNeedsOverlap /\ HistoryWhole /\ ApprovalStands

(* What a handler has read bounds what it writes.                          *)
JobFits(j) ==
    /\ j.at \in {"idle", "edit", "revise", "approval", "task"}
    /\ j.at = "edit" => j.base \in Versions /\ j.next \in Versions /\ j.next = j.base + 1
    /\ j.at = "revise" => j.version \in Versions
    /\ j.at = "approval" => j.to \in {"pending", "approved", "rejected"}
    /\ j.at = "task" => j.to \in {"open", "done", "deleted"}

(* A version has its revision or somebody is writing it.                   *)
Covered(v) ==
    revisions[v] # Nobody \/ \E h \in Handlers : job[h].at = "revise" /\ job[h].version = v

(* Until a write fails, every version an edit is based on, and the note's, *)
(* is covered.                                                             *)
AllCovered ==
    faults = 0 =>
        /\ \A v \in Versions : v <= note.version => Covered(v)
        /\ \A h \in Handlers : job[h].at = "edit" => \A v \in 1..job[h].base : Covered(v)

(* Without an overlap an edit is alone and based on the note's version, a  *)
(* revision being written is missing, and the newest is the author's.      *)
EditsAlone ==
    "edit" \notin crossed =>
        /\ \A h \in Handlers : job[h].at = "edit" => job[h].base = note.version
        /\ \A g, h \in Handlers : job[g].at = "edit" /\ job[h].at = "edit" => g = h
        /\ \A h \in Handlers : job[h].at = "revise" =>
              /\ job[h].version <= note.version /\ revisions[job[h].version] = Nobody
              /\ job[h].version = note.version => note.by = h
        /\ \A g, h \in Handlers :
              job[g].at = "revise" /\ job[h].at = "revise" /\ job[g].version = job[h].version => g = h
        /\ \A v \in Versions : v > note.version => revisions[v] = Nobody
        /\ note.version \in Versions => revisions[note.version] \in {Nobody, note.by}

DecisionsAlone ==
    "approval" \notin crossed =>
        /\ \A h \in Handlers : job[h].at = "approval" => note.approval # "approved"
        /\ \A g, h \in Handlers : job[g].at = "approval" /\ job[h].at = "approval" => g = h

(* The inductive invariant.                                                *)
CollabInv ==
    /\ CollabSound
    /\ job = [h \in Handlers |-> job[h]] /\ \A h \in Handlers : JobFits(job[h])
    /\ faults \in Nat
    /\ AllCovered /\ EditsAlone /\ DecisionsAlone
=============================================================================
