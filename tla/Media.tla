------------------------------- MODULE Media -------------------------------
(***************************************************************************)
(* One media object: upload, references and garbage collection             *)
(* (media/service.go, media/gc.go, media/lifecycle.go, media/adapters/).   *)
(* The bytes live in the object store, the row in the database and the     *)
(* upload handle in a session that expires, and every step touches one of  *)
(* the three.  Messages and the commands that drop a message's reference   *)
(* belong to other services; a command may arrive twice or never.          *)
(***************************************************************************)
EXTENDS Integers, FiniteSets

CONSTANTS Handlers, Messages, MaxFaults

VARIABLES
    row,       \* media_objects: state, refcount and age, or NoRow
    blob,      \* object store: "none", "multipart" or "object"
    session,   \* upload session: "none", "live" or "gone"
    good,      \* do the uploaded bytes have the size and hash announced
    job,       \* what each running handler does next
    gc,        \* the sweep: what it has read and does next
    holds,     \* messages that hold a reference to the object
    dropped,   \* messages deleted since, whose command may be on its way
    seen,      \* event ids of the commands the consumer has marked
    crossed,   \* history: a handler and the sweep overlapped
    faults

vars == <<row, blob, session, good, job, gc, holds, dropped, seen, crossed, faults>>

NoRow == [state |-> "none", refs |-> 0, age |-> "fresh"]
Idle == [at |-> "idle"]
Uploading == \E h \in Handlers : job[h].at # "idle"

Init ==
    /\ row = NoRow
    /\ blob = "none" /\ session = "none"
    /\ good \in BOOLEAN
    /\ job = [h \in Handlers |-> Idle]
    /\ gc = Idle
    /\ holds = {} /\ dropped = {} /\ seen = {}
    /\ crossed = FALSE /\ faults = 0

Become(h, next) == job' = [job EXCEPT ![h] = next]
Fault == faults < MaxFaults /\ faults' = faults + 1
Swept == crossed' = (crossed \/ gc # Idle)

(* The object store: an upload is opened, and turned into an object once.  *)
StartUpload == blob' = "multipart"

Complete == blob = "multipart" /\ blob' = "object"

(* The session store: an entry that aged out or was dropped is not found.  *)
Save == session' = "live"

Load == session = "live"

(* Store.GetByKey: the row as it stands.                                   *)
GetByKey == row

(* CreateUpload, past the cap, the rate and the quota: multipart, row and  *)
(* session, in this order; the upload is aborted if the row is not made.   *)
CreateUpload(h) ==
    /\ job[h] = Idle /\ blob = "none" /\ session = "none" /\ row = NoRow
    /\ StartUpload
    /\ Become(h, [at |-> "pending"])
    /\ UNCHANGED <<row, session, good, gc, holds, dropped, seen, crossed, faults>>

CreatePending(h) ==
    /\ job[h].at = "pending"
    /\ \/ /\ row' = [row EXCEPT !.state = "pending"]
          /\ Become(h, [at |-> "save"])
          /\ UNCHANGED <<blob, faults>>
       \/ /\ Fault
          /\ blob' = "none"
          /\ Become(h, Idle)
          /\ UNCHANGED row
    /\ UNCHANGED <<session, good, gc, holds, dropped, seen, crossed>>

SaveSession(h) ==
    /\ job[h].at = "save"
    /\ Save
    /\ Become(h, Idle)
    /\ UNCHANGED <<row, blob, good, gc, holds, dropped, seen, crossed, faults>>

(* Mutant of Verified: size and hash are not compared.                     *)
VerifiedAlways == TRUE

(* The size, and the hash where the upload was a single part.              *)
Verified == good

(* CompleteUpload needs the session and the multipart upload; a second     *)
(* completion of the same upload is refused by the object store.           *)
CompleteUpload(h) ==
    /\ job[h] = Idle /\ Load
    /\ Complete
    /\ Swept
    /\ Become(h, IF Verified THEN [at |-> "mark"] ELSE [at |-> "remove"])
    /\ UNCHANGED <<row, session, good, gc, holds, dropped, seen, faults>>

(* The row is marked if it is still there.                                 *)
MarkComplete(h) ==
    /\ job[h].at = "mark"
    /\ IF row = NoRow
         THEN Become(h, Idle) /\ UNCHANGED row
         ELSE row' = [row EXCEPT !.state = "complete", !.age = "fresh"] /\ Become(h, [at |-> "drop"])
    /\ Swept
    /\ UNCHANGED <<blob, session, good, gc, holds, dropped, seen, faults>>

DropSession(h) ==
    /\ job[h].at = "drop"
    /\ session' = "gone"
    /\ Become(h, Idle)
    /\ UNCHANGED <<row, blob, good, gc, holds, dropped, seen, crossed, faults>>

(* rejectAndCleanup: bytes, row and session, errors ignored.               *)
RemoveBlob(h) ==
    /\ job[h].at = "remove"
    /\ blob' = "none"
    /\ Become(h, [at |-> "unrow"])
    /\ UNCHANGED <<row, session, good, gc, holds, dropped, seen, crossed, faults>>

DeleteRow(h) ==
    /\ job[h].at = "unrow"
    /\ row' = NoRow
    /\ Swept
    /\ Become(h, [at |-> "drop"])
    /\ UNCHANGED <<blob, session, good, gc, holds, dropped, seen, faults>>

-----------------------------------------------------------------------------
(* DownloadURLs: a link is made for a complete row, and no other.          *)
Downloadable == GetByKey.state = "complete"

(* Store.AddRef: one statement, so no increment is lost.                   *)
Referenced == [row EXCEPT !.refs = @ + 1]

(* A message takes a reference; its deletion later drops it by a command.  *)
AddRef(m) ==
    /\ m \notin holds \cup dropped /\ row # NoRow
    /\ row' = Referenced
    /\ holds' = holds \cup {m}
    /\ Swept
    /\ UNCHANGED <<blob, session, good, job, gc, dropped, seen, faults>>

DeleteMessage(m) ==
    /\ m \in holds
    /\ holds' = holds \ {m} /\ dropped' = dropped \cup {m}
    /\ UNCHANGED <<row, blob, session, good, job, gc, seen, crossed, faults>>

(* Mutant of Fresh: a command that comes twice is applied twice.           *)
FreshAlways(m) == TRUE

Fresh(m) == m \notin seen

(* The consumer marks the command, then takes the reference off; a row     *)
(* that is gone is fine.  The mark stays if the second call fails.         *)
Dereference(h, m) ==
    /\ job[h] = Idle /\ m \in dropped /\ Fresh(m)
    /\ seen' = seen \cup {m}
    /\ Become(h, [at |-> "decref"])
    /\ UNCHANGED <<row, blob, session, good, gc, holds, dropped, crossed, faults>>

DecRef(h) ==
    /\ job[h].at = "decref"
    /\ row' = IF row = NoRow THEN row
              ELSE [row EXCEPT !.refs = IF @ > 0 THEN @ - 1 ELSE 0,
                               !.age = IF row.refs <= 1 THEN "fresh" ELSE @]
    /\ Swept
    /\ Become(h, Idle)
    /\ UNCHANGED <<blob, session, good, gc, holds, dropped, seen, faults>>

(* Time: a pending row grows stale, a complete one's expires_at passes, a  *)
(* session ages out.                                                       *)
Age ==
    /\ row.state # "none" /\ row.age = "fresh"
    /\ row' = [row EXCEPT !.age = "old"]
    /\ UNCHANGED <<blob, session, good, job, gc, holds, dropped, seen, crossed, faults>>

SessionExpires ==
    /\ Load
    /\ session' = "gone"
    /\ UNCHANGED <<row, blob, good, job, gc, holds, dropped, seen, crossed, faults>>

-----------------------------------------------------------------------------
(* Mutant of Candidate: a referenced object may be swept when it is old.   *)
CandidateByAge == row.state # "none" /\ row.age = "old"

Candidate == row.state # "none" /\ row.refs = 0 /\ row.age = "old"

Sweep ==
    /\ gc = Idle /\ Candidate
    /\ gc' = [at |-> "reclaim", state |-> row.state]
    /\ crossed' = (crossed \/ Uploading)
    /\ UNCHANGED <<row, blob, session, good, job, holds, dropped, seen, faults>>

(* reclaim: the bytes of a complete object, the multipart upload of a      *)
(* pending one if its session still names it.  An abort that fails leaves  *)
(* the row to the next sweep.                                              *)
Reclaim ==
    /\ gc.at = "reclaim"
    /\ \/ /\ gc.state = "complete"
          /\ blob' = "none"
          /\ gc' = [at |-> "delete"]
          /\ UNCHANGED session
       \/ /\ gc.state = "pending" /\ Load /\ blob = "multipart"
          /\ blob' = "none" /\ session' = "gone"
          /\ gc' = [at |-> "delete"]
       \/ /\ gc.state = "pending" /\ Load /\ blob # "multipart"
          /\ gc' = Idle
          /\ UNCHANGED <<blob, session>>
       \/ /\ gc.state = "pending" /\ ~Load
          /\ gc' = [at |-> "delete"]
          /\ UNCHANGED <<blob, session>>
    /\ UNCHANGED <<row, good, job, holds, dropped, seen, crossed, faults>>

Delete ==
    /\ gc.at = "delete"
    /\ row' = NoRow
    /\ gc' = Idle
    /\ UNCHANGED <<blob, session, good, job, holds, dropped, seen, crossed, faults>>

(* A call fails or the process stops: what was left to do is not done.     *)
Abandon(h) ==
    /\ job[h] # Idle /\ Fault
    /\ Become(h, Idle)
    /\ UNCHANGED <<row, blob, session, good, gc, holds, dropped, seen, crossed>>

Next ==
    \/ Age \/ SessionExpires \/ Sweep \/ Reclaim \/ Delete
    \/ \E m \in Messages : AddRef(m) \/ DeleteMessage(m)
    \/ \E h \in Handlers :
        \/ CreateUpload(h) \/ CreatePending(h) \/ SaveSession(h) \/ CompleteUpload(h)
        \/ MarkComplete(h) \/ DropSession(h) \/ RemoveBlob(h) \/ DeleteRow(h) \/ DecRef(h)
        \/ Abandon(h)
        \/ \E m \in Messages : Dereference(h, m)

-----------------------------------------------------------------------------
Rows == [state : {"none", "pending", "complete"}, refs : 0..Cardinality(Messages),
         age : {"fresh", "old"}]

TypeOK ==
    /\ row \in Rows
    /\ blob \in {"none", "multipart", "object"}
    /\ session \in {"none", "live", "gone"}
    /\ holds \subseteq Messages /\ seen \subseteq Messages

(* The reference count never falls below the messages that hold the        *)
(* object, so a command delivered twice cannot free it under them.         *)
RefsCoverHolders == row # NoRow => row.refs >= Cardinality(holds)

(* A message's media is there: the row and the bytes of a good upload that *)
(* some message holds are gone only if the sweep overlapped the taking of  *)
(* a reference.                                                            *)
HeldMediaIsThere ==
    holds # {} /\ good /\ ~crossed => row # NoRow /\ (row.state = "complete" => blob = "object")

(* Bytes do not leak: an object without a row was left behind by a failed  *)
(* call or by a sweep that overlapped its completion.                      *)
LeakNeedsFault ==
    blob = "object" /\ row = NoRow => crossed \/ faults > 0 \/ gc # Idle \/ Uploading

(* A link leads to the bytes that were announced, unless the sweep has     *)
(* taken the bytes and not yet the row, or overlapped the completion.      *)
LinksWork == Downloadable => good /\ (blob = "object" \/ gc.at = "delete" \/ crossed)

MediaSound == LinksWork /\ TypeOK /\ RefsCoverHolders /\ HeldMediaIsThere /\ LeakNeedsFault

(* Before an upload is opened there is nothing.                            *)
Decrefs == {h \in Handlers : job[h].at = "decref"}
Unopened == row = NoRow /\ gc = Idle /\ holds = {} /\ dropped = {} /\ Decrefs = {}
Opening(h) == job[h].at \in {"pending", "save"}

(* What a handler finds where it is.                                       *)
JobFits(h) ==
    /\ job[h].at \in {"idle", "pending", "save", "mark", "drop", "remove", "unrow", "decref"}
    /\ Opening(h) => session = "none" /\ blob = "multipart" /\ \A g \in Handlers : Opening(g) => g = h
    /\ job[h].at = "pending" => Unopened
    /\ job[h].at = "save" => row # NoRow \/ crossed
    /\ job[h].at \in {"mark", "remove", "unrow", "drop"} => session # "none" /\ blob # "multipart"
    /\ job[h].at = "mark" => good /\ (~crossed => blob = "object" /\ row # NoRow)
    /\ job[h].at \in {"remove", "unrow"} => ~good
    /\ job[h].at = "unrow" => blob = "none"

(* What the sweep finds: it runs alone, or it overlapped.                  *)
SweepFits ==
    /\ \/ gc = Idle \/ gc = [at |-> "delete"]
       \/ \E s \in {"pending", "complete"} : gc = [at |-> "reclaim", state |-> s]
    /\ gc # Idle /\ ~crossed => holds = {} /\ \A h \in Handlers : job[h].at \in {"idle", "decref"}
    /\ gc.at = "reclaim" /\ ~crossed => row.state = gc.state
    /\ gc.at = "delete" /\ ~crossed => ~(Load /\ blob = "multipart") /\ (faults = 0 => blob # "object")

(* Without a session nothing is complete; with one there is a row.         *)
SessionFits ==
    /\ session = "none" => /\ blob # "object" /\ row.state # "complete"
                           /\ gc.at = "reclaim" => gc.state = "pending"
                           /\ blob = "none" => Unopened
    /\ Load /\ blob = "multipart" /\ ~crossed => row # NoRow

(* The count covers the holders, the commands on their way and those that  *)
(* are being applied.                                                      *)
RefsFit ==
    /\ row.state = "none" => row = NoRow
    /\ dropped \subseteq Messages /\ IsFiniteSet(Decrefs)
    /\ row # NoRow => row.refs >= Cardinality(holds) + Cardinality(dropped \ seen) + Cardinality(Decrefs)
    /\ row.refs <= Cardinality(holds \cup dropped)

(* An object without a complete row is in a handler's hands.               *)
ObjectMarked ==
    blob = "object" /\ ~crossed /\ faults = 0 /\ row.state # "complete" =>
        \E h \in Handlers : job[h].at \in {"mark", "remove"}

(* The inductive invariant.                                                *)
MediaInv ==
    /\ MediaSound
    /\ job = [h \in Handlers |-> job[h]] /\ \A h \in Handlers : JobFits(h)
    /\ SweepFits /\ SessionFits /\ RefsFit /\ ObjectMarked
    /\ good \in BOOLEAN /\ faults \in Nat
=============================================================================
