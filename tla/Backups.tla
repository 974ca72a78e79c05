------------------------------- MODULE Backups -------------------------------
(***************************************************************************)
(* One user's encrypted backups (backups/service.go, backups/adapters/).   *)
(* A completed backup reclaims every other complete one of the user, bytes *)
(* first and row after; Latest is the newest complete row.  Backups are    *)
(* numbered in the order of their creation.                                *)
(***************************************************************************)
EXTENDS Integers, FiniteSets, FiniteSetsExt

CONSTANTS MaxBackups, Handlers, MaxFaults

Ids == 1..MaxBackups

VARIABLES
    row,       \* backups: "none", "pending" or "complete"
    blob,      \* object store: "none", "multipart" or "object"
    made,      \* backups created so far
    job,       \* what each running handler has read and does next
    kept,      \* history: a backup was once reported complete
    crossed,   \* history: two completions overlapped
    faults

vars == <<row, blob, made, job, kept, crossed, faults>>

Idle == [at |-> "idle"]

Init ==
    /\ row = [i \in Ids |-> "none"]
    /\ blob = [i \in Ids |-> "none"]
    /\ made = 0
    /\ job = [h \in Handlers |-> Idle]
    /\ kept = FALSE /\ crossed = FALSE /\ faults = 0

Become(h, next) == job' = [job EXCEPT ![h] = next]

Create(h) ==
    /\ job[h] = Idle /\ made < MaxBackups
    /\ made' = made + 1
    /\ blob' = [blob EXCEPT ![made + 1] = "multipart"]
    /\ Become(h, [at |-> "pending", i |-> made + 1])
    /\ UNCHANGED <<row, kept, crossed, faults>>

(* The row is written, or the upload aborted.                              *)
CreatePending(h) ==
    /\ job[h].at = "pending"
    /\ \/ row' = [row EXCEPT ![job[h].i] = "pending"] /\ UNCHANGED <<blob, faults>>
       \/ /\ faults < MaxFaults /\ faults' = faults + 1
          /\ blob' = [blob EXCEPT ![job[h].i] = "none"]
          /\ UNCHANGED row
    /\ Become(h, Idle)
    /\ UNCHANGED <<made, kept, crossed>>

(* owned: the row is the caller's.                                         *)
Owned(i) == row[i] # "none"

(* Complete: the object store takes the parts once; the size fits or not.  *)
Complete(h, i, fits) ==
    /\ job[h] = Idle /\ Owned(i) /\ row[i] = "pending" /\ blob[i] = "multipart"
    /\ blob' = [blob EXCEPT ![i] = "object"]
    /\ crossed' = (crossed \/ \E g \in Handlers : job[g].at \in {"mark", "list", "remove", "delete"})
    /\ Become(h, IF fits THEN [at |-> "mark", i |-> i]
                 ELSE [at |-> "remove", old |-> {i}, i |-> i])
    /\ UNCHANGED <<row, made, kept, faults>>

MarkComplete(h) ==
    /\ job[h].at = "mark"
    /\ row' = [row EXCEPT ![job[h].i] = "complete"]
    /\ kept' = TRUE
    /\ Become(h, [at |-> "list", i |-> job[h].i])
    /\ UNCHANGED <<blob, made, crossed, faults>>

(* Mutant of OldComplete: the new backup is not spared.                    *)
AllComplete(i) == {j \in Ids : row[j] = "complete"}

OldComplete(i) == {j \in Ids : row[j] = "complete"} \ {i}

ListOld(h) ==
    /\ job[h].at = "list"
    /\ Become(h, IF OldComplete(job[h].i) = {} THEN Idle
                 ELSE [at |-> "remove", old |-> OldComplete(job[h].i), i |-> job[h].i])
    /\ UNCHANGED <<row, blob, made, kept, crossed, faults>>

(* reclaimOld, one backup after the other; errors are ignored.             *)
Remove(h) ==
    LET j == Min(job[h].old)
    IN  /\ job[h].at = "remove"
        /\ blob' = [blob EXCEPT ![j] = "none"]
        /\ Become(h, [job[h] EXCEPT !.at = "delete"])
        /\ UNCHANGED <<row, made, kept, crossed, faults>>

Delete(h) ==
    LET j == Min(job[h].old)
    IN  /\ job[h].at = "delete"
        /\ row' = [row EXCEPT ![j] = "none"]
        /\ Become(h, IF job[h].old = {j} THEN Idle
                     ELSE [job[h] EXCEPT !.at = "remove", !.old = @ \ {j}])
        /\ UNCHANGED <<blob, made, kept, crossed, faults>>

Abandon(h) ==
    /\ job[h] # Idle /\ faults < MaxFaults
    /\ faults' = faults + 1
    /\ Become(h, Idle)
    /\ UNCHANGED <<row, blob, made, kept, crossed>>

Next ==
    \E h \in Handlers :
        \/ Create(h) \/ CreatePending(h) \/ MarkComplete(h) \/ ListOld(h) \/ Remove(h)
        \/ Delete(h) \/ Abandon(h)
        \/ \E i \in Ids, fits \in BOOLEAN : Complete(h, i, fits)

-----------------------------------------------------------------------------
TypeOK ==
    /\ row \in [Ids -> {"none", "pending", "complete"}]
    /\ blob \in [Ids -> {"none", "multipart", "object"}]

Completes == {i \in Ids : row[i] = "complete"}
Latest == IF Completes = {} THEN 0 ELSE Max(Completes)

(* Service.Latest hands out a link to the bytes of the latest row, which   *)
(* works if they are there.                                                *)
RestoreWorks == Latest # 0 /\ blob[Latest] = "object"

(* A backup stays restorable: once one was completed there is always a     *)
(* latest one and its bytes are there, unless two completions overlapped   *)
(* or a call failed; and an older upload that completes last is the one    *)
(* that is kept.                                                           *)
AlwaysRestorable ==
    kept /\ ~crossed /\ faults = 0 =>
        \/ RestoreWorks
        \/ \E h \in Handlers : job[h].at \in {"list", "remove", "delete"} /\ row[job[h].i] = "complete"
                               /\ blob[job[h].i] = "object"

(* The quota: no two complete backups stay when nobody is reclaiming.      *)
OneActive ==
    faults = 0 /\ (\A h \in Handlers : job[h] = Idle) => Cardinality(Completes) <= 1

BackupsSound == TypeOK /\ AlwaysRestorable /\ OneActive

(* What a handler works on.                                                *)
JobFits(j) ==
    /\ j.at \in {"idle", "pending", "mark", "list", "remove", "delete"}
    /\ j.at # "idle" => j.i \in 1..made
    /\ j.at \in {"remove", "delete"} => j.old \subseteq Ids /\ j.old # {}

(* A backup whose row is to come has none, and one handler has it.         *)
RowsToCome ==
    /\ made \in 0..MaxBackups
    /\ \A i \in Ids : i > made => row[i] = "none"
    /\ \A h \in Handlers : job[h].at = "pending" =>
          /\ row[job[h].i] = "none"
          /\ \A g \in Handlers : job[g].at # "idle" /\ job[g].i = job[h].i => g = h

(* Two complete backups are there only while somebody reclaims one.        *)
Reclaiming ==
    faults = 0 => \A i, j \in Completes : i # j =>
        \E h \in Handlers : \/ job[h].at = "list"
                            \/ job[h].at \in {"remove", "delete"} /\ (i \in job[h].old \/ j \in job[h].old)

(* Without an overlap one handler completes; it has marked its backup and  *)
(* spares it, or removes its own alone, bytes go before their row, and     *)
(* once there was a complete backup one is left alone.                     *)
Finishing(h) == job[h].at \in {"mark", "list", "remove", "delete"}
FinishAlone == \A g, h \in Handlers : Finishing(g) /\ Finishing(h) => g = h

OwnStands(j) ==
    /\ j.at = "mark" => row[j.i] = "pending" /\ blob[j.i] = "object"
    /\ j.at = "list" => row[j.i] = "complete" /\ blob[j.i] = "object"
    /\ j.at \in {"remove", "delete"} =>
          \/ j.old = {j.i} /\ row[j.i] = "pending"
          \/ j.i \notin j.old /\ row[j.i] = "complete" /\ blob[j.i] = "object"

BytesThere(i) ==
    blob[i] = "object" \/ \E h \in Handlers : job[h].at = "delete" /\ i = Min(job[h].old)

LeftAlone(i) == \A h \in Handlers : job[h].at \in {"remove", "delete"} => i \notin job[h].old

Spared ==
    ~crossed /\ faults = 0 =>
        /\ FinishAlone
        /\ \A h \in Handlers : OwnStands(job[h])
        /\ \A i \in Completes : BytesThere(i)
        /\ kept => \E i \in Completes : LeftAlone(i)

(* The inductive invariant.                                                *)
BackupsInv ==
    /\ BackupsSound
    /\ job = [h \in Handlers |-> job[h]] /\ \A h \in Handlers : JobFits(job[h])
    /\ RowsToCome /\ Reclaiming /\ Spared /\ faults \in Nat
=============================================================================
