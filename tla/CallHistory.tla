---------------------------- MODULE CallHistory ----------------------------
(***************************************************************************)
(* The call history of one user (calls/adapters/pg.go History,             *)
(* calls/service.go History, PurgeHistory, recordOutcome).  A record's id  *)
(* is its ring's, in the order the calls began; the record is written when *)
(* the call ends, and again when an event about it is delivered again.  A  *)
(* client walks the pages from the newest record down.                     *)
(***************************************************************************)
EXTENDS Integers, FiniteSets, FiniteSetsExt

CONSTANTS Ids, Limit, MaxWrites

VARIABLES
    rec,       \* call_records: kind and outcome of each id, or None
    began,     \* the kind of each call that was made
    walk,      \* the client's walk: "new", "more" or "done"
    cursor,    \* the cursor of the next page
    listed,    \* the records the client has received: id and kind
    twice,     \* history: records received twice
    stayed,    \* history: the records there during the whole walk
    edges,     \* history: the cursors the walk has used
    writes

vars == <<rec, began, walk, cursor, listed, twice, stayed, edges, writes>>

None == [kind |-> -1]
Kinds == {1, 2}
Outcomes == {"completed", "missed"}
NoCursor == 0

Init ==
    /\ rec = [i \in Ids |-> None]
    /\ began \in [Ids -> Kinds]
    /\ walk = "new" /\ cursor = NoCursor
    /\ listed = {} /\ twice = {} /\ stayed = {} /\ edges = {} /\ writes = 0

There == {i \in Ids : rec[i] # None}

(* The column counts kinds from 0, the wire from 1.                        *)
KindToDB(k) == k - 1

(* Mutant of KindFromDB: the column's number is handed out.                *)
KindFromDBAsIs(k) == k

KindFromDB(k) == k + 1

(* recordOutcome and Upsert: a second write changes only the outcome.      *)
Upsert(i, outcome) ==
    /\ writes < MaxWrites
    /\ writes' = writes + 1
    /\ rec' = [rec EXCEPT ![i] = [kind |-> IF @ = None THEN KindToDB(began[i]) ELSE @.kind,
                                  outcome |-> outcome]]
    /\ UNCHANGED <<began, walk, cursor, listed, twice, stayed, edges>>

(* PurgeHistory: everything that began before the cutoff.                  *)
PurgeOlderThan(cutoff) ==
    /\ \E i \in There : i < cutoff
    /\ rec' = [i \in Ids |-> IF i < cutoff THEN None ELSE rec[i]]
    /\ stayed' = {i \in stayed : i >= cutoff}
    /\ UNCHANGED <<began, walk, cursor, listed, twice, edges, writes>>

(* The query: limit + 1 rows below the cursor, newest first.               *)
Selected ==
    LET below == {i \in There : cursor = NoCursor \/ i < cursor}
    IN  {i \in below : Cardinality({j \in below : j > i}) <= Limit}

(* The page is the first Limit rows, the cursor the one after them.        *)
Page == {i \in Selected : Cardinality({j \in Selected : j > i}) < Limit}
NextCursor == IF Cardinality(Selected) > Limit THEN Min(Selected) ELSE NoCursor

List ==
    /\ walk # "done"
    /\ listed' = listed \cup {[id |-> i, kind |-> KindFromDB(rec[i].kind)] : i \in Page}
    /\ twice' = twice \cup {i \in Page : \E r \in listed : r.id = i}
    /\ cursor' = NextCursor
    /\ walk' = IF NextCursor = NoCursor THEN "done" ELSE "more"
    /\ stayed' = IF walk = "new" THEN There ELSE stayed
    /\ edges' = IF NextCursor = NoCursor THEN edges ELSE edges \cup {NextCursor}
    /\ UNCHANGED <<rec, began, writes>>

Next ==
    \/ List
    \/ \E i \in Ids : PurgeOlderThan(i) \/ \E o \in Outcomes : Upsert(i, o)

-----------------------------------------------------------------------------
TypeOK ==
    /\ \A i \in There : rec[i].kind \in {0, 1} /\ rec[i].outcome \in Outcomes
    /\ cursor \in Ids \cup {NoCursor}

ListedIds == {r.id : r \in listed}

(* A walk gives each record once, as the call was made, and leaves out     *)
(* none that stayed but the ones whose id it used as a cursor.             *)
WalkSound ==
    /\ twice = {}
    /\ \A r \in listed : r.kind = began[r.id]
    /\ walk = "done" => stayed \subseteq ListedIds \cup edges

HistorySound == TypeOK /\ WalkSound

(* What the comments say: history "returns the caller's call records" and  *)
(* pages by a keyset cursor, so a walk lists every record that stayed.     *)
EveryRecordListed == walk = "done" => stayed \subseteq ListedIds

-----------------------------------------------------------------------------
\* The columns of a record.
Rows == {None} \cup [kind : {0, 1}, outcome : Outcomes]

(* A walk that goes on has listed only what is above its cursor, and what  *)
(* stayed is listed, was used as a cursor, or is still below it.           *)
WalkFits ==
    /\ walk = "new" => listed = {} /\ cursor = NoCursor
    /\ walk = "more" =>
        /\ cursor \in Ids
        /\ \A r \in listed : r.id > cursor
        /\ \A i \in stayed : i < cursor \/ i \in ListedIds \cup edges

(* The inductive invariant.                                                *)
HistoryInv ==
    /\ HistorySound /\ WalkFits
    /\ rec \in [Ids -> Rows] /\ began \in [Ids -> Kinds]
    /\ \A i \in There : rec[i].kind = KindToDB(began[i])
    /\ listed \subseteq [id : Ids, kind : Kinds] /\ stayed \subseteq There
    /\ walk \in {"new", "more", "done"}
=============================================================================
