------------------------------- MODULE Flags -------------------------------
(***************************************************************************)
(* One feature flag or kill-switch behind the shared cache                 *)
(* (platform/flags/flags.go, rule.go, cache.go, pg.go; writes:             *)
(* admin/flags.go).  Readers go through the cache and fill it on a miss;   *)
(* a writer commits the rule and then deletes the cached entry.            *)
(***************************************************************************)
EXTENDS Integers

CONSTANTS
    Readers, Writers,
    Subjects,    \* users; NoSubject is a check without a user
    Bucket,      \* the rollout slot of each subject and of NoSubject, 0..99
    MaxWrites, MaxFaults

VARIABLES
    rule,       \* feature_flags: the stored rule, or Absent
    cache,      \* the cached entry: a rule, Absent, or Missing
    reader,     \* what each evaluation has read
    writer,     \* what each console request does next
    answer,     \* the last answer of each evaluation, with its subject
    written,    \* history: the rules that were ever stored
    crossed,    \* history: did a fill overlap a write
    unbusted,   \* history: did a writer stop before it deleted the entry
    writes, faults

vars == <<rule, cache, reader, writer, answer, written, crossed, unbusted, writes, faults>>

NoSubject == "nobody"
Idle == [at |-> "idle"]
Absent == [present |-> FALSE]
Missing == [present |-> FALSE, cached |-> FALSE]
NoAnswer == [subject |-> NoSubject, on |-> FALSE]

Rule(on, percent, allow, deny) ==
    [present |-> TRUE, enabled |-> on, rollout |-> percent, allow |-> allow, deny |-> deny]

(* The rules an operator writes: off, half, full, and each override.       *)
Rules ==
    {Rule(FALSE, 100, Subjects, {}), Rule(TRUE, 50, {}, {}), Rule(TRUE, 100, {}, {})}
    \cup {Rule(TRUE, 0, {s}, {}) : s \in Subjects}
    \cup {Rule(TRUE, 100, Subjects, {s}) : s \in Subjects}

Init ==
    /\ rule = Absent /\ cache = Missing
    /\ reader = [r \in Readers |-> Idle]
    /\ writer = [w \in Writers |-> Idle]
    /\ answer = [r \in Readers |-> NoAnswer]
    /\ written = {Absent}
    /\ crossed = FALSE /\ unbusted = FALSE /\ writes = 0 /\ faults = 0

(* Mutant of Eval: the allow list wins over the deny list.                 *)
EvalAllowFirst(r, s) ==
    /\ r.enabled
    /\ s \in r.allow \/ (s \notin r.deny /\ Bucket[s] < r.rollout)

(* Rule.Eval: the master switch, deny, allow, then the rollout.            *)
Eval(r, s) ==
    /\ r.enabled
    /\ s = NoSubject \/ s \notin r.deny
    /\ (s # NoSubject /\ s \in r.allow) \/ Bucket[s] < r.rollout

(* Mutant of Enabled: a flag that cannot be resolved is on.                *)
EnabledOpen(entry, s) == entry.present => Eval(entry, s)

(* Enabled fails closed: what is absent, or cannot be read, is off.        *)
Enabled(entry, s) == entry.present /\ Eval(entry, s)

Reply(r, entry, s) ==
    /\ answer' = [answer EXCEPT ![r] = [subject |-> s, on |-> Enabled(entry, s)]]
    /\ reader' = [reader EXCEPT ![r] = Idle]

(* resolve: the cache.  A cache that cannot be read is a miss.             *)
CacheGet(r, s) ==
    /\ reader[r] = Idle
    /\ \/ /\ cache # Missing
          /\ Reply(r, cache, s)
          /\ UNCHANGED faults
       \/ /\ cache = Missing
          /\ reader' = [reader EXCEPT ![r] = [at |-> "store", s |-> s]]
          /\ UNCHANGED <<answer, faults>>
       \/ /\ cache # Missing /\ faults < MaxFaults
          /\ reader' = [reader EXCEPT ![r] = [at |-> "store", s |-> s]]
          /\ faults' = faults + 1
          /\ UNCHANGED answer
    /\ UNCHANGED <<rule, cache, writer, written, crossed, unbusted, writes>>

(* resolve: the store.  An error answers "absent" and is not cached.       *)
StoreGet(r) ==
    /\ reader[r].at = "store"
    /\ \/ /\ reader' = [reader EXCEPT ![r] = [at |-> "put", s |-> reader[r].s, entry |-> rule]]
          /\ UNCHANGED <<answer, faults>>
       \/ /\ faults < MaxFaults
          /\ faults' = faults + 1
          /\ Reply(r, Absent, reader[r].s)
    /\ UNCHANGED <<rule, cache, writer, written, crossed, unbusted, writes>>

(* resolve: the fill.  What was read may have been written over.           *)
CachePut(r) ==
    /\ reader[r].at = "put"
    /\ cache' = reader[r].entry
    /\ crossed' = (crossed \/ reader[r].entry # rule)
    /\ Reply(r, reader[r].entry, reader[r].s)
    /\ UNCHANGED <<rule, writer, written, unbusted, writes, faults>>

(* FlagConsole.Set and Delete: the write and its audit row, one            *)
(* transaction; deleting an absent flag is refused.                        *)
UpsertFlag(w, new) ==
    /\ writer[w] = Idle /\ writes < MaxWrites
    /\ rule # Absent \/ new # Absent
    /\ writes' = writes + 1
    /\ rule' = new
    /\ written' = written \cup {new}
    /\ writer' = [writer EXCEPT ![w] = [at |-> "bust"]]
    /\ UNCHANGED <<cache, reader, answer, crossed, unbusted, faults>>

(* Mutant of Busted: the entry is left to its TTL.                         *)
BustedNever == cache

Busted == Missing

(* Del, best effort.                                                       *)
CacheDel(w) ==
    /\ writer[w].at = "bust"
    /\ writer' = [writer EXCEPT ![w] = Idle]
    /\ \/ /\ cache' = Busted
          /\ crossed' = FALSE /\ unbusted' = FALSE
          /\ UNCHANGED faults
       \/ /\ faults < MaxFaults
          /\ faults' = faults + 1
          /\ unbusted' = TRUE
          /\ UNCHANGED <<cache, crossed>>
    /\ UNCHANGED <<rule, reader, answer, written, writes>>

(* CacheTTL has passed.                                                    *)
CacheExpires ==
    /\ cache # Missing
    /\ cache' = Missing
    /\ crossed' = FALSE /\ unbusted' = FALSE
    /\ UNCHANGED <<rule, reader, writer, answer, written, writes, faults>>

Next ==
    \/ CacheExpires
    \/ \E r \in Readers :
        \/ StoreGet(r) \/ CachePut(r)
        \/ \E s \in Subjects \cup {NoSubject} : CacheGet(r, s)
    \/ \E w \in Writers : CacheDel(w) \/ \E new \in Rules \cup {Absent} : UpsertFlag(w, new)

-----------------------------------------------------------------------------
TypeOK ==
    /\ rule \in Rules \cup {Absent}
    /\ cache \in Rules \cup {Absent, Missing}

(* The documentation of a rule read as a reference: deny beats everything, *)
(* allow beats the rollout.                                                *)
Says(r, s) ==
    /\ r.present /\ r.enabled /\ s \notin r.deny
    /\ s \in r.allow \/ Bucket[s] < r.rollout

(* A feature is on, and a kill-switch engaged, only for a subject for whom *)
(* a rule some operator stored says so: an outage or a missing flag never  *)
(* turns a feature on and never pauses the product.                        *)
OnIsWritten ==
    \A r \in Readers : answer[r].on => \E w \in written : Says(w, answer[r].subject)

(* The cache holds the stored rule, unless a write is about to delete it,  *)
(* a fill overlapped a write, or the deletion failed.                      *)
CacheIsFresh ==
    \/ cache \in {rule, Missing} \/ crossed \/ unbusted
    \/ \E w \in Writers : writer[w] # Idle

FlagsSound == TypeOK /\ OnIsWritten /\ CacheIsFresh

(* What an evaluation holds was read from the store.                       *)
ReaderFits(j) ==
    /\ j.at \in {"idle", "store", "put"}
    /\ j.at # "idle" => j.s \in Subjects \cup {NoSubject}
    /\ j.at = "put" => j.entry \in written

(* The inductive strengthening: every rule anyone holds was stored.        *)
FlagsInv ==
    /\ FlagsSound
    /\ written \subseteq Rules \cup {Absent} /\ {rule, Absent} \subseteq written
    /\ cache \in written \cup {Missing}
    /\ reader = [r \in Readers |-> reader[r]] /\ \A r \in Readers : ReaderFits(reader[r])
    /\ writer = [w \in Writers |-> writer[w]] /\ answer = [r \in Readers |-> answer[r]]
=============================================================================
