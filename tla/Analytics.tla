----------------------------- MODULE Analytics -----------------------------
(***************************************************************************)
(* Product analytics (analytics/service.go, analytics/adapters): counters  *)
(* and the number of distinct active users of a day (dau) and of the       *)
(* trailing window (mau).  The users of a day are a sketch in Valkey that  *)
(* expires; every pod condenses the sketches of the current day into the   *)
(* daily rows each minute.  A sketch is modelled as the set of its users:  *)
(* Valkey's count of it is approximate.                                    *)
(***************************************************************************)
EXTENDS Integers, FiniteSets

CONSTANTS Users, Pods, MaxDay, MAUWindow, Slack, Retention, MaxEvents, MaxFaults

VARIABLES
    today,
    wire,      \* events published and not consumed: kinds, of at most one each
    sketch,    \* analytics:hll:active_user:{day}
    expires,   \* the last day on which the sketch is still there
    row,       \* analytics_daily: signups, dau and mau of each day, -1 absent
    job,       \* what each pod's rollup has counted
    active,    \* history: who was really counted active on each day
    signups,   \* history: the sign-ups consumed on each day
    behind,    \* history: days whose row a rollup left behind the sketches
    events, faults

vars == <<today, wire, sketch, expires, row, job, active, signups, behind, events, faults>>

Days == 0..MaxDay
Idle == [at |-> "idle"]
NoRow == [signups |-> -1, dau |-> -1, mau |-> -1]

Init ==
    /\ today = 0 /\ wire = {}
    /\ sketch = [d \in Days |-> {}]
    /\ expires = [d \in Days |-> d]
    /\ row = [d \in Days |-> NoRow]
    /\ job = [p \in Pods |-> Idle]
    /\ active = [d \in Days |-> {}]
    /\ signups = [d \in Days |-> 0]
    /\ behind = {} /\ events = 0 /\ faults = 0

(* Publisher.Signup and Active: fire and forget, no time in the event.     *)
Emit(e) ==
    /\ events < MaxEvents /\ e \notin wire
    /\ events' = events + 1
    /\ wire' = wire \cup {e}
    /\ UNCHANGED <<today, sketch, expires, row, job, active, signups, behind, faults>>

(* Mutant of Ttl: a sketch lives for one day.                              *)
TtlOneDay == 1

(* The sketch's TTL, renewed at each addition.                             *)
Ttl == MAUWindow + Slack

(* Ingest: an active user joins today's sketch, a sign-up is added to      *)
(* today's counter.  A failure is logged: the event is lost.               *)
Ingest(e) ==
    /\ e \in wire
    /\ wire' = wire \ {e}
    /\ \/ /\ e \in Users
          /\ sketch' = [sketch EXCEPT ![today] = @ \cup {e}]
          /\ expires' = [expires EXCEPT ![today] = today + Ttl]
          /\ active' = [active EXCEPT ![today] = @ \cup {e}]
          /\ behind' = behind \cup {today}
          /\ UNCHANGED <<row, signups, faults>>
       \/ /\ e = "signup"
          /\ row' = [row EXCEPT ![today].signups = IF @ = -1 THEN 1 ELSE @ + 1]
          /\ signups' = [signups EXCEPT ![today] = @ + 1]
          /\ UNCHANGED <<sketch, expires, active, behind, faults>>
       \/ /\ faults < MaxFaults
          /\ faults' = faults + 1
          /\ UNCHANGED <<sketch, expires, row, active, signups, behind>>
    /\ UNCHANGED <<today, job, events>>

Trailing(day) == {d \in Days : d <= day /\ d > day - MAUWindow}
Union(days) == UNION {sketch[d] : d \in days}

(* RollupDistinct: two counts, then two writes.                            *)
CountDaily(p) ==
    /\ job[p] = Idle
    /\ job' = [job EXCEPT ![p] = [at |-> "month", day |-> today,
                                  dau |-> Cardinality(sketch[today])]]
    /\ UNCHANGED <<today, wire, sketch, expires, row, active, signups, behind, events, faults>>

CountMonthly(p) ==
    /\ job[p].at = "month"
    /\ job' = [job EXCEPT ![p] = [at |-> "setdau", day |-> job[p].day, dau |-> job[p].dau,
                                  mau |-> Cardinality(Union(Trailing(job[p].day)))]]
    /\ UNCHANGED <<today, wire, sketch, expires, row, active, signups, behind, events, faults>>

SetDaily(p) ==
    /\ job[p].at = "setdau"
    /\ row' = [row EXCEPT ![job[p].day].dau = job[p].dau]
    /\ job' = [job EXCEPT ![p] = [at |-> "setmau", day |-> job[p].day, dau |-> job[p].dau,
                                  mau |-> job[p].mau]]
    /\ UNCHANGED <<today, wire, sketch, expires, active, signups, behind, events, faults>>

(* The pair is complete: it is behind when someone was active, or another  *)
(* pod wrote, since the counts, or when the rollup took so many days that  *)
(* the oldest sketch of its window may have expired before it was counted. *)
SetMonthly(p) ==
    LET d == job[p].day
        r == [row[d] EXCEPT !.mau = job[p].mau]
    IN  /\ job[p].at = "setmau"
        /\ row' = [row EXCEPT ![d] = r]
        /\ job' = [job EXCEPT ![p] = Idle]
        /\ behind' = IF /\ job[p].dau = Cardinality(active[d]) /\ r.dau = job[p].dau
                        /\ (\A q \in Pods \ {p} : job[q] = Idle) /\ today <= d + 1 + Slack
                     THEN behind \ {d} ELSE behind \cup {d}
        /\ UNCHANGED <<today, wire, sketch, expires, active, signups, events, faults>>

(* The rollup fails between two calls; the next minute tries again.        *)
RollupFails(p) ==
    /\ job[p] # Idle /\ faults < MaxFaults
    /\ faults' = faults + 1
    /\ job' = [job EXCEPT ![p] = Idle]
    /\ behind' = behind \cup {job[p].day}
    /\ UNCHANGED <<today, wire, sketch, expires, row, active, signups, events>>

(* Midnight: sketches expire, and the day that ended is never rolled up    *)
(* again.                                                                  *)
Midnight ==
    /\ today < MaxDay
    /\ today' = today + 1
    /\ sketch' = [d \in Days |-> IF d <= today /\ expires[d] < today' THEN {} ELSE sketch[d]]
    /\ UNCHANGED <<wire, expires, row, job, active, signups, behind, events, faults>>

(* Purge: rows older than the retention.                                   *)
Purge ==
    /\ \E d \in Days : d < today - Retention /\ row[d] # NoRow
    /\ row' = [d \in Days |-> IF d < today - Retention THEN NoRow ELSE row[d]]
    /\ UNCHANGED <<today, wire, sketch, expires, job, active, signups, behind, events, faults>>

Next ==
    \/ Midnight \/ Purge
    \/ \E e \in Users \cup {"signup"} : Emit(e) \/ Ingest(e)
    \/ \E p \in Pods :
        CountDaily(p) \/ CountMonthly(p) \/ SetDaily(p) \/ SetMonthly(p) \/ RollupFails(p)

-----------------------------------------------------------------------------
DailyRow == [signups : Nat \cup {-1}, dau : Nat \cup {-1}, mau : Nat \cup {-1}]

TypeOK ==
    /\ today \in Days /\ wire \subseteq Users \cup {"signup"}
    /\ active \in [Days -> SUBSET Users] /\ signups \in [Days -> Nat]
    /\ row \in [Days -> DailyRow]

Kept(d) == d >= today - Retention

(* The users who were really active in the window of a day.                *)
Month(d) == UNION {active[e] : e \in Trailing(d)}

(* A row never counts more users than were active, and counts them all     *)
(* once a rollup that nothing disturbed has written it, though the older   *)
(* sketches of the window expire; sign-ups are neither lost nor doubled    *)
(* once consumed, for as long as the row is kept.                          *)
RowExact(d) ==
    /\ row[d].dau <= Cardinality(active[d])
    /\ row[d].mau <= Cardinality(Month(d))
    /\ Kept(d) => signups[d] = IF row[d].signups = -1 THEN 0 ELSE row[d].signups
    /\ row[d].mau >= 0 /\ d \notin behind
        => row[d].dau = Cardinality(active[d]) /\ row[d].mau = Cardinality(Month(d))

RowsExact == \A d \in Days : RowExact(d)

AnalyticsSound == TypeOK /\ RowsExact

(* A sketch holds the users of its day for as long as a window needs it.   *)
SketchFits(d) ==
    /\ sketch[d] \subseteq active[d] /\ expires[d] \in Int
    /\ today <= d + Ttl => sketch[d] = active[d]
    /\ active[d] # {} => expires[d] = d + Ttl

(* A day to come has neither users nor a row.                              *)
Ahead == \A d \in Days : d > today => active[d] = {} /\ row[d].mau = -1

(* What a rollup has counted: never too many, and all of them unless its   *)
(* day is known to be behind or the rollup has outlived a sketch.          *)
JobFits(j) ==
    /\ j.at \in {"idle", "month", "setdau", "setmau"}
    /\ j.at # "idle" =>
        /\ j.day \in 0..today /\ j.dau \in Nat /\ j.dau <= Cardinality(active[j.day])
        /\ j.dau # Cardinality(active[j.day]) => j.day \in behind
    /\ j.at \in {"setdau", "setmau"} =>
        /\ j.mau \in Nat /\ j.mau <= Cardinality(Month(j.day))
        /\ j.dau = Cardinality(active[j.day]) /\ today <= j.day + 1 + Slack
            => j.mau = Cardinality(Month(j.day))

(* The inductive strengthening.                                            *)
AnalyticsInv ==
    /\ AnalyticsSound /\ Ahead /\ \A d \in Days : SketchFits(d)
    /\ sketch = [d \in Days |-> sketch[d]] /\ expires = [d \in Days |-> expires[d]]
    /\ job = [p \in Pods |-> job[p]] /\ \A p \in Pods : JobFits(job[p])
=============================================================================
