---------------------------- MODULE NotifyPrefs ----------------------------
(***************************************************************************)
(* One user's reminders and notification routing (notifyprefs/service.go,  *)
(* notifyprefs/domain/prefs.go, notifyprefs/adapters/pg.go).  The cap on   *)
(* reminders is counted before the insert; a due scan reads the rows and   *)
(* then marks them one by one.  Minutes of the day are counted modulo Day. *)
(***************************************************************************)
EXTENDS Integers, FiniteSets

CONSTANTS Reminders, Handlers, Cap, Day, MaxFaults

Off == -1
Minutes == 0..(Day - 1)

VARIABLES
    reminder,  \* scheduled_notifications: "none", "waiting", "due", "fired", "canceled"
    prefs,     \* notification_prefs: no row, or quiet_start and quiet_end or Off
    snoozed,   \* conversation_snooze: is the conversation snoozed now
    job,       \* what each running handler has read and does next
    fired,     \* history: how often each reminder was handed out
    crossed,   \* history: reminders read by two scans, or canceled while read
    over,      \* history: an insert whose count another insert had outdated
    faults

vars == <<reminder, prefs, snoozed, job, fired, crossed, over, faults>>

Idle == [at |-> "idle"]
Listed == {r \in Reminders : reminder[r] \in {"waiting", "due", "fired"}}
Scanning(r) == \E h \in Handlers : job[h].at = "mark" /\ r \in job[h].due

Init ==
    /\ reminder = [r \in Reminders |-> "none"]
    /\ prefs = {} /\ snoozed = FALSE
    /\ job = [h \in Handlers |-> Idle]
    /\ fired = [r \in Reminders |-> 0]
    /\ crossed = {} /\ over = FALSE /\ faults = 0

Become(h, next) == job' = [job EXCEPT ![h] = next]

-----------------------------------------------------------------------------
(* Mutant of BelowCap: one too many.                                       *)
BelowCapPlusOne == Cardinality(Listed) <= Cap

BelowCap == Cardinality(Listed) < Cap

(* ScheduleNotification counts all the user's rows, fired ones too.        *)
Schedule(h, r) ==
    /\ job[h] = Idle /\ reminder[r] = "none"
    /\ \A g \in Handlers : job[g].at = "create" => job[g].r # r
    /\ BelowCap
    /\ Become(h, [at |-> "create", r |-> r])
    /\ over' = (over \/ \E g \in Handlers : job[g].at = "create")
    /\ UNCHANGED <<reminder, prefs, snoozed, fired, crossed, faults>>

CreateScheduled(h) ==
    /\ job[h].at = "create"
    /\ reminder' = [reminder EXCEPT ![job[h].r] = "waiting"]
    /\ Become(h, Idle)
    /\ UNCHANGED <<prefs, snoozed, fired, crossed, over, faults>>

DeleteScheduled(r) == reminder' = [reminder EXCEPT ![r] = "canceled"]

CancelScheduled(r) ==
    /\ r \in Listed
    /\ DeleteScheduled(r)
    /\ crossed' = IF Scanning(r) THEN crossed \cup {r} ELSE crossed
    /\ UNCHANGED <<prefs, snoozed, job, fired, over, faults>>

FallsDue(r) ==
    /\ reminder[r] = "waiting"
    /\ reminder' = [reminder EXCEPT ![r] = "due"]
    /\ UNCHANGED <<prefs, snoozed, job, fired, crossed, over, faults>>

(* Mutant of Due: a reminder handed out stays due.                         *)
DueOrFired == {r \in Reminders : reminder[r] \in {"due", "fired"} /\ fired[r] < 2}

Due == {r \in Reminders : reminder[r] = "due"}

(* FireDue reads the due rows and marks them in turn, asking nothing; what *)
(* it has marked it hands out, and an error ends the round.                *)
FireDue(h) ==
    /\ job[h] = Idle /\ Due # {}
    /\ Become(h, [at |-> "mark", due |-> Due])
    /\ crossed' = crossed \cup {r \in Due : Scanning(r)}
    /\ UNCHANGED <<reminder, prefs, snoozed, fired, over, faults>>

MarkFired(h, r) ==
    /\ job[h].at = "mark" /\ r \in job[h].due
    /\ reminder' = [reminder EXCEPT ![r] = IF @ = "canceled" THEN @ ELSE "fired"]
    /\ fired' = [fired EXCEPT ![r] = @ + 1]
    /\ Become(h, IF job[h].due = {r} THEN Idle ELSE [job[h] EXCEPT !.due = @ \ {r}])
    /\ UNCHANGED <<prefs, snoozed, crossed, over, faults>>

-----------------------------------------------------------------------------
(* SetPrefs: quiet hours are two minutes of the day or both off.           *)
Validate(q) == (q.from = Off) = (q.to = Off)

UpsertPrefs(q) == prefs' = {q}

SetPrefs(q) ==
    /\ Validate(q)
    /\ UpsertPrefs(q)
    /\ UNCHANGED <<reminder, snoozed, job, fired, crossed, over, faults>>

(* GetPrefs: who never stored any has no quiet hours.                      *)
GetPrefs == IF prefs = {} THEN [from |-> Off, to |-> Off] ELSE CHOOSE q \in prefs : TRUE

(* Store.SetSnooze and ClearSnooze.                                        *)
StoreSnooze(on) == snoozed' = on

(* SetSnooze to a later time, or to one that is past, which clears it like *)
(* ClearSnooze; a snooze also ends by itself.                              *)
SetSnooze(on) ==
    /\ StoreSnooze(on)
    /\ UNCHANGED <<reminder, prefs, job, fired, crossed, over, faults>>

(* Mutant of InQuietHours: a window over midnight is taken for a day's.    *)
InQuietHoursSameDay(q, m) ==
    q.from # Off /\ (q.from = q.to \/ (m >= q.from /\ m < q.to))

InQuietHours(q, m) ==
    /\ q.from # Off
    /\ \/ q.from = q.to
       \/ q.from < q.to /\ m >= q.from /\ m < q.to
       \/ q.from > q.to /\ (m >= q.from \/ m < q.to)

(* Route: a call reaches the user through snooze and quiet hours.          *)
Route(kind, m) == kind = "call" \/ (~snoozed /\ ~InQuietHours(GetPrefs, m))

Abandon(h) ==
    /\ job[h] # Idle /\ faults < MaxFaults
    /\ faults' = faults + 1
    /\ Become(h, Idle)
    /\ UNCHANGED <<reminder, prefs, snoozed, fired, crossed, over>>

Next ==
    \/ \E from, to \in Minutes \cup {Off} : SetPrefs([from |-> from, to |-> to])
    \/ \E on \in BOOLEAN : SetSnooze(on)
    \/ \E r \in Reminders : CancelScheduled(r) \/ FallsDue(r)
    \/ \E h \in Handlers :
        \/ CreateScheduled(h) \/ FireDue(h) \/ Abandon(h)
        \/ \E r \in Reminders : Schedule(h, r) \/ MarkFired(h, r)

-----------------------------------------------------------------------------
TypeOK ==
    /\ reminder \in [Reminders -> {"none", "waiting", "due", "fired", "canceled"}]
    /\ prefs \subseteq [from : Minutes \cup {Off}, to : Minutes \cup {Off}]
    /\ Cardinality(prefs) <= 1

(* A reminder fires once, and not after it was canceled, unless two scans  *)
(* or a scan and the cancellation overlapped.                              *)
FiresOnce ==
    \A r \in Reminders \ crossed :
        IF reminder[r] = "canceled" THEN fired[r] <= 1 ELSE fired[r] = (IF reminder[r] = "fired" THEN 1 ELSE 0)

(* The cap holds unless two inserts had counted the same rows.             *)
CapHolds == ~over => Cardinality(Listed) <= Cap

(* Quiet hours are the minutes one passes walking from the start to the    *)
(* end, around midnight if need be, and a call is routed through them.     *)
QuietIsTheWayRound ==
    \A m \in Minutes, q \in {GetPrefs} :
        /\ InQuietHours(q, m) <=>
             /\ q.from # Off
             /\ \/ q.from = q.to
                \/ (m - q.from) % Day < (q.to - q.from) % Day
        /\ Route("call", m) /\ (Route("message", m) => ~snoozed)

NotifyPrefsSound == TypeOK /\ FiresOnce /\ CapHolds /\ QuietIsTheWayRound

(* What a handler has read.                                                *)
JobFits(j) ==
    /\ j.at \in {"idle", "create", "mark"}
    /\ j.at = "create" => j.r \in Reminders
    /\ j.at = "mark" => j.due \subseteq Reminders

(* A reminder is inserted by one handler and was not there before; while   *)
(* no insert was outdated, one handler inserts and there is room for it.   *)
CreatesFresh ==
    \A h \in Handlers : job[h].at = "create" =>
        /\ reminder[job[h].r] = "none"
        /\ \A g \in Handlers : job[g].at = "create" /\ job[g].r = job[h].r => g = h
        /\ ~over => Cardinality(Listed) < Cap /\ \A g \in Handlers : job[g].at = "create" => g = h

(* What a scan has read was due, and unless it was crossed it is still due *)
(* and with no other scan.                                                 *)
ScansAlone ==
    \A h \in Handlers, r \in Reminders : job[h].at = "mark" /\ r \in job[h].due =>
        /\ reminder[r] \in {"due", "fired", "canceled"}
        /\ r \notin crossed => /\ reminder[r] = "due"
                               /\ \A g \in Handlers : job[g].at = "mark" /\ r \in job[g].due => g = h

(* The inductive invariant.                                                *)
NotifyPrefsInv ==
    /\ NotifyPrefsSound
    /\ \A q \in prefs : Validate(q)
    /\ fired \in [Reminders -> Nat]
    /\ job = [h \in Handlers |-> job[h]] /\ \A h \in Handlers : JobFits(job[h])
    /\ CreatesFresh /\ ScansAlone
=============================================================================
