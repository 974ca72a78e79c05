----------------------------- MODULE Recording -----------------------------
(***************************************************************************)
(* Recording consent in a live session (breakout/service.go,               *)
(* breakout/domain/breakout.go, breakout/adapters/pg.go).  A request       *)
(* clears the answers, then opens the window, in two writes; whoever takes *)
(* part answers at any time.  Each answer carries the number of the        *)
(* requests its handler had seen opened when the user gave it: a history.  *)
(***************************************************************************)
EXTENDS Integers, FiniteSets

CONSTANTS Users, Handlers, MaxRequests, MaxFaults

VARIABLES
    consent,   \* recording_consents: answer and the request it was given in
    recording, \* live_sessions.recording: "off", "requested" or "active"
    job,       \* what each running handler does next
    resets,    \* how often the answers were cleared
    crossed,   \* history: users whose answer was on its way at a clearing
    faults

vars == <<consent, recording, job, resets, crossed, faults>>

NoAnswer == [is |-> "none", in |-> 0]
Idle == [at |-> "idle"]

Init ==
    /\ consent = [u \in Users |-> NoAnswer]
    /\ recording = "off"
    /\ job = [h \in Handlers |-> Idle]
    /\ resets = 0 /\ crossed = {} /\ faults = 0

Become(h, next) == job' = [job EXCEPT ![h] = next]

Decide(h, next) ==
    /\ job[h] = Idle
    /\ Become(h, next)
    /\ UNCHANGED <<consent, recording, resets, crossed, faults>>

RequestRecording(h) == resets < MaxRequests /\ Decide(h, [at |-> "reset"])

(* Mutant of Cleared: refusals are kept, as if they were standing.         *)
ClearedYes == [u \in Users |-> IF consent[u].is = "no" THEN consent[u] ELSE NoAnswer]

Cleared == [u \in Users |-> NoAnswer]

ResetConsents(h) ==
    /\ job[h].at = "reset" /\ resets < MaxRequests
    /\ consent' = Cleared
    /\ resets' = resets + 1
    /\ crossed' = {u \in Users : \E g \in Handlers : job[g].at = "consent" /\ job[g].u = u}
    /\ Become(h, [at |-> "record", to |-> "requested"])
    /\ UNCHANGED <<recording, faults>>

(* StartRecording and StopRecording write the state and read no answer.    *)
StartRecording(h) == Decide(h, [at |-> "record", to |-> "active"])

StopRecording(h) == Decide(h, [at |-> "record", to |-> "off"])

SetRecording(h) ==
    /\ job[h].at = "record"
    /\ recording' = job[h].to
    /\ Become(h, Idle)
    /\ UNCHANGED <<consent, resets, crossed, faults>>

Consent(h, u, answer) ==
    Decide(h, [at |-> "consent", u |-> u, row |-> [is |-> answer, in |-> resets]])

SetConsent(h) ==
    /\ job[h].at = "consent"
    /\ consent' = [consent EXCEPT ![job[h].u] = job[h].row]
    /\ Become(h, Idle)
    /\ UNCHANGED <<recording, resets, crossed, faults>>

(* Store.ListConsents: a row is an answer.                                 *)
ListConsents == {u \in Users : consent[u].is # "none"}

Tally(answer) ==
    IF answer = "none" THEN Cardinality(Users \ ListConsents)
    ELSE Cardinality({u \in ListConsents : consent[u].is = answer})

Abandon(h) ==
    /\ job[h] # Idle /\ faults < MaxFaults
    /\ faults' = faults + 1
    /\ Become(h, Idle)
    /\ UNCHANGED <<consent, recording, resets, crossed>>

Next ==
    \E h \in Handlers :
        \/ RequestRecording(h) \/ ResetConsents(h) \/ StartRecording(h) \/ StopRecording(h)
        \/ SetRecording(h) \/ SetConsent(h) \/ Abandon(h)
        \/ \E u \in Users, a \in {"yes", "no"} : Consent(h, u, a)

-----------------------------------------------------------------------------
TypeOK ==
    /\ consent \in [Users -> [is : {"none", "yes", "no"}, in : 0..MaxRequests]]
    /\ recording \in {"off", "requested", "active"}
    /\ resets \in 0..MaxRequests

(* Everybody is asked again: an answer the tally counts was given to the   *)
(* last request, save the answer of a user that was on its way while the   *)
(* answers were cleared; the tally never counts a user twice.              *)
AskedAgain ==
    /\ \A u \in Users : consent[u].is # "none" => consent[u].in = resets \/ u \in crossed
    /\ Tally("yes") + Tally("no") + Tally("none") = Cardinality(Users)

RecordingSound == TypeOK /\ AskedAgain

(* An answer on its way is to the last request, or was at its clearing.    *)
JobFits(j) ==
    /\ j.at \in {"idle", "reset", "record", "consent"}
    /\ j.at = "record" => j.to \in {"off", "requested", "active"}
    /\ j.at = "consent" => /\ j.u \in Users
                           /\ j.row \in [is : {"yes", "no"}, in : 0..MaxRequests]
                           /\ j.row.in = resets \/ j.u \in crossed

(* The inductive invariant.                                                *)
RecordingInv ==
    /\ RecordingSound
    /\ job = [h \in Handlers |-> job[h]] /\ \A h \in Handlers : JobFits(job[h])
=============================================================================
