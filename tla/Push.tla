------------------------------- MODULE Push -------------------------------
(***************************************************************************)
(* Push dispatch: the durable stream, its consumers and their circuit      *)
(* breakers (notify/service.go, notify/breaker.go, notify/adapters/).      *)
(* Each pod handles one message at a time and has a breaker of its own.    *)
(* The stream, external, hands a message out at most MaxDeliver times and  *)
(* again when its acknowledgement is late; the service parks a dispatch on *)
(* the dead-letter subject once MaxDeliveries attempts have failed.        *)
(***************************************************************************)
EXTENDS Integers, FiniteSets

CONSTANTS Pods, Pushes, Threshold, MaxDeliveries, MaxFaults

MaxDeliver == MaxDeliveries + 1

VARIABLES
    push,      \* stream: state and number of deliveries of each message
    token,     \* push_tokens and what the provider thinks of each
    breaker,   \* per pod: state, failures in the window, cooldown over
    job,       \* per pod: the message being handled and how far
    blocked,   \* history: pushes an open breaker sent back
    wedger,    \* history: pods whose probe ended without an outcome
    faults

vars == <<push, token, breaker, job, blocked, wedger, faults>>

Idle == [at |-> "idle"]
Closed == [state |-> "closed", failures |-> 0, cooled |-> FALSE]

Init ==
    /\ push = [m \in Pushes |-> [state |-> "none", deliveries |-> 0]]
    /\ token \in [Pushes -> {"good", "bad"}]
    /\ breaker = [p \in Pods |-> Closed]
    /\ job = [p \in Pods |-> Idle]
    /\ blocked = {} /\ wedger = {}
    /\ faults = 0

Become(p, next) == job' = [job EXCEPT ![p] = next]
Fault == faults < MaxFaults /\ faults' = faults + 1

Dispatch(m) ==
    /\ push[m].state = "none"
    /\ push' = [push EXCEPT ![m].state = "queued"]
    /\ UNCHANGED <<token, breaker, job, blocked, wedger, faults>>

Deliver(p, m) ==
    /\ job[p] = Idle /\ push[m].state = "queued" /\ push[m].deliveries < MaxDeliver
    /\ push' = [push EXCEPT ![m] = [state |-> "out", deliveries |-> @.deliveries + 1]]
    /\ Become(p, [at |-> "resolve", m |-> m, n |-> push[m].deliveries + 1])
    /\ UNCHANGED <<token, breaker, blocked, wedger, faults>>

(* AckWait passes: the message is up for delivery though a pod has it.     *)
AckWait(m) ==
    /\ push[m].state = "out" /\ push[m].deliveries < MaxDeliver /\ Fault
    /\ push' = [push EXCEPT ![m].state = "queued"]
    /\ UNCHANGED <<token, breaker, job, blocked, wedger>>

-----------------------------------------------------------------------------
(* Mutant of RetryOrDead: a failed dispatch is always sent back.           *)
RetryAlways(n) == "nack"

RetryOrDead(n) == IF n >= MaxDeliveries THEN "dead" ELSE "nack"

Settle(p, how) == Become(p, [at |-> how, m |-> job[p].m])

(* Resolve: no token, nothing to deliver; an error is retried.             *)
Resolve(p) ==
    /\ job[p].at = "resolve"
    /\ \/ /\ token[job[p].m] = "deleted"
          /\ Settle(p, "ack") /\ UNCHANGED faults
       \/ /\ Fault
          /\ Settle(p, RetryOrDead(job[p].n))
       \/ /\ token[job[p].m] # "deleted"
          /\ Become(p, [job[p] EXCEPT !.at = "allow"]) /\ UNCHANGED faults
    /\ UNCHANGED <<push, token, breaker, blocked, wedger>>

(* Allow: open until the cooldown is over, then one probe; half-open until *)
(* the probe's outcome is recorded.                                        *)
Allow(p) ==
    LET b == breaker[p]
        pass == b.state = "closed" \/ (b.state = "open" /\ b.cooled)
    IN  /\ job[p].at = "allow"
        /\ IF pass
             THEN /\ Become(p, [job[p] EXCEPT !.at = "send"])
                  /\ breaker' = [breaker EXCEPT ![p].state =
                                   IF b.state = "open" THEN "half" ELSE @]
                  /\ UNCHANGED blocked
             ELSE /\ Settle(p, "nack")
                  /\ blocked' = blocked \cup {job[p].m}
                  /\ UNCHANGED breaker
        /\ UNCHANGED <<push, token, wedger, faults>>

(* Mutant of Recorded: a failed probe does not open the breaker again.     *)
RecordedInWindow(b) ==
    IF b.failures + 1 >= Threshold /\ b.state # "half"
      THEN [state |-> "open", failures |-> Threshold, cooled |-> FALSE]
      ELSE [b EXCEPT !.failures = IF @ < Threshold THEN @ + 1 ELSE @]

(* Record of a failure: a failed probe opens again; otherwise it joins the *)
(* failures in the window, and enough of them open.                        *)
Recorded(b) ==
    IF b.state = "half" \/ b.failures + 1 >= Threshold
      THEN [state |-> "open", cooled |-> FALSE,
            failures |-> IF b.state = "half" THEN b.failures ELSE Threshold]
      ELSE [b EXCEPT !.failures = @ + 1]

(* Send: taken; the token refused, which is recorded nowhere; or failed.   *)
Send(p) ==
    LET m == job[p].m
    IN  /\ job[p].at = "send"
        /\ \/ /\ token[m] = "good"
              /\ breaker' = [breaker EXCEPT ![p] = Closed]
              /\ Settle(p, "ack")
              /\ UNCHANGED <<token, wedger>>
           \/ /\ token[m] = "bad"
              /\ token' = [token EXCEPT ![m] = "deleted"]
              /\ wedger' = IF breaker[p].state = "half" THEN wedger \cup {p} ELSE wedger
              /\ Settle(p, "ack")
              /\ UNCHANGED breaker
           \/ /\ breaker' = [breaker EXCEPT ![p] = Recorded(@)]
              /\ Settle(p, RetryOrDead(job[p].n))
              /\ UNCHANGED <<token, wedger>>
        /\ UNCHANGED <<push, blocked, faults>>

-----------------------------------------------------------------------------
(* The consumer settles: acked, sent back, or parked and acked.  The       *)
(* stream stops handing out a message that has used up its deliveries.     *)
Ack(p) ==
    /\ job[p].at = "ack"
    /\ push' = [push EXCEPT ![job[p].m].state = "done"]
    /\ Become(p, Idle)
    /\ UNCHANGED <<token, breaker, blocked, wedger, faults>>

SentBack(r) ==
    IF r.state # "out" THEN r
    ELSE [r EXCEPT !.state = IF r.deliveries < MaxDeliver THEN "queued" ELSE "given_up"]

Nak(p) ==
    /\ job[p].at = "nack"
    /\ push' = [push EXCEPT ![job[p].m] = SentBack(@)]
    /\ Become(p, Idle)
    /\ UNCHANGED <<token, breaker, blocked, wedger, faults>>

Park(p) ==
    /\ job[p].at = "dead"
    /\ \/ push' = [push EXCEPT ![job[p].m].state = "parked"] /\ UNCHANGED faults
       \/ Fault /\ push' = [push EXCEPT ![job[p].m] = SentBack(@)]
    /\ Become(p, Idle)
    /\ UNCHANGED <<token, breaker, blocked, wedger>>

CooldownOver(p) ==
    /\ breaker[p].state = "open" /\ ~breaker[p].cooled
    /\ breaker' = [breaker EXCEPT ![p].cooled = TRUE]
    /\ UNCHANGED <<push, token, job, blocked, wedger, faults>>

(* The window moves past the recorded failures.                            *)
WindowPasses(p) ==
    /\ breaker[p].state = "closed" /\ breaker[p].failures > 0
    /\ breaker' = [breaker EXCEPT ![p].failures = 0]
    /\ UNCHANGED <<push, token, job, blocked, wedger, faults>>

Next ==
    \/ \E m \in Pushes : Dispatch(m) \/ AckWait(m)
    \/ \E p \in Pods :
        \/ \E m \in Pushes : Deliver(p, m)
        \/ Resolve(p) \/ Allow(p) \/ Send(p) \/ Ack(p) \/ Nak(p) \/ Park(p)
        \/ CooldownOver(p) \/ WindowPasses(p)

Spec == Init /\ [][Next]_vars

-----------------------------------------------------------------------------
TypeOK ==
    /\ push \in [Pushes -> [state : {"none", "queued", "out", "done", "parked", "given_up"},
                            deliveries : 0..MaxDeliver]]
    /\ token \in [Pushes -> {"good", "bad", "deleted"}]
    /\ breaker \in [Pods -> [state : {"closed", "open", "half"}, failures : 0..Threshold,
                             cooled : BOOLEAN]]

(* A push is given up, neither delivered nor parked, only if an open       *)
(* breaker sent it back or something besides the provider failed.          *)
DropNeedsBreaker ==
    \A m \in Pushes : push[m].state = "given_up" => m \in blocked \/ faults > 0

(* The breaker recovers: it stays half-open with no probe under way only   *)
(* after a probe whose token was refused.                                  *)
WedgeNeedsDeadToken ==
    \A p \in Pods : breaker[p].state = "half" /\ job[p].at # "send" => p \in wedger

PushSound == TypeOK /\ DropNeedsBreaker /\ WedgeNeedsDeadToken

(* What a pod holds, and how far it is with it.                            *)
JobFits(j) ==
    /\ j.at \in {"idle", "resolve", "allow", "send", "ack", "nack", "dead"}
    /\ j.at # "idle" => j.m \in Pushes
    /\ j.at \in {"resolve", "allow", "send"} => j.n \in 1..MaxDeliver

(* While nothing besides the provider has failed, a message that is out is *)
(* with one pod, which knows how often it was handed out and sends it back *)
(* only while it will be handed out again, or behind the breaker.          *)
HeldOnce ==
    faults = 0 =>
        \A p \in Pods : job[p].at # "idle" =>
            /\ push[job[p].m].state = "out"
            /\ \A q \in Pods : job[q].at # "idle" /\ job[q].m = job[p].m => q = p
            /\ job[p].at \in {"resolve", "allow", "send"} => job[p].n = push[job[p].m].deliveries
            /\ job[p].at = "nack" => job[p].m \in blocked \/ push[job[p].m].deliveries < MaxDeliver

(* The inductive invariant.                                                *)
PushInv ==
    /\ PushSound
    /\ job = [p \in Pods |-> job[p]] /\ \A p \in Pods : JobFits(job[p])
    /\ HeldOnce /\ faults \in Nat

(* What service.go says of Handle: whatever the provider does, a push is   *)
(* delivered, kept or parked, and never dropped.                           *)
OutageNeverDrops ==
    faults = 0 => \A m \in Pushes : push[m].state # "given_up"
=============================================================================
