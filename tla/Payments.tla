------------------------------ MODULE Payments ------------------------------
(***************************************************************************)
(* Payments of one user for one entitlement (payments/service.go,          *)
(* payments/domain/state.go, payments/adapters/pg.go, admin/payments.go)   *)
(* and the processor they are settled by.  The processor's webhooks arrive *)
(* more than once and in any order; a handler may die between two calls.   *)
(*                                                                         *)
(* startPurchase never writes the reference the processor answers with, so *)
(* a row has one only if something else filled the column in, as the       *)
(* tests do (linkRef): Linked are the payments for which that is so.       *)
(***************************************************************************)
EXTENDS Integers, FiniteSets

CONSTANTS
    Payments,
    Linked,
    Handlers,
    MaxFaults

VARIABLES
    status,     \* payments.status, or "none"
    psp,        \* what the processor has done: "none", "open", "paid", ...
    events,     \* webhooks the processor has sent: <<payment, status>>
    processed,  \* payment_events
    sub,        \* subscriptions: an active row, and a canceled one with time left
    grants,     \* history: how often each payment granted the entitlement
    audited,    \* admin audit entries: payments refunded
    job,        \* what each running handler has read and does next
    faults

vars == <<status, psp, events, processed, sub, grants, audited, job, faults>>

Idle == [at |-> "idle"]

Init ==
    /\ status = [p \in Payments |-> "none"]
    /\ psp = [p \in Payments |-> "none"]
    /\ events = {} /\ processed = {}
    /\ sub = [active |-> FALSE, kept |-> FALSE]
    /\ grants = [p \in Payments |-> 0]
    /\ audited = {}
    /\ job = [h \in Handlers |-> Idle]
    /\ faults = 0

Become(h, next) == job' = [job EXCEPT ![h] = next]

(* Mutant of CreatePayment: the processor is called first.                 *)
CreatePaymentLate(h, p) ==
    /\ job[h] = Idle /\ status[p] = "none" /\ psp[p] = "none"
    /\ psp' = [psp EXCEPT ![p] = "open"]
    /\ Become(h, [at |-> "checkout", p |-> p])
    /\ UNCHANGED <<status, events, processed, sub, grants, audited, faults>>

(* Store.CreatePayment: the row has no reference of the processor's.       *)
Inserted(p) == status' = [status EXCEPT ![p] = "pending"]

(* startPurchase records the intent before it calls the processor.         *)
CreatePayment(h, p) ==
    /\ job[h] = Idle /\ status[p] = "none"
    /\ Inserted(p)
    /\ Become(h, [at |-> "checkout", p |-> p])
    /\ UNCHANGED <<psp, events, processed, sub, grants, audited, faults>>

(* CreateCheckout: after an error nobody knows what the processor did, and *)
(* the row stays pending.                                                  *)
CreateCheckout(h) ==
    /\ job[h].at = "checkout"
    /\ \/ psp' = [psp EXCEPT ![job[h].p] = "open"]
       \/ UNCHANGED psp
    /\ Become(h, Idle)
    /\ UNCHANGED <<status, events, processed, sub, grants, audited, faults>>

(* The processor settles an intent or, at its own console, refunds it.     *)
Settle(p, from, to, event) ==
    /\ psp[p] = from
    /\ psp' = [psp EXCEPT ![p] = to]
    /\ events' = events \cup {<<p, event>>}
    /\ UNCHANGED <<status, processed, sub, grants, audited, job, faults>>

Processor(p) ==
    \/ Settle(p, "open", "paid", "succeeded")
    \/ Settle(p, "open", "failed", "failed")
    \/ Settle(p, "paid", "refunded", "refunded")

(* Mutant of Marks: the event is recorded, new or not.                     *)
MarksAgain(e) == TRUE

(* MarkEventProcessed: the primary key lets one delivery of an event pass. *)
Marks(e) == e \notin processed

(* HandleWebhook up to the gate.  A duplicate is acknowledged and dropped. *)
HandleWebhook(h, e) ==
    /\ job[h] = Idle /\ e \in events /\ Marks(e)
    /\ processed' = processed \cup {e}
    /\ Become(h, [at |-> "lookup", e |-> e])
    /\ UNCHANGED <<status, psp, events, sub, grants, audited, faults>>

(* domain.CanTransition.                                                   *)
CanTransition(from, to) ==
    \/ from = "pending" /\ to \in {"succeeded", "failed", "canceled"}
    \/ from = "succeeded" /\ to = "refunded"

(* GetPaymentByPSPRef finds only a row that has its reference.             *)
FoundByPSPRef(p) == p \in Linked /\ status[p] # "none"

(* An unknown reference and an event that is out of order are ignored and  *)
(* acknowledged.                                                           *)
LookUp(h) ==
    LET p == job[h].e[1]
        to == job[h].e[2]
    IN  /\ job[h].at = "lookup"
        /\ IF FoundByPSPRef(p) /\ CanTransition(status[p], to)
           THEN Become(h, [at |-> "update", e |-> job[h].e])
           ELSE Become(h, Idle)
        /\ UNCHANGED <<status, psp, events, processed, sub, grants, audited, faults>>

(* Store.UpdateStatus: status and entitlement in one transaction.  A       *)
(* renewal extends the row there is.                                       *)
UpdateStatus(h) ==
    LET p == job[h].e[1]
        to == job[h].e[2]
    IN  /\ job[h].at = "update"
        /\ status' = [status EXCEPT ![p] = to]
        /\ IF to = "succeeded"
           THEN /\ sub' = [sub EXCEPT !.active = TRUE]
                /\ grants' = [grants EXCEPT ![p] = @ + 1]
           ELSE UNCHANGED <<sub, grants>>
        /\ Become(h, Idle)
        /\ UNCHANGED <<psp, events, processed, audited, faults>>

(* The handler fails or dies after the gate: the processor's retry will be *)
(* taken for a duplicate.                                                  *)
Abandon(h) ==
    /\ job[h].at \in {"lookup", "update", "settle", "audit"} /\ faults < MaxFaults
    /\ faults' = faults + 1
    /\ Become(h, Idle)
    /\ UNCHANGED <<status, psp, events, processed, sub, grants, audited>>

(* AdminRefund reads the status, asks the processor, writes the status.    *)
AdminRefund(h, p) ==
    /\ job[h] = Idle /\ CanTransition(status[p], "refunded")
    /\ Become(h, [at |-> "refund", p |-> p])
    /\ UNCHANGED <<status, psp, events, processed, sub, grants, audited, faults>>

(* A refund the processor has made already is refused by it.               *)
PspRefund(h) ==
    LET p == job[h].p
    IN  /\ job[h].at = "refund"
        /\ IF psp[p] = "paid"
           THEN /\ psp' = [psp EXCEPT ![p] = "refunded"]
                /\ events' = events \cup {<<p, "refunded">>}
                /\ Become(h, [at |-> "settle", p |-> p])
           ELSE UNCHANGED <<psp, events>> /\ Become(h, Idle)
        /\ UNCHANGED <<status, processed, sub, grants, audited, faults>>

SettleRefund(h) ==
    /\ job[h].at = "settle"
    /\ status' = [status EXCEPT ![job[h].p] = "refunded"]
    /\ Become(h, [at |-> "audit", p |-> job[h].p])
    /\ UNCHANGED <<psp, events, processed, sub, grants, audited, faults>>

(* PaymentsConsole.Refund audits after the money has moved.                *)
AppendAudit(h) ==
    /\ job[h].at = "audit"
    /\ audited' = audited \cup {job[h].p}
    /\ Become(h, Idle)
    /\ UNCHANGED <<status, psp, events, processed, sub, grants, faults>>

(* Store.CancelSubscription: canceled_at is set, the rest stays.           *)
Canceled == [active |-> FALSE, kept |-> TRUE]

CancelSubscription ==
    /\ sub.active
    /\ sub' = Canceled
    /\ UNCHANGED <<status, psp, events, processed, grants, audited, job, faults>>

PeriodEnds ==
    /\ sub.active \/ sub.kept
    /\ sub' = [active |-> FALSE, kept |-> FALSE]
    /\ UNCHANGED <<status, psp, events, processed, grants, audited, job, faults>>

(* Store.ActiveSubscription: a row that is active, not canceled and not    *)
(* past its end.                                                           *)
ActiveSubscription == sub.active

(* HasPremium, HasChannelSubscription.                                     *)
HasAccess == ActiveSubscription

Next ==
    \/ CancelSubscription \/ PeriodEnds
    \/ \E p \in Payments : Processor(p)
    \/ \E h \in Handlers, p \in Payments : CreatePayment(h, p) \/ AdminRefund(h, p)
    \/ \E h \in Handlers, e \in events : HandleWebhook(h, e)
    \/ \E h \in Handlers :
        \/ CreateCheckout(h) \/ LookUp(h) \/ UpdateStatus(h) \/ Abandon(h)
        \/ PspRefund(h) \/ SettleRefund(h) \/ AppendAudit(h)

Spec == Init /\ [][Next]_vars

-----------------------------------------------------------------------------
TypeOK ==
    /\ status \in [Payments -> {"none", "pending", "succeeded", "failed", "refunded"}]
    /\ psp \in [Payments -> {"none", "open", "paid", "failed", "refunded"}]
    /\ processed \subseteq events /\ audited \subseteq Payments
    /\ faults \in 0 .. MaxFaults

(* No money without a record: what the processor knows of is in the table. *)
MoneyRecorded == \A p \in Payments : psp[p] # "none" => status[p] # "none"

(* Redelivered and reordered webhooks never grant twice, never grant what  *)
(* was not paid, and never record a settlement that did not happen.        *)
GrantsArePaid ==
    \A p \in Payments :
        /\ grants[p] <= 1
        /\ grants[p] = 1 => psp[p] \in {"paid", "refunded"}
        /\ status[p] \in {"failed", "refunded"} => psp[p] = status[p]

(* The handler h works on the event e.                                     *)
Holds(h, e) == job[h].at \in {"lookup", "update"} /\ job[h].e = e

Handled(e) == e \in processed /\ \A h \in Handlers : ~Holds(h, e)

(* A payment whose webhook was acknowledged is settled, unless a handler   *)
(* died after it had recorded the event.                                   *)
StuckNeedsFault ==
    \A p \in Linked : Handled(<<p, "succeeded">>) /\ status[p] = "pending" => faults > 0

(* A refund is audited only if the money went back.                        *)
AuditIsTrue == \A p \in audited : psp[p] = "refunded" /\ status[p] = "refunded"

PaymentsSound == TypeOK /\ MoneyRecorded /\ GrantsArePaid /\ StuckNeedsFault /\ AuditIsTrue

Events == Payments \X {"succeeded", "failed", "refunded"}

Jobs ==
    [at : {"checkout", "refund", "settle", "audit"}, p : Payments]
        \cup [at : {"lookup", "update"}, e : Events]

(* A webhook says what the processor did.                                  *)
EventsAreTrue ==
    \A e \in events :
        /\ e \in Events
        /\ psp[e[1]] \in IF e[2] = "succeeded" THEN {"paid", "refunded"} ELSE {e[2]}

(* An event is worked on by one handler, after it was recorded; a payment  *)
(* that granted has no succeeded event left.                               *)
HeldOnce ==
    /\ \A h \in Handlers, e \in Events : Holds(h, e) => e \in processed
    /\ \A h, k \in Handlers, e \in Events : Holds(h, e) /\ Holds(k, e) => h = k
    /\ \A p \in Payments : grants[p] > 0 => Handled(<<p, "succeeded">>)

(* A payment is checked out once, when the processor knows nothing of it.  *)
CheckedOutOnce ==
    /\ \A h \in Handlers : job[h].at = "checkout" =>
           psp[job[h].p] = "none" /\ status[job[h].p] # "none"
    /\ \A h, k \in Handlers :
           job[h].at = "checkout" /\ job[k].at = "checkout" /\ job[h].p = job[k].p => h = k

(* What a handler decided on the status it read is still allowed when it   *)
(* writes.                                                                 *)
WritesAreDue ==
    \A h \in Handlers :
        /\ job[h].at = "update" =>
               status[job[h].e[1]] \in
                   IF job[h].e[2] = "refunded" THEN {"succeeded", "refunded"} ELSE {"pending"}
        /\ job[h].at \in {"refund", "settle"} => status[job[h].p] \in {"succeeded", "refunded"}
        /\ job[h].at \in {"settle", "audit"} => psp[job[h].p] = "refunded"
        /\ job[h].at = "audit" => status[job[h].p] = "refunded"

(* The inductive invariant.                                                *)
PaymentsInv ==
    /\ PaymentsSound
    /\ job \in [Handlers -> {Idle} \cup Jobs] /\ grants \in [Payments -> Nat]
    /\ EventsAreTrue /\ HeldOnce /\ CheckedOutOnce /\ WritesAreDue
=============================================================================
