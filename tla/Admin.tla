------------------------------- MODULE Admin -------------------------------
(***************************************************************************)
(* One report, how it is filed (abuse/service.go), and the admin plane     *)
(* over it and over the user it is about (admin/service.go,                *)
(* admin/payments.go, admin/domain/rbac.go, admin/adapters/pg.go).  Each   *)
(* mutation commits with its audit row, apart from a refund, which happens *)
(* at the payment processor first.  Deleting an account is external: no    *)
(* code of the server does it, the schema and the guards of the admin      *)
(* plane provide for it.                                                   *)
(***************************************************************************)
EXTENDS Integers, Sequences

CONSTANTS Handlers, MaxActions, MaxFaults

VARIABLES
    report,     \* reports.state of the report, "none" before it is filed
    status,     \* users.status of its target
    refunded,   \* has the target's payment been reversed at the processor
    audit,      \* audit_log, as [action, role] rows
    job,        \* what each request has read and does next
    unlogged,   \* history: did a refund's audit row fail
    fate,       \* history: what happened to the target when: the audit length
                \* at its deletion, -1 while it lives
    faults

vars == <<report, status, refunded, audit, job, unlogged, fate, faults>>

Idle == [at |-> "idle"]

(* The ladder: viewer 0, agent 1, operator 2, owner 3.                     *)
Roles == 0..3
Resolutions == {"dismiss", "warn", "suspend"}
FinalState(res) == IF res = "dismiss" THEN "dismissed" ELSE "actioned"
MinRole(res) == IF res = "suspend" THEN 2 ELSE 1
Actions == Resolutions \cup {"active", "suspended", "refund"}

Init ==
    /\ report = "none" /\ status = "active" /\ refunded = FALSE
    /\ audit = <<>>
    /\ job = [h \in Handlers |-> Idle]
    /\ unlogged = FALSE /\ fate = -1 /\ faults = 0

Become(h, next) == job' = [job EXCEPT ![h] = next]

(* appendAudit, within the caller's transaction.                           *)
AppendAudit(action, role) == audit' = Append(audit, [action |-> action, role |-> role])

(* Report files against somebody else, within the reporter's limit         *)
(* (Limiter), whose row is there; a tombstone is a row too.  A second      *)
(* report is a row of its own, not this one.                               *)
Report(h) ==
    /\ job[h] = Idle /\ report = "none" /\ \A g \in Handlers : job[g].at # "file"
    /\ Become(h, [at |-> "file"])
    /\ UNCHANGED <<report, status, refunded, audit, unlogged, fate, faults>>

(* The INSERT; one that fails is reported back and filed again.            *)
FileReport(h) ==
    /\ job[h].at = "file"
    /\ Become(h, Idle)
    /\ \/ report' = "open" /\ UNCHANGED faults
       \/ /\ faults < MaxFaults
          /\ faults' = faults + 1
          /\ UNCHANGED report
    /\ UNCHANGED <<status, refunded, audit, unlogged, fate>>

(* ResolveReport: the role, the reason, and a look at the report.          *)
ResolveReport(h, role, res) ==
    /\ job[h] = Idle /\ Len(audit) < MaxActions
    /\ role >= MinRole(res) /\ report = "open"
    /\ Become(h, [at |-> "resolve", role |-> role, res |-> res])
    /\ UNCHANGED <<report, status, refunded, audit, unlogged, fate, faults>>

(* Mutant of StillOpen: the row is updated whatever its state.             *)
StillOpenAlways == TRUE

StillOpen == report = "open"

(* Mutant of Suspended: a tombstone is suspended like a live user.         *)
SuspendedAlways(new) == new

(* status is written only where it is not 2.                               *)
Suspended(new) == IF status = "deleted" THEN status ELSE new

(* Store.Resolve, one transaction: the loser of a race resolves nothing.   *)
Resolve(h) ==
    LET res == job[h].res
    IN  /\ job[h].at = "resolve"
        /\ Become(h, Idle)
        /\ IF StillOpen
           THEN /\ report' = FinalState(res)
                /\ status' = IF res = "suspend" THEN Suspended("suspended") ELSE status
                /\ AppendAudit(res, job[h].role)
           ELSE UNCHANGED <<report, status, audit>>
        /\ UNCHANGED <<refunded, unlogged, fate, faults>>

(* SuspendUser and ReactivateUser: operator and up, refused on a           *)
(* tombstone.                                                              *)
SetStatus(role, new) ==
    /\ role >= 2 /\ Len(audit) < MaxActions
    /\ status # "deleted"
    /\ status' = Suspended(new)
    /\ AppendAudit(new, role)
    /\ UNCHANGED <<report, refunded, job, unlogged, fate, faults>>

(* PaymentsConsole.Refund: owner only; the processor moves the money, then *)
(* the row is written.  A second refund of the payment is refused there.   *)
AdminRefund(h, role) ==
    /\ job[h] = Idle /\ role >= 3 /\ ~refunded
    /\ refunded' = TRUE
    /\ Become(h, [at |-> "audit", role |-> role])
    /\ UNCHANGED <<report, status, audit, unlogged, fate, faults>>

AuditRefund(h) ==
    /\ job[h].at = "audit"
    /\ Become(h, Idle)
    /\ \/ AppendAudit("refund", job[h].role) /\ UNCHANGED <<unlogged, faults>>
       \/ /\ faults < MaxFaults
          /\ faults' = faults + 1
          /\ unlogged' = TRUE
          /\ UNCHANGED audit
    /\ UNCHANGED <<report, status, refunded, fate>>

(* External: the account is erased.                                        *)
DeleteUser ==
    /\ status # "deleted"
    /\ status' = "deleted"
    /\ fate' = Len(audit)
    /\ UNCHANGED <<report, refunded, audit, job, unlogged, faults>>

Next ==
    \/ DeleteUser
    \/ \E role \in Roles, new \in {"active", "suspended"} : SetStatus(role, new)
    \/ \E h \in Handlers :
        \/ Report(h) \/ FileReport(h)
        \/ Resolve(h) \/ AuditRefund(h)
        \/ \E role \in Roles :
            \/ AdminRefund(h, role)
            \/ \E res \in Resolutions : ResolveReport(h, role, res)

-----------------------------------------------------------------------------
TypeOK ==
    /\ report \in {"none", "open", "actioned", "dismissed"}
    /\ status \in {"active", "suspended", "deleted"}
    /\ audit \in Seq([action : Actions, role : Roles])
    /\ refunded \in BOOLEAN /\ unlogged \in BOOLEAN /\ fate \in Int

(* The positions of the audit rows of some actions.                        *)
Rows(actions) == {i \in DOMAIN audit : audit[i].action \in actions}

(* What the status should be according to the audit log alone: the last    *)
(* row that sets it says so.                                               *)
StatusByAudit ==
    LET rows == Rows({"active", "suspended", "suspend"})
    IN  IF \E i \in rows : audit[i].action # "active" /\ \A j \in rows : j <= i
        THEN "suspended" ELSE "active"

Closed == report \notin {"none", "open"}

(* The audit log explains the state: replaying it gives the target's       *)
(* status while it lives, the report's outcome by its one resolution, and  *)
(* every reversed payment unless the write of its row failed.              *)
StatusExplained == status # "deleted" => status = StatusByAudit

ReportExplained ==
    IF Closed
    THEN \E i \in DOMAIN audit :
            Rows(Resolutions) = {i} /\ report = FinalState(audit[i].action)
    ELSE Rows(Resolutions) = {}

RefundExplained ==
    (refunded /\ ~unlogged /\ \A h \in Handlers : job[h].at # "audit")
        <=> Rows({"refund"}) # {}

AuditExplains == StatusExplained /\ ReportExplained /\ RefundExplained

(* A deleted account stays deleted.                                        *)
TombstoneStays == fate >= 0 => status = "deleted"

(* Nobody did what the role does not allow.                                *)
RoleOf(action) ==
    CASE action \in {"dismiss", "warn"} -> 1
      [] action = "refund" -> 3
      [] OTHER -> 2

RolesHold == \A i \in DOMAIN audit : audit[i].role >= RoleOf(audit[i].action)

AdminSound == TypeOK /\ AuditExplains /\ TombstoneStays /\ RolesHold

(* What a request holds, was allowed to its role.                          *)
JobFits(j) ==
    /\ j.at \in {"idle", "file", "resolve", "audit"}
    /\ j.at = "file" => report = "none"
    /\ j.at = "resolve" => j.role \in Roles /\ j.res \in Resolutions /\ j.role >= MinRole(j.res)
    /\ j.at = "audit" => j.role = 3 /\ refunded /\ ~unlogged /\ Rows({"refund"}) = {}

(* A payment is reversed once, and its row is to come, lost or there; a    *)
(* report is filed once.                                                   *)
OnceEach ==
    /\ unlogged => refunded /\ Rows({"refund"}) = {}
    /\ \A g, h \in Handlers :
        (job[g].at = "audit" /\ job[h].at = "audit") \/ (job[g].at = "file" /\ job[h].at = "file")
            => g = h

(* The inductive strengthening.                                            *)
AdminInv ==
    /\ AdminSound /\ OnceEach
    /\ job = [h \in Handlers |-> job[h]] /\ \A h \in Handlers : JobFits(job[h])
=============================================================================
