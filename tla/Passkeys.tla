------------------------------ MODULE Passkeys ------------------------------
(***************************************************************************)
(* Passkey ceremonies of one user (deviceauth/service.go, deviceauth/      *)
(* adapters/pg.go, deviceauth/domain/webauthn.go): challenges that may be  *)
(* used once, credentials, and the signature counter that betrays a cloned *)
(* authenticator.                                                          *)
(***************************************************************************)
EXTENDS Integers, FiniteSets

CONSTANTS
    Challenges,
    Creds,             \* credential ids
    Handlers,
    MaxCredsPerUser,
    MaxCount,          \* bound on the counter of an authenticator
    MaxFaults

VARIABLES
    challenge,  \* webauthn_challenges: "none", "login", "register" or "taken"
    expired,    \* challenges past their time
    cred,       \* passkey_credentials: stored counter, or Absent
    job,        \* what each running handler has read and does next
    passed,     \* history: <<challenge, credential, counter>> of each success
    lost,       \* history: credentials whose counter was written over a newer
                \* one or not written at all
    faults

vars == <<challenge, expired, cred, job, passed, lost, faults>>

Absent == -1

Idle == [at |-> "idle"]

Init ==
    /\ challenge = [c \in Challenges |-> "none"]
    /\ expired = {}
    /\ cred = [k \in Creds |-> Absent]
    /\ job = [h \in Handlers |-> Idle]
    /\ passed = {}
    /\ lost = {}
    /\ faults = 0

Become(h, next) == job' = [job EXCEPT ![h] = next]

Stored == {k \in Creds : cred[k] # Absent}

(* issue stores a challenge for its purpose.                               *)
Issue(c, purpose) ==
    /\ challenge[c] = "none"
    /\ challenge' = [challenge EXCEPT ![c] = purpose]
    /\ UNCHANGED <<expired, cred, job, passed, lost, faults>>

BeginRegistration(c) == Issue(c, "register")
BeginLogin(c) == Issue(c, "login")

Expire(c) ==
    /\ challenge[c] \in {"login", "register"} /\ c \notin expired
    /\ expired' = expired \cup {c}
    /\ UNCHANGED <<challenge, cred, job, passed, lost, faults>>

(* Mutant of Taken: the challenge is read and left to expire.              *)
TakenNever(c) == challenge

(* TakeChallenge deletes the row it returns, so one caller gets it.        *)
Taken(c) == [challenge EXCEPT ![c] = "taken"]

(* consumeClientData: a challenge of the wrong purpose or past its time is *)
(* used up all the same.                                                   *)
ConsumeClientData(h, c, purpose, next) ==
    /\ job[h] = Idle /\ challenge[c] \in {"login", "register"}
    /\ challenge' = Taken(c)
    /\ IF challenge[c] = purpose /\ c \notin expired THEN Become(h, next) ELSE UNCHANGED job
    /\ UNCHANGED <<expired, cred, passed, lost, faults>>

FinishRegistration(h, c, k) ==
    ConsumeClientData(h, c, "register", [at |-> "list", ch |-> c, key |-> k])

(* ListCredentials, then the limit.                                        *)
CheckCredLimit(h) ==
    /\ job[h].at = "list"
    /\ IF Cardinality(Stored) >= MaxCredsPerUser THEN Become(h, Idle)
       ELSE Become(h, [job[h] EXCEPT !.at = "create"])
    /\ UNCHANGED <<challenge, expired, cred, passed, lost, faults>>

(* CreateCredential: a plain INSERT, an id that exists is an error.        *)
CreateCredential(h) ==
    /\ job[h].at = "create"
    /\ cred' = IF job[h].key \in Stored THEN cred ELSE [cred EXCEPT ![job[h].key] = 0]
    /\ Become(h, Idle)
    /\ UNCHANGED <<challenge, expired, passed, lost, faults>>

FinishLogin(h, c, k, n) ==
    ConsumeClientData(h, c, "login", [at |-> "get", ch |-> c, key |-> k, count |-> n])

(* domain.NextSignCount: whether the counter presented is accepted.        *)
Accepts(stored, presented) ==
    \/ stored = 0 /\ presented = 0
    \/ presented > stored

(* GetCredential and the checks of the assertion (the signature holds).    *)
CheckAssertion(h) ==
    LET k == job[h].key
    IN  /\ job[h].at = "get"
        /\ IF k \in Stored /\ Accepts(cred[k], job[h].count)
           THEN Become(h, [at |-> "update", ch |-> job[h].ch, key |-> k,
                           count |-> job[h].count, read |-> cred[k]])
           ELSE Become(h, Idle)
        /\ UNCHANGED <<challenge, expired, cred, passed, lost, faults>>

(* UpdateSignCount writes by id only and its error is ignored.             *)
UpdateSignCount(h) ==
    LET k == job[h].key
    IN  /\ job[h].at = "update"
        /\ \/ /\ cred' = IF k \in Stored THEN [cred EXCEPT ![k] = job[h].count] ELSE cred
              /\ lost' = IF cred[k] # job[h].read THEN lost \cup {k} ELSE lost
              /\ UNCHANGED faults
           \/ /\ faults < MaxFaults
              /\ faults' = faults + 1
              /\ lost' = lost \cup {k}
              /\ UNCHANGED cred
        /\ passed' = passed \cup {<<job[h].ch, k, job[h].count>>}
        /\ Become(h, Idle)
        /\ UNCHANGED <<challenge, expired>>

DeletePasskey(k) ==
    /\ k \in Stored
    /\ cred' = [cred EXCEPT ![k] = Absent]
    /\ lost' = lost \cup {k}
    /\ UNCHANGED <<challenge, expired, job, passed, faults>>

Next ==
    \/ \E c \in Challenges : Expire(c) \/ BeginRegistration(c) \/ BeginLogin(c)
    \/ \E h \in Handlers, c \in Challenges, k \in Creds :
          FinishRegistration(h, c, k) \/ \E n \in 0 .. MaxCount : FinishLogin(h, c, k, n)
    \/ \E h \in Handlers :
          CheckCredLimit(h) \/ CreateCredential(h) \/ CheckAssertion(h) \/ UpdateSignCount(h)
    \/ \E k \in Creds : DeletePasskey(k)

-----------------------------------------------------------------------------
TypeOK ==
    /\ challenge \in [Challenges -> {"none", "login", "register", "taken"}]
    /\ cred \in [Creds -> Absent .. MaxCount]
    /\ expired \subseteq Challenges /\ lost \subseteq Creds

(* TakeChallenge is what makes a ceremony single-use: no challenge passes  *)
(* twice.                                                                  *)
ChallengeOnce == \A p, q \in passed : p[1] = q[1] => p = q

(* Clone detection: a counter that is not zero passes twice for one        *)
(* credential only if the write of a counter was lost, or crossed with     *)
(* another one, or the passkey was deleted and enrolled again.             *)
ReplayNeedsLostWrite ==
    \A p, q \in passed :
        p # q /\ p[2] = q[2] /\ p[3] = q[3] /\ p[3] > 0 => p[2] \in lost

(* The limit on passkeys is exceeded at most by enrolments that had        *)
(* counted before the others were stored.                                  *)
CredCap == Cardinality(Stored) < MaxCredsPerUser + Cardinality(Handlers)

PasskeysSound == TypeOK /\ ChallengeOnce /\ ReplayNeedsLostWrite /\ CredCap

Jobs ==
    [at : {"list", "create"}, ch : Challenges, key : Creds]
        \cup [at : {"get"}, ch : Challenges, key : Creds, count : 0 .. MaxCount]
        \cup [at : {"update"}, ch : Challenges, key : Creds, count : 0 .. MaxCount,
              read : 0 .. MaxCount]

(* A challenge is taken by the one handler that works on it, or by the one *)
(* that passed with it.                                                    *)
TakenOnce ==
    /\ \A h \in Handlers : job[h] # Idle => challenge[job[h].ch] = "taken"
    /\ \A h, k \in Handlers : job[h] # Idle /\ job[k] # Idle /\ job[h].ch = job[k].ch => h = k
    /\ \A p \in passed : challenge[p[1]] = "taken" /\ \A h \in Handlers : job[h] # Idle => job[h].ch # p[1]

(* Unless a write was lost, the stored counter is at least every counter   *)
(* that passed; what a handler accepted was above the one it read.         *)
CountersKept ==
    /\ \A p \in passed : p[2] \notin lost => p[3] <= cred[p[2]]
    /\ \A h \in Handlers : job[h].at = "update" => Accepts(job[h].read, job[h].count)

(* The enrolments that have counted the passkeys and not yet stored theirs.*)
Creating == {h \in Handlers : job[h].at = "create"}

EnrolmentsCounted ==
    Cardinality(Stored) + Cardinality(Creating) < MaxCredsPerUser + Cardinality(Handlers)

(* The inductive invariant.                                                *)
PasskeysInv ==
    /\ PasskeysSound
    /\ job \in [Handlers -> {Idle} \cup Jobs]
    /\ passed \subseteq Challenges \X Creds \X (0 .. MaxCount)
    /\ TakenOnce /\ CountersKept /\ EnrolmentsCounted
=============================================================================
