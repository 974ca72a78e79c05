------------------------------- MODULE Login -------------------------------
(***************************************************************************)
(* Sign-in with a one-time code and, where the account has one, a PIN      *)
(* (auth/service.go RequestOTP, VerifyOTP, VerifyPIN, register, SetPIN).   *)
(*                                                                         *)
(* All challenges are for one phone number.  A handler reads the challenge *)
(* row, decides on what it read and writes the row back without a          *)
(* condition, so every database call is a step of its own.                 *)
(***************************************************************************)
EXTENDS Integers, FiniteSets

CONSTANTS
    Challenges,      \* ids of the challenges requested for the number
    Handlers,        \* handlers that may run at the same time
    OTPMaxAttempts,  \* wrong codes after which a challenge is dead
    MaxFaults        \* database calls that fail

VARIABLES
    row,      \* otp_challenges: the row of each challenge
    user,     \* the users row of the number
    job,      \* what each running handler has read and does next
    wrong,    \* history: wrong codes judged, per challenge
    stale,    \* history: challenges written from a row that had changed
    grants,   \* history: registrations, in any order
    faults

vars == <<row, user, job, wrong, stale, grants, faults>>

NoRow == [made |-> FALSE, sent |-> FALSE, attempts |-> 0, verified |-> FALSE,
          pinPending |-> FALSE, expired |-> FALSE]

Idle == [at |-> "idle"]

Init ==
    /\ row = [c \in Challenges |-> NoRow]
    /\ user \in {[exists |-> p # "none", pin |-> p = "pin", suspended |-> FALSE] :
                     p \in {"none", "noPin", "pin"}}
    /\ job = [h \in Handlers |-> Idle]
    /\ wrong = [c \in Challenges |-> 0]
    /\ stale = {}
    /\ grants = {}
    /\ faults = 0

Become(h, next) == job' = [job EXCEPT ![h] = next]

Step(h, at) == Become(h, [job[h] EXCEPT !.at = at])

Done(h) == Become(h, Idle)

(* A call of the store fails: the handler answers "transient" and ends.    *)
Fails(h) ==
    /\ faults < MaxFaults
    /\ faults' = faults + 1
    /\ Done(h)
    /\ UNCHANGED <<row, user, wrong, stale, grants>>

(* Challenges.Create and Get: the row is written and read without a lock.  *)
Create(c, sent) == row' = [row EXCEPT ![c].made = TRUE, ![c].sent = sent]

Get(c) == row[c]

(* RequestOTP: the challenge is stored and the code sent; when sending     *)
(* fails the row stays behind and nobody knows its code.                   *)
RequestOTP(c) ==
    /\ ~row[c].made
    /\ \/ Create(c, TRUE) /\ UNCHANGED faults
       \/ Create(c, FALSE) /\ faults < MaxFaults /\ faults' = faults + 1
    /\ UNCHANGED <<user, job, wrong, stale, grants>>

(* domain.VerifyCode, up to the comparison of the code itself.             *)
Judged(r) == ~r.verified /\ ~r.expired /\ r.attempts < OTPMaxAttempts

(* VerifyOTP loads the challenge; one that is unknown, used, expired or    *)
(* exhausted is rejected without a trace.                                  *)
VerifyOTP(h, c) ==
    /\ job[h] = Idle /\ row[c].made /\ Judged(Get(c))
    /\ Become(h, [at |-> "code", ch |-> c, read |-> Get(c), pinAtStart |-> user.pin])
    /\ UNCHANGED <<row, user, wrong, stale, grants, faults>>

(* Challenges.IncrementAttempts; its error is ignored.                     *)
IncrementAttempts(h, c) ==
    \/ row' = [row EXCEPT ![c].attempts = @ + 1] /\ UNCHANGED faults
    \/ faults < MaxFaults /\ faults' = faults + 1 /\ UNCHANGED row

WrongCode(h) ==
    /\ job[h].at = "code"
    /\ IncrementAttempts(h, job[h].ch)
    /\ wrong' = [wrong EXCEPT ![job[h].ch] = @ + 1]
    /\ Done(h)
    /\ UNCHANGED <<user, stale, grants>>

(* Mutant of AfterCode: the PIN gate is forgotten.                         *)
AfterCodeNoPin(u) == IF u.exists /\ u.suspended THEN "idle" ELSE "mark"

(* What the row of the user decides after a right code.                    *)
AfterCode(u) ==
    IF u.exists /\ u.suspended THEN "idle"
    ELSE IF u.exists /\ u.pin THEN "markPin" ELSE "mark"

RightCode(h) ==
    /\ job[h].at = "code" /\ job[h].read.sent
    /\ IF AfterCode(user) = "idle" THEN Done(h) ELSE Step(h, AfterCode(user))
    /\ UNCHANGED <<row, user, wrong, stale, grants, faults>>

(* Challenges.MarkVerified: an UPDATE by id only.                          *)
MarkVerified(h, pinPending) ==
    LET c == job[h].ch
        r == job[h].read
    IN  /\ row' = [row EXCEPT ![c].verified = TRUE, ![c].pinPending = pinPending]
        /\ stale' = IF row[c].verified # r.verified \/ row[c].pinPending # r.pinPending
                    THEN stale \cup {c} ELSE stale

MarkPinPending(h) ==
    /\ job[h].at = "markPin"
    /\ MarkVerified(h, TRUE)
    /\ Done(h)
    /\ UNCHANGED <<user, wrong, grants, faults>>

MarkUsed(h) ==
    /\ job[h].at \in {"mark", "consume"}
    /\ MarkVerified(h, FALSE)
    /\ Become(h, [job[h] EXCEPT !.at = IF @ = "mark" THEN "registerOTP" ELSE "registerPIN"])
    /\ UNCHANGED <<user, wrong, grants, faults>>

(* VerifyPIN, up to the limiter (which may refuse).                        *)
VerifyPIN(h, c) ==
    /\ job[h] = Idle
    /\ Get(c).verified /\ Get(c).pinPending /\ ~Get(c).expired
    /\ Become(h, [at |-> "pin", ch |-> c, read |-> Get(c), pinAtStart |-> user.pin])
    /\ UNCHANGED <<row, user, wrong, stale, grants, faults>>

(* domain.CheckPIN: without a hash no PIN is right.                        *)
Matches(u, right) == u.pin /\ right

(* The PIN is compared with the hash of the account as it is now.          *)
CheckPIN(h) ==
    /\ job[h].at = "pin"
    /\ \E right \in BOOLEAN :
          IF Matches(user, right) THEN Step(h, "consume") ELSE Done(h)
    /\ UNCHANGED <<row, user, wrong, stale, grants, faults>>

(* register: the device is refused (platform, key, device limit) or the    *)
(* transaction of the registrar creates user, device and session.  The     *)
(* challenge has been used up in either case.                              *)
Register(h) ==
    /\ job[h].at \in {"registerOTP", "registerPIN"}
    /\ \/ /\ user' = [user EXCEPT !.exists = TRUE]
          /\ grants' = grants \cup {[ch |-> job[h].ch, nth |-> Cardinality(grants),
                                     path |-> job[h].at, pinAtStart |-> job[h].pinAtStart]}
       \/ UNCHANGED <<user, grants>>
    /\ Done(h)
    /\ UNCHANGED <<row, wrong, stale, faults>>

(* Users.SetPINHash: the row of the user, if there is one.                 *)
SetPINHash == user.exists /\ user' = [user EXCEPT !.pin = TRUE]

(* SetPIN: the old PIN is compared and the new hash written.               *)
SetPIN ==
    /\ ~user.pin
    /\ SetPINHash
    /\ UNCHANGED <<row, job, wrong, stale, grants, faults>>

(* An administrator suspends or reinstates the account.                    *)
SetStatus ==
    /\ user.exists
    /\ user' = [user EXCEPT !.suspended = ~@]
    /\ UNCHANGED <<row, job, wrong, stale, grants, faults>>

Expire(c) ==
    /\ row[c].made /\ ~row[c].expired
    /\ row' = [row EXCEPT ![c].expired = TRUE]
    /\ UNCHANGED <<user, job, wrong, stale, grants, faults>>

Next ==
    \/ \E c \in Challenges : RequestOTP(c) \/ Expire(c)
    \/ \E h \in Handlers, c \in Challenges : VerifyOTP(h, c) \/ VerifyPIN(h, c)
    \/ \E h \in Handlers :
          \/ WrongCode(h) \/ RightCode(h) \/ MarkPinPending(h) \/ MarkUsed(h)
          \/ CheckPIN(h) \/ Register(h)
          \/ job[h] # Idle /\ Fails(h)
    \/ SetPIN \/ SetStatus

-----------------------------------------------------------------------------
Rows == [made : BOOLEAN, sent : BOOLEAN, attempts : Nat, verified : BOOLEAN,
         pinPending : BOOLEAN, expired : BOOLEAN]

TypeOK ==
    /\ row \in [Challenges -> Rows]
    /\ user \in [exists : BOOLEAN, pin : BOOLEAN, suspended : BOOLEAN]
    /\ wrong \in [Challenges -> Nat]
    /\ stale \subseteq Challenges

(* otp.go "brute force is bounded by OTPMaxAttempts": the codes judged for *)
(* a challenge exceed the maximum only by the handlers that had read the   *)
(* row before the last increment, and by increments that failed.           *)
AttemptsBounded ==
    \A c \in Challenges :
        wrong[c] < OTPMaxAttempts + Cardinality(Handlers) + faults

(* service.go "SIM-swap defense": a registration without the PIN is one    *)
(* whose VerifyOTP began before the account had a PIN.                     *)
PinHolds == \A g \in grants : g.path = "registerOTP" => ~g.pinAtStart

(* "challenge already used": a challenge registers a second device only    *)
(* if a handler wrote the row after another one had changed it.            *)
OneGrant ==
    \A g1, g2 \in grants : g1.ch = g2.ch /\ g1 # g2 => g1.ch \in stale

LoginSound == TypeOK /\ AttemptsBounded /\ PinHolds /\ OneGrant

(* What a handler has read decides what it may still write.                *)
Jobs == [at : {"code", "markPin", "mark", "pin", "consume", "registerOTP", "registerPIN"},
         ch : Challenges, read : Rows, pinAtStart : BOOLEAN]

JobFits(j) ==
    /\ j.at \in {"code", "markPin", "mark"} => ~j.read.verified /\ ~j.read.pinPending
    /\ j.at \in {"pin", "consume"} => j.read.verified /\ j.read.pinPending
    /\ j.at = "code" /\ j.pinAtStart => user.pin
    /\ j.at \in {"mark", "registerOTP"} => ~j.pinAtStart

(* The handlers that judge a code of c, and those that may register on it. *)
Judging(c) == {h \in Handlers : job[h].at = "code" /\ job[h].ch = c}

Registers(h, c) == job[h].at \in {"registerOTP", "registerPIN"} /\ job[h].ch = c

(* Every wrong code was counted or its count failed, and no handler joins  *)
(* those that judge once the count has reached the maximum.                *)
GuessesCounted ==
    \A c \in Challenges :
        /\ wrong[c] <= row[c].attempts + faults
        /\ row[c].attempts + Cardinality(Judging(c)) < OTPMaxAttempts + Cardinality(Handlers)

(* A challenge that no stale row was written to has been used up by the    *)
(* one handler that registers, or has registered, on it.                   *)
UsedUp ==
    \A c \in Challenges \ stale :
        /\ \A h \in Handlers : Registers(h, c) => row[c].verified /\ ~row[c].pinPending
        /\ \A g \in grants : g.ch = c => row[c].verified /\ ~row[c].pinPending
        /\ \A h \in Handlers, g \in grants : ~(Registers(h, c) /\ g.ch = c)
        /\ \A h, k \in Handlers : Registers(h, c) /\ Registers(k, c) => h = k

(* The inductive invariant.                                                *)
LoginInv ==
    /\ LoginSound
    /\ faults \in Nat
    /\ job \in [Handlers -> {Idle} \cup Jobs] /\ \A h \in Handlers : JobFits(job[h])
    /\ user.pin => user.exists
    /\ \A c \in Challenges : row[c].pinPending => row[c].verified
    /\ GuessesCounted /\ UsedUp
=============================================================================
