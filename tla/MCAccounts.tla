------------------------------ MODULE MCAccounts ----------------------------
(***************************************************************************)
(* Accounts and shared spaces on small instances: sign-in, devices and     *)
(* sessions, prekeys, passkeys; groups, communities, channels, payments.   *)
(* They write different tables, so an interleaving of two of them shows    *)
(* nothing that each one alone does not: a behaviour of this module        *)
(* exercises the service that `part' names, and the variables of the       *)
(* others stay at Off.                                                     *)
(*                                                                         *)
(* The configuration gives the constants small values; the theorems hold   *)
(* for all of them.                                                        *)
(***************************************************************************)
EXTENDS Integers, TLC, FiniteSets, FiniteSetTheorems, TLAPS

CONSTANTS
    Handlers, MaxFaults,
    Challenges, OTPMaxAttempts,
    NDevices, NSessions, NLinks, MaxDevicesPerUser, MaxTokens,
    KeyDevices, KeyIds,
    PasskeyChallenges, Creds, MaxCredsPerUser, MaxCount,
    Users, MaxMembers, MaxUses,
    PublicUsers, CommunityHandlers, Groups, CommunityEvents, Posts, MaxMarks, MaxCharges,
    Payments, Linked

ASSUME LoginConstants ==
    /\ IsFiniteSet(Handlers) /\ Handlers # {}
    /\ OTPMaxAttempts \in Nat \ {0} /\ MaxFaults \in Nat

ASSUME AccountConstants ==
    /\ IsFiniteSet(Handlers)
    /\ NDevices \in Nat /\ NSessions \in Nat /\ NLinks \in Nat
    /\ MaxDevicesPerUser \in Nat /\ MaxTokens \in Nat

ASSUME PasskeyConstants ==
    /\ IsFiniteSet(Handlers) /\ IsFiniteSet(Creds)
    /\ MaxCredsPerUser \in Nat \ {0} /\ MaxCount \in Nat

ASSUME GroupConstants == IsFiniteSet(Users) /\ MaxMembers \in Nat /\ MaxUses \in Nat \ {0}

ASSUME CommunityConstants == IsFiniteSet(PublicUsers)

ASSUME ChannelConstants == IsFiniteSet(PublicUsers) /\ IsFiniteSet(Handlers)

ASSUME PaymentConstants == Linked \subseteq Payments /\ MaxFaults \in Nat

VARIABLES
    part,
    row, user, ljob, wrong, stale, lgrants, lfaults,
    device, session, link, token, ajob, child,
    active, signed, prekey, publishing, fetch, handed, kfaults,
    challenge, expired, cred, yjob, passed, lost, yfaults,
    group, grole, mirror, invite, gjob, crowded, ranked, policy, edited,
    community, announce, crole, linked, cevents, cjob, covertaken, cfaults,
    channel, nrole, post, due, told, marks, charged, stored, njob, crossed, novertaken,
    nfaults,
    status, psp, pevents, processed, sub, pgrants, audited, pjob, pfaults

Off == 0

L == INSTANCE Login WITH job <- ljob, grants <- lgrants, faults <- lfaults

A == INSTANCE Account WITH job <- ajob

K == INSTANCE Prekeys WITH faults <- kfaults, Fetchers <- Handlers, Devices <- KeyDevices

Y == INSTANCE Passkeys WITH job <- yjob, faults <- yfaults, Challenges <- PasskeyChallenges

G == INSTANCE Groups WITH role <- grole, job <- gjob

C == INSTANCE Communities WITH role <- crole, events <- cevents, job <- cjob,
        overtaken <- covertaken, faults <- cfaults, Handlers <- CommunityHandlers,
        Users <- PublicUsers, Events <- CommunityEvents

N == INSTANCE Channels WITH role <- nrole, job <- njob, overtaken <- novertaken,
        faults <- nfaults, Users <- PublicUsers

P == INSTANCE Payments WITH events <- pevents, grants <- pgrants, job <- pjob, faults <- pfaults

LVars == <<row, user, ljob, wrong, stale, lgrants, lfaults>>
AVars == <<device, session, link, token, ajob, child>>
KVars == <<active, signed, prekey, publishing, fetch, handed, kfaults>>
YVars == <<challenge, expired, cred, yjob, passed, lost, yfaults>>
GVars == <<group, grole, mirror, invite, gjob, crowded, ranked, policy, edited>>
CVars == <<community, announce, crole, linked, cevents, cjob, covertaken, cfaults>>
NVars == <<channel, nrole, post, due, told, marks, charged, stored, njob, crossed,
           novertaken, nfaults>>
PVars == <<status, psp, pevents, processed, sub, pgrants, audited, pjob, pfaults>>

vars == <<part, LVars, AVars, KVars, YVars, GVars, CVars, NVars, PVars>>

LOff == /\ row = Off /\ user = Off /\ ljob = Off /\ wrong = Off /\ stale = Off
        /\ lgrants = Off /\ lfaults = Off
AOff == /\ device = Off /\ session = Off /\ link = Off /\ token = Off /\ ajob = Off
        /\ child = Off
KOff == /\ active = Off /\ signed = Off /\ prekey = Off /\ publishing = Off
        /\ fetch = Off /\ handed = Off /\ kfaults = Off
YOff == /\ challenge = Off /\ expired = Off /\ cred = Off /\ yjob = Off
        /\ passed = Off /\ lost = Off /\ yfaults = Off
GOff == /\ group = Off /\ grole = Off /\ mirror = Off /\ invite = Off /\ gjob = Off
        /\ crowded = Off /\ ranked = Off /\ policy = Off /\ edited = Off
COff == /\ community = Off /\ announce = Off /\ crole = Off /\ linked = Off
        /\ cevents = Off /\ cjob = Off /\ covertaken = Off /\ cfaults = Off
NOff == /\ channel = Off /\ nrole = Off /\ post = Off /\ due = Off /\ told = Off
        /\ marks = Off /\ charged = Off /\ stored = Off /\ njob = Off /\ crossed = Off
        /\ novertaken = Off /\ nfaults = Off
POff == /\ status = Off /\ psp = Off /\ pevents = Off /\ processed = Off /\ sub = Off
        /\ pgrants = Off /\ audited = Off /\ pjob = Off /\ pfaults = Off

Init ==
    \/ part = "login" /\ L!Init /\ AOff /\ KOff /\ YOff /\ GOff /\ COff /\ NOff /\ POff
    \/ part = "devices" /\ A!Init /\ LOff /\ KOff /\ YOff /\ GOff /\ COff /\ NOff
          /\ POff
    \/ part = "prekeys" /\ K!Init /\ LOff /\ AOff /\ YOff /\ GOff /\ COff /\ NOff
          /\ POff
    \/ part = "passkeys" /\ Y!Init /\ LOff /\ AOff /\ KOff /\ GOff /\ COff /\ NOff
          /\ POff
    \/ part = "groups" /\ G!Init /\ LOff /\ AOff /\ KOff /\ YOff /\ COff /\ NOff /\ POff
    \/ part = "communities" /\ C!Init /\ LOff /\ AOff /\ KOff /\ YOff /\ GOff /\ NOff
          /\ POff
    \/ part = "channels" /\ N!Init /\ LOff /\ AOff /\ KOff /\ YOff /\ GOff /\ COff
          /\ POff
    \/ part = "payments" /\ P!Init /\ LOff /\ AOff /\ KOff /\ YOff /\ GOff /\ COff
          /\ NOff

Next ==
    \/ part = "login" /\ UNCHANGED <<part, AVars, KVars, YVars, GVars, CVars, NVars, PVars>>
       /\ L!Next
    \/ part = "devices" /\ UNCHANGED <<part, LVars, KVars, YVars, GVars, CVars, NVars, PVars>>
       /\ A!Next
    \/ part = "prekeys" /\ UNCHANGED <<part, LVars, AVars, YVars, GVars, CVars, NVars, PVars>>
       /\ K!Next
    \/ part = "passkeys" /\ UNCHANGED <<part, LVars, AVars, KVars, GVars, CVars, NVars, PVars>>
       /\ Y!Next
    \/ part = "groups" /\ UNCHANGED <<part, LVars, AVars, KVars, YVars, CVars, NVars, PVars>>
       /\ G!Next
    \/ part = "communities" /\ UNCHANGED <<part, LVars, AVars, KVars, YVars, GVars, NVars, PVars>>
       /\ C!Next
    \/ part = "channels" /\ UNCHANGED <<part, LVars, AVars, KVars, YVars, GVars, CVars, PVars>>
       /\ N!Next
    \/ part = "payments" /\ UNCHANGED <<part, LVars, AVars, KVars, YVars, GVars, CVars, NVars>>
       /\ P!Next

Spec == Init /\ [][Next]_vars

Symmetry == Permutations(Handlers) \cup Permutations(KeyDevices) \cup Permutations(PublicUsers)

-----------------------------------------------------------------------------
(* Every property is the inductive invariant of its component: what it     *)
(* promises (LoginSound and so on), and what the handlers that are under   *)
(* way have read and not yet written.                                      *)

(* Sign-in: attempts are bounded, the PIN holds, a challenge registers one *)
(* device unless handlers overlapped (Login).                              *)
LoginSound == part = "login" => L!LoginInv

(* Devices: one primary, the cap, no session survives a revocation, no     *)
(* refresh token has two successors (Account).                             *)
AccountSound == part = "devices" => A!AccountInv

(* Keys: a one-time prekey is handed out once; a passkey challenge serves  *)
(* once, and a replayed assertion needs a lost write (Prekeys, Passkeys).  *)
KeysSound ==
    /\ part = "prekeys" => K!PrekeysInv
    /\ part = "passkeys" => Y!PasskeysInv

(* Groups: messages go to exactly the members, one owner for ever, admins  *)
(* fall to the owner alone, invitations hold (Groups).                     *)
GroupsSound == part = "groups" => G!GroupsInv

(* Communities: one owner unless creation was cut short, and nothing left  *)
(* of a deleted one (Communities).                                         *)
CommunitiesSound == part = "communities" => C!CommunitiesInv

(* Channels: one owner, a post is announced once unless two sweeps         *)
(* overlap, whoever was charged is subscribed (Channels).                  *)
ChannelsSound == part = "channels" => N!ChannelsInv

(* Payments: redelivered and reordered webhooks grant once and only what   *)
(* was paid; an acknowledged event is applied unless a handler died        *)
(* (Payments).                                                             *)
PaymentsSound == part = "payments" => P!PaymentsInv

-----------------------------------------------------------------------------

(* A set whose members are all the same has at most one.                   *)
LEMMA AtMostOne ==
  ASSUME NEW S, \A x, y \in S : x = y
  PROVE  Cardinality(S) <= 1
<1>1. CASE S = {}
  BY <1>1, FS_EmptySet
<1>2. ASSUME NEW x \in S PROVE Cardinality(S) <= 1
  <2>1. S = {x}
    OBVIOUS
  <2>2. Cardinality({x}) = 1
    BY FS_Singleton
  <2>3. QED
    BY <2>1, <2>2
<1>3. QED
  BY <1>1, <1>2

-----------------------------------------------------------------------------
(* Sign-in.                                                                *)

(* Login has its own copy of FiniteSets.                                   *)
LEMMA LoginCardinality == ASSUME NEW S PROVE L!Cardinality(S) = Cardinality(S)
  BY DEF L!Cardinality, Cardinality, L!IsFiniteSet, IsFiniteSet

LEMMA JudgingCount ==
  ASSUME NEW c
  PROVE  /\ IsFiniteSet(L!Judging(c)) /\ Cardinality(L!Judging(c)) \in Nat
         /\ Cardinality(L!Judging(c)) <= Cardinality(Handlers) /\ Cardinality(Handlers) \in Nat
  BY LoginConstants, FS_Subset, FS_CardinalityType DEF L!Judging

LEMMA LoginInit == L!Init => L!LoginInv
<1> SUFFICES ASSUME L!Init PROVE L!LoginInv
  OBVIOUS
<1>0. user \in [exists : BOOLEAN, pin : BOOLEAN, suspended : BOOLEAN] /\ (user.pin => user.exists)
  <2>1. PICK p \in {"none", "noPin", "pin"} :
               user = [exists |-> p # "none", pin |-> p = "pin", suspended |-> FALSE]
    BY DEF L!Init
  <2>2. QED
    BY <2>1
<1>1. L!TypeOK /\ L!PinHolds /\ L!OneGrant /\ lfaults \in Nat
      /\ ljob \in [Handlers -> {L!Idle} \cup L!Jobs] /\ (\A h \in Handlers : L!JobFits(ljob[h]))
      /\ \A c \in Challenges : row[c].pinPending => row[c].verified
  BY <1>0 DEF L!Init, L!TypeOK, L!PinHolds, L!OneGrant, L!Idle, L!JobFits, L!NoRow, L!Rows
<1>2. L!UsedUp
  BY DEF L!Init, L!UsedUp, L!Registers, L!Idle
<1>3. Cardinality(Handlers) \in Nat \ {0}
  BY LoginConstants, FS_CardinalityType, FS_EmptySet
<1>4. ASSUME NEW c \in Challenges
      PROVE  /\ row[c].attempts = 0 /\ lfaults = 0 /\ wrong[c] = 0
             /\ L!Cardinality(L!Judging(c)) = 0
  <2>1. L!Judging(c) = {}
    BY DEF L!Init, L!Judging, L!Idle
  <2>2. QED
    BY <2>1, LoginCardinality, FS_EmptySet DEF L!Init, L!NoRow
<1>5. L!GuessesCounted /\ L!AttemptsBounded
  BY <1>3, <1>4, LoginCardinality, LoginConstants DEF L!GuessesCounted, L!AttemptsBounded
<1>6. QED
  BY <1>0, <1>1, <1>2, <1>5 DEF L!LoginInv, L!LoginSound

(* The bound on the guesses follows from the count of those that judge.    *)
LEMMA LoginBound ==
  ASSUME L!TypeOK', lfaults' \in Nat, L!GuessesCounted'
  PROVE  L!AttemptsBounded'
<1> SUFFICES ASSUME NEW c \in Challenges
             PROVE  wrong'[c] < OTPMaxAttempts + L!Cardinality(Handlers) + lfaults'
  BY DEF L!AttemptsBounded
<1>1. /\ wrong'[c] \in Nat /\ row'[c].attempts \in Nat
      /\ wrong'[c] <= row'[c].attempts + lfaults'
      /\ row'[c].attempts + L!Cardinality(L!Judging(c)') < OTPMaxAttempts + L!Cardinality(Handlers)
  BY DEF L!TypeOK, L!Rows, L!GuessesCounted
<1>2. L!Judging(c)' \subseteq Handlers
  BY DEF L!Judging
<1>3. Cardinality(L!Judging(c)') \in Nat /\ Cardinality(Handlers) \in Nat
  BY <1>2, LoginConstants, FS_Subset, FS_CardinalityType
<1>4. QED
  BY <1>1, <1>3, LoginConstants, LoginCardinality

(* A step that counts nothing and after which no further handler judges.   *)
LEMMA LoginNoGuess ==
  ASSUME L!LoginInv, wrong' = wrong, lfaults' \in {lfaults, lfaults + 1},
         \A c \in Challenges : row'[c].attempts = row[c].attempts,
         \A h \in Handlers : ljob'[h].at = "code" => ljob[h].at = "code" /\ ljob'[h].ch = ljob[h].ch
  PROVE  L!GuessesCounted'
<1> SUFFICES ASSUME NEW c \in Challenges
             PROVE  /\ wrong'[c] <= row'[c].attempts + lfaults'
                    /\ row'[c].attempts + L!Cardinality(L!Judging(c)') < OTPMaxAttempts + L!Cardinality(Handlers)
  BY DEF L!GuessesCounted
<1>1. L!Judging(c)' \subseteq L!Judging(c)
  BY DEF L!Judging
<1>2. Cardinality(L!Judging(c)') <= Cardinality(L!Judging(c)) /\ Cardinality(L!Judging(c)') \in Nat
  BY <1>1, JudgingCount, FS_Subset, FS_CardinalityType
<1>3. /\ wrong[c] \in Nat /\ row[c].attempts \in Nat /\ lfaults \in Nat
      /\ wrong[c] <= row[c].attempts + lfaults
      /\ row[c].attempts + L!Cardinality(L!Judging(c)) < OTPMaxAttempts + L!Cardinality(Handlers)
  BY DEF L!LoginInv, L!LoginSound, L!TypeOK, L!Rows, L!GuessesCounted
<1>4. QED
  BY <1>2, <1>3, LoginConstants, JudgingCount, LoginCardinality

(* Steps that register nobody and leave used-up challenges used up.        *)
LEMMA LoginNoGrant ==
  ASSUME L!LoginInv, lgrants' = lgrants, stale \subseteq stale',
         \A c \in Challenges \ stale' : row[c].verified /\ ~row[c].pinPending => row'[c].verified /\ ~row'[c].pinPending,
         \A h \in Handlers, c \in Challenges : L!Registers(h, c)' => L!Registers(h, c)
  PROVE  (L!PinHolds /\ L!OneGrant /\ L!UsedUp)'
<1>1. L!PinHolds'
  BY DEF L!PinHolds, L!LoginInv, L!LoginSound
<1>2. L!OneGrant'
  BY DEF L!OneGrant, L!LoginInv, L!LoginSound
<1>3. L!UsedUp'
  <2> SUFFICES ASSUME NEW c \in Challenges \ stale'
      PROVE /\ \A h \in Handlers : L!Registers(h, c)' => row'[c].verified /\ ~row'[c].pinPending
            /\ \A g \in lgrants' : g.ch = c => row'[c].verified /\ ~row'[c].pinPending
            /\ \A h \in Handlers, g \in lgrants' : ~(L!Registers(h, c)' /\ g.ch = c)
            /\ \A h, k \in Handlers : L!Registers(h, c)' /\ L!Registers(k, c)' => h = k
    BY DEF L!UsedUp
  <2>1. c \in Challenges \ stale
    OBVIOUS
  <2>2. QED
    BY <2>1 DEF L!UsedUp, L!LoginInv
<1>4. QED
  BY <1>1, <1>2, <1>3

(* Every job is idle or holds what its handler read.                       *)
LEMMA LoginJob ==
  ASSUME L!LoginInv, NEW h \in Handlers
  PROVE  /\ ljob[h] = L!Idle \/ ljob[h] \in L!Jobs
         /\ ljob[h] \in L!Jobs => ljob[h] # L!Idle /\ ljob[h].at # "idle" /\ ljob[h].ch \in Challenges
                                  /\ ljob[h].read \in L!Rows /\ ljob[h].pinAtStart \in BOOLEAN
         /\ ljob[h] = L!Idle => ljob[h].at = "idle"
  BY DEF L!LoginInv, L!Jobs, L!Idle

(* Requesting, expiring, setting the PIN and the account's status.         *)
LEMMA LoginOutside ==
  ASSUME L!LoginInv, NEW c,
         \/ c \in Challenges /\ (L!RequestOTP(c) \/ L!Expire(c))
         \/ L!SetPIN \/ L!SetStatus
  PROVE  L!LoginInv'
<1>1. L!TypeOK' /\ lfaults' \in {lfaults, lfaults + 1} /\ lfaults' \in Nat
  <2>1. CASE c \in Challenges /\ L!RequestOTP(c)
    <3>1. /\ row \in [Challenges -> L!Rows] /\ row[c] \in L!Rows /\ lfaults \in Nat
          /\ lfaults' \in {lfaults, lfaults + 1} /\ UNCHANGED <<user, wrong, stale>>
      BY <2>1 DEF L!RequestOTP, L!LoginInv, L!LoginSound, L!TypeOK
    <3>2. PICK s \in BOOLEAN : row' = [row EXCEPT ![c].made = TRUE, ![c].sent = s]
      BY <2>1 DEF L!RequestOTP, L!Create
    <3>3. row'[c] \in L!Rows
      BY <3>1, <3>2 DEF L!Rows
    <3>4. row' \in [Challenges -> L!Rows]
      BY <3>1, <3>2, <3>3
    <3>5. QED
      BY <3>1, <3>4 DEF L!LoginInv, L!LoginSound, L!TypeOK
  <2>2. CASE c \in Challenges /\ L!Expire(c)
    BY <2>2 DEF L!Expire, L!LoginInv, L!LoginSound, L!TypeOK, L!Rows
  <2>3. CASE L!SetPIN \/ L!SetStatus
    BY <2>3 DEF L!SetPIN, L!SetPINHash, L!SetStatus, L!LoginInv, L!LoginSound, L!TypeOK
  <2>4. QED
    BY <2>1, <2>2, <2>3
<1>2. /\ wrong' = wrong /\ ljob' = ljob /\ lgrants' = lgrants /\ stale' = stale
      /\ user' = user \/ (user.exists /\ user'.exists /\ (user.pin => user'.pin))
  BY DEF L!RequestOTP, L!Create, L!Expire, L!SetPIN, L!SetPINHash, L!SetStatus, L!LoginInv, L!LoginSound, L!TypeOK
<1>3. \A d \in Challenges : /\ row'[d].attempts = row[d].attempts
                            /\ row'[d].verified = row[d].verified
                            /\ row'[d].pinPending = row[d].pinPending
  BY DEF L!RequestOTP, L!Create, L!Expire, L!SetPIN, L!SetPINHash, L!SetStatus, L!LoginInv, L!LoginSound, L!TypeOK, L!Rows
<1>4. L!GuessesCounted'
  BY <1>1, <1>2, <1>3, LoginNoGuess
<1>5. (L!PinHolds /\ L!OneGrant /\ L!UsedUp)'
  <2>1. \A h \in Handlers, d \in Challenges : L!Registers(h, d)' => L!Registers(h, d)
    BY <1>2 DEF L!Registers
  <2>2. QED
    BY <1>2, <1>3, <2>1, LoginNoGrant
<1>6. ljob' \in [Handlers -> {L!Idle} \cup L!Jobs] /\ (\A h \in Handlers : L!JobFits(ljob[h])')
      /\ (user'.pin => user'.exists) /\ (\A d \in Challenges : row'[d].pinPending => row'[d].verified)
  BY <1>2, <1>3 DEF L!LoginInv, L!JobFits
<1>7. QED
  BY <1>1, <1>2, <1>4, <1>5, <1>6, LoginBound DEF L!LoginInv, L!LoginSound

(* VerifyOTP adds a handler to those that judge only below the maximum.    *)
LEMMA LoginVerifyOTP ==
  ASSUME L!LoginInv, NEW h \in Handlers, NEW c \in Challenges, L!VerifyOTP(h, c)
  PROVE  L!LoginInv'
<1>1. /\ ljob[h] = L!Idle /\ UNCHANGED <<row, user, wrong, stale, lgrants, lfaults>>
      /\ ~row[c].verified /\ row[c].attempts < OTPMaxAttempts /\ row[c] \in L!Rows
      /\ ljob' = [ljob EXCEPT ![h] = [at |-> "code", ch |-> c, read |-> row[c], pinAtStart |-> user.pin]]
  BY DEF L!VerifyOTP, L!Judged, L!Get, L!Become, L!LoginInv, L!LoginSound, L!TypeOK
<1>2. /\ L!TypeOK' /\ lfaults' \in Nat /\ ljob' \in [Handlers -> {L!Idle} \cup L!Jobs]
      /\ (user'.pin => user'.exists) /\ (\A d \in Challenges : row'[d].pinPending => row'[d].verified)
  BY <1>1 DEF L!LoginInv, L!LoginSound, L!TypeOK, L!Jobs
<1>3. \A k \in Handlers : L!JobFits(ljob[k])'
  BY <1>1 DEF L!LoginInv, L!JobFits
<1>4. \A d \in Challenges : L!Judging(d)' = IF d = c THEN L!Judging(c) \cup {h} ELSE L!Judging(d)
  BY <1>1 DEF L!Judging, L!Idle, L!LoginInv
<1>5. L!GuessesCounted'
  <2> SUFFICES ASSUME NEW d \in Challenges
               PROVE  row[d].attempts + Cardinality(L!Judging(d)') < OTPMaxAttempts + Cardinality(Handlers)
    BY <1>1, LoginCardinality DEF L!GuessesCounted, L!LoginInv
  <2>1. CASE d # c
    BY <1>4, <2>1, LoginCardinality DEF L!GuessesCounted, L!LoginInv
  <2>2. CASE d = c
    <3>1. L!Judging(d)' \subseteq Handlers
      BY DEF L!Judging
    <3>2. Cardinality(L!Judging(d)') <= Cardinality(Handlers) /\ Cardinality(L!Judging(d)') \in Nat
          /\ Cardinality(Handlers) \in Nat
      BY <3>1, LoginConstants, FS_Subset, FS_CardinalityType
    <3>3. QED
      BY <1>1, <2>2, <3>2, LoginConstants DEF L!Rows
  <2>3. QED
    BY <2>1, <2>2
<1>6. (L!PinHolds /\ L!OneGrant /\ L!UsedUp)'
  <2>1. \A k \in Handlers, d \in Challenges : L!Registers(k, d)' => L!Registers(k, d)
    BY <1>1 DEF L!Registers, L!LoginInv
  <2>2. QED
    BY <1>1, <2>1, LoginNoGrant
<1>7. QED
  BY <1>2, <1>3, <1>5, <1>6, LoginBound DEF L!LoginInv, L!LoginSound

(* WrongCode takes its handler out and counts one, or fails to count.      *)
LEMMA LoginWrongCode ==
  ASSUME L!LoginInv, NEW h \in Handlers, L!WrongCode(h)
  PROVE  L!LoginInv'
<1> DEFINE c == ljob[h].ch
<1>1. /\ ljob[h].at = "code" /\ ljob[h] \in L!Jobs /\ c \in Challenges
      /\ UNCHANGED <<user, stale, lgrants>>
      /\ ljob' = [ljob EXCEPT ![h] = L!Idle]
      /\ wrong' = [wrong EXCEPT ![c] = @ + 1]
      /\ \/ row' = [row EXCEPT ![c].attempts = @ + 1] /\ lfaults' = lfaults
         \/ lfaults' = lfaults + 1 /\ row' = row
  BY LoginJob DEF L!WrongCode, L!IncrementAttempts, L!Done, L!Become
<1> HIDE DEF c
<1>2. /\ L!TypeOK' /\ lfaults' \in Nat /\ ljob' \in [Handlers -> {L!Idle} \cup L!Jobs]
      /\ (user'.pin => user'.exists)
  BY <1>1 DEF L!LoginInv, L!LoginSound, L!TypeOK, L!Rows
<1>3. \A k \in Handlers : L!JobFits(ljob[k])'
  BY <1>1 DEF L!LoginInv, L!JobFits, L!Idle
<1>4. \A d \in Challenges : /\ row'[d].verified = row[d].verified
                            /\ row'[d].pinPending = row[d].pinPending
                            /\ row[d].pinPending => row[d].verified
                            /\ row[d].attempts \in Nat /\ wrong[d] \in Nat
                            /\ d # c => row'[d].attempts = row[d].attempts /\ wrong'[d] = wrong[d]
                            /\ wrong'[c] = wrong[c] + 1
                            /\ \/ row'[c].attempts = row[c].attempts + 1 /\ lfaults' = lfaults
                               \/ row'[c].attempts = row[c].attempts /\ lfaults' = lfaults + 1
  BY <1>1 DEF L!LoginInv, L!LoginSound, L!TypeOK, L!Rows
<1>5. L!GuessesCounted'
  <2> SUFFICES ASSUME NEW d \in Challenges
               PROVE  /\ wrong'[d] <= row'[d].attempts + lfaults'
                      /\ row'[d].attempts + Cardinality(L!Judging(d)') < OTPMaxAttempts + Cardinality(Handlers)
    BY LoginCardinality DEF L!GuessesCounted
  <2>1. /\ wrong[d] <= row[d].attempts + lfaults /\ lfaults \in Nat
        /\ row[d].attempts + Cardinality(L!Judging(d)) < OTPMaxAttempts + Cardinality(Handlers)
    BY LoginCardinality DEF L!GuessesCounted, L!LoginInv
  <2>2. CASE d # c
    <3>1. L!Judging(d)' = L!Judging(d)
      BY <1>1, <2>2 DEF L!Judging, L!Idle, c, L!LoginInv
    <3>2. QED
      BY <1>4, <2>1, <2>2, <3>1
  <2>3. CASE d = c
    <3>1. L!Judging(d)' = L!Judging(d) \ {h} /\ h \in L!Judging(d)
      BY <1>1, <2>3 DEF L!Judging, L!Idle, c, L!LoginInv
    <3>2. Cardinality(L!Judging(d)') = Cardinality(L!Judging(d)) - 1
      BY <3>1, JudgingCount, FS_RemoveElement
    <3>3. QED
      BY <1>1, <1>4, <2>1, <2>3, <3>2, JudgingCount, LoginConstants
  <2>4. QED
    BY <2>2, <2>3
<1>6. (L!PinHolds /\ L!OneGrant /\ L!UsedUp)'
  <2>1. \A k \in Handlers, d \in Challenges : L!Registers(k, d)' => L!Registers(k, d)
    BY <1>1 DEF L!Registers, L!LoginInv, L!Idle
  <2>2. QED
    BY <1>1, <1>4, <2>1, LoginNoGrant
<1>7. QED
  BY <1>2, <1>3, <1>4, <1>5, <1>6, LoginBound DEF L!LoginInv, L!LoginSound

(* A handler that moves on without writing the row or registering.         *)
LEMMA LoginMove ==
  ASSUME L!LoginInv, NEW h \in Handlers, NEW j \in {L!Idle} \cup L!Jobs,
         ljob' = [ljob EXCEPT ![h] = j], UNCHANGED <<row, user, wrong, stale, lgrants>>,
         lfaults' \in {lfaults, lfaults + 1},
         L!JobFits(j), j.at \notin {"code", "registerOTP", "registerPIN"}
  PROVE  L!LoginInv'
<1>1. /\ L!TypeOK' /\ lfaults' \in Nat /\ ljob' \in [Handlers -> {L!Idle} \cup L!Jobs]
      /\ (user'.pin => user'.exists) /\ (\A d \in Challenges : row'[d].pinPending => row'[d].verified)
  BY DEF L!LoginInv, L!LoginSound, L!TypeOK
<1>2. \A k \in Handlers : L!JobFits(ljob[k])'
  BY DEF L!LoginInv, L!JobFits
<1>3. L!GuessesCounted'
  <2>1. \A k \in Handlers : ljob'[k].at = "code" => ljob[k].at = "code" /\ ljob'[k].ch = ljob[k].ch
    BY DEF L!LoginInv
  <2>2. QED
    BY <2>1, LoginNoGuess
<1>4. (L!PinHolds /\ L!OneGrant /\ L!UsedUp)'
  <2>1. \A k \in Handlers, d \in Challenges : L!Registers(k, d)' => L!Registers(k, d)
    BY DEF L!Registers, L!LoginInv
  <2>2. QED
    BY <2>1, LoginNoGrant
<1>5. QED
  BY <1>1, <1>2, <1>3, <1>4, LoginBound DEF L!LoginInv, L!LoginSound

(* The steps of a handler that only read, compare or fail.                 *)
LEMMA LoginReads ==
  ASSUME L!LoginInv, NEW h \in Handlers,
         \/ \E c \in Challenges : L!VerifyPIN(h, c)
         \/ L!RightCode(h) \/ L!CheckPIN(h) \/ L!Fails(h)
  PROVE  L!LoginInv'
<1>0. L!JobFits(L!Idle) /\ L!Idle.at = "idle"
  BY DEF L!JobFits, L!Idle
<1>1. ASSUME NEW c \in Challenges, L!VerifyPIN(h, c) PROVE L!LoginInv'
  <2> DEFINE j == [at |-> "pin", ch |-> c, read |-> row[c], pinAtStart |-> user.pin]
  <2>1. /\ j \in L!Jobs /\ j.at = "pin" /\ UNCHANGED <<row, user, wrong, stale, lgrants, lfaults>>
        /\ ljob' = [ljob EXCEPT ![h] = j] /\ j.read.verified /\ j.read.pinPending
    BY <1>1 DEF L!VerifyPIN, L!Get, L!Become, L!LoginInv, L!LoginSound, L!TypeOK, L!Jobs
  <2> HIDE DEF j
  <2>2. L!JobFits(j)
    BY <2>1 DEF L!JobFits
  <2>3. QED
    BY <2>1, <2>2, LoginMove
<1>2. CASE L!RightCode(h)
  <2>1. CASE L!AfterCode(user) = "idle"
    BY <1>0, <1>2, <2>1, LoginMove DEF L!RightCode, L!Done, L!Become
  <2>2. CASE L!AfterCode(user) # "idle"
    <3> DEFINE j == [ljob[h] EXCEPT !.at = L!AfterCode(user)]
    <3>1. /\ L!AfterCode(user) \in {"markPin", "mark"} /\ ljob[h].at = "code" /\ ljob[h] \in L!Jobs
          /\ UNCHANGED <<row, user, wrong, stale, lgrants, lfaults>> /\ ljob' = [ljob EXCEPT ![h] = j]
          /\ L!JobFits(ljob[h]) /\ (L!AfterCode(user) = "mark" => ~user.pin)
      BY <1>2, <2>2, LoginJob DEF L!RightCode, L!Step, L!Become, L!AfterCode, L!LoginInv
    <3>2. j \in L!Jobs /\ j.at = L!AfterCode(user) /\ j.read = ljob[h].read /\ j.pinAtStart = ljob[h].pinAtStart
      BY <3>1 DEF L!Jobs
    <3> HIDE DEF j
    <3>3. L!JobFits(j)
      BY <3>1, <3>2 DEF L!JobFits
    <3>4. QED
      BY <3>1, <3>2, <3>3, LoginMove
  <2>3. QED
    BY <2>1, <2>2
<1>3. CASE L!CheckPIN(h)
  <2>1. CASE ljob' = [ljob EXCEPT ![h] = L!Idle]
    BY <1>0, <1>3, <2>1, LoginMove DEF L!CheckPIN
  <2>2. CASE ljob' = [ljob EXCEPT ![h] = [ljob[h] EXCEPT !.at = "consume"]]
    <3> DEFINE j == [ljob[h] EXCEPT !.at = "consume"]
    <3>1. /\ ljob[h].at = "pin" /\ ljob[h] \in L!Jobs
          /\ UNCHANGED <<row, user, wrong, stale, lgrants, lfaults>> /\ ljob' = [ljob EXCEPT ![h] = j]
          /\ L!JobFits(ljob[h])
      BY <1>3, <2>2, LoginJob DEF L!CheckPIN, L!LoginInv
    <3>2. j \in L!Jobs /\ j.at = "consume" /\ j.read = ljob[h].read /\ j.pinAtStart = ljob[h].pinAtStart
      BY <3>1 DEF L!Jobs
    <3> HIDE DEF j
    <3>3. L!JobFits(j)
      BY <3>1, <3>2 DEF L!JobFits
    <3>4. QED
      BY <3>1, <3>2, <3>3, LoginMove
  <2>3. QED
    BY <1>3, <2>1, <2>2 DEF L!CheckPIN, L!Step, L!Done, L!Become
<1>4. CASE L!Fails(h)
  BY <1>0, <1>4, LoginMove DEF L!Fails, L!Done, L!Become
<1>5. QED
  BY <1>1, <1>2, <1>3, <1>4

(* MarkVerified, by either caller: the row becomes verified, and a row     *)
(* that was verified without a PIN pending makes the challenge stale.      *)
LEMMA LoginMark ==
  ASSUME L!LoginInv, NEW h \in Handlers, NEW pp \in BOOLEAN, NEW c, c = ljob[h].ch,
         ljob[h].at \in {"markPin", "mark", "consume"}, L!MarkVerified(h, pp)
  PROVE  /\ ljob[h] \in L!Jobs /\ c \in Challenges /\ stale \subseteq stale' /\ stale' \subseteq Challenges
         /\ c \notin stale' => ~(row[c].verified /\ ~row[c].pinPending)
         /\ row' \in [Challenges -> L!Rows]
         /\ row'[c].verified /\ row'[c].pinPending = pp /\ row'[c].attempts = row[c].attempts
         /\ \A d \in Challenges : d # c => row'[d] = row[d]
<1>1. /\ ljob[h] \in L!Jobs /\ c \in Challenges /\ L!JobFits(ljob[h]) /\ ljob[h].read \in L!Rows
      /\ row \in [Challenges -> L!Rows] /\ row[c] \in L!Rows /\ stale \subseteq Challenges
  BY LoginJob DEF L!LoginInv, L!LoginSound, L!TypeOK
<1>2. /\ row' = [row EXCEPT ![c].verified = TRUE, ![c].pinPending = pp]
      /\ stale' = IF row[c].verified # ljob[h].read.verified \/ row[c].pinPending # ljob[h].read.pinPending
                  THEN stale \cup {c} ELSE stale
  BY DEF L!MarkVerified
<1>3. row'[c] \in L!Rows /\ row'[c].verified /\ row'[c].pinPending = pp /\ row'[c].attempts = row[c].attempts
  BY <1>1, <1>2 DEF L!Rows
<1>4. row' \in [Challenges -> L!Rows] /\ \A d \in Challenges : d # c => row'[d] = row[d]
  BY <1>1, <1>2, <1>3
<1>5. stale \subseteq stale' /\ stale' \subseteq Challenges
  BY <1>1, <1>2
<1>6. c \notin stale' => ~(row[c].verified /\ ~row[c].pinPending)
  <2>1. ~(ljob[h].read.verified /\ ~ljob[h].read.pinPending)
    BY <1>1 DEF L!JobFits
  <2>2. QED
    BY <1>1, <1>2, <2>1 DEF L!Rows
<1>7. QED
  BY <1>1, <1>3, <1>4, <1>5, <1>6

LEMMA LoginMarkPinPending ==
  ASSUME L!LoginInv, NEW h \in Handlers, L!MarkPinPending(h)
  PROVE  L!LoginInv'
<1> DEFINE c == ljob[h].ch
<1>1. /\ ljob[h].at = "markPin" /\ ljob' = [ljob EXCEPT ![h] = L!Idle]
      /\ UNCHANGED <<user, wrong, lgrants, lfaults>>
  BY DEF L!MarkPinPending, L!Done, L!Become
<1>2. /\ c \in Challenges /\ stale \subseteq stale' /\ stale' \subseteq Challenges
      /\ c \notin stale' => ~(row[c].verified /\ ~row[c].pinPending)
      /\ row' \in [Challenges -> L!Rows]
      /\ row'[c].verified /\ row'[c].attempts = row[c].attempts
      /\ \A d \in Challenges : d # c => row'[d] = row[d]
  BY <1>1, LoginMark DEF L!MarkPinPending
<1> HIDE DEF c
<1>3. /\ L!TypeOK' /\ lfaults' \in Nat /\ ljob' \in [Handlers -> {L!Idle} \cup L!Jobs]
      /\ (user'.pin => user'.exists) /\ (\A d \in Challenges : row'[d].pinPending => row'[d].verified)
  BY <1>1, <1>2 DEF L!LoginInv, L!LoginSound, L!TypeOK
<1>4. \A k \in Handlers : L!JobFits(ljob[k])'
  BY <1>1 DEF L!LoginInv, L!JobFits, L!Idle
<1>5. L!GuessesCounted'
  <2>1. \A k \in Handlers : ljob'[k].at = "code" => ljob[k].at = "code" /\ ljob'[k].ch = ljob[k].ch
    BY <1>1 DEF L!LoginInv, L!Idle
  <2>2. \A d \in Challenges : row'[d].attempts = row[d].attempts
    BY <1>2
  <2>3. QED
    BY <1>1, <2>1, <2>2, LoginNoGuess
<1>6. (L!PinHolds /\ L!OneGrant /\ L!UsedUp)'
  <2>1. \A k \in Handlers, d \in Challenges : L!Registers(k, d)' => L!Registers(k, d)
    BY <1>1 DEF L!Registers, L!LoginInv, L!Idle
  <2>2. \A d \in Challenges \ stale' : row[d].verified /\ ~row[d].pinPending
                                      => row'[d].verified /\ ~row'[d].pinPending
    BY <1>2
  <2>3. QED
    BY <1>1, <1>2, <2>1, <2>2, LoginNoGrant
<1>7. QED
  BY <1>3, <1>4, <1>5, <1>6, LoginBound DEF L!LoginInv, L!LoginSound

LEMMA LoginMarkUsed ==
  ASSUME L!LoginInv, NEW h \in Handlers, L!MarkUsed(h)
  PROVE  L!LoginInv'
<1> DEFINE c == ljob[h].ch
           at == IF ljob[h].at = "mark" THEN "registerOTP" ELSE "registerPIN"
           j == [ljob[h] EXCEPT !.at = at]
<1>1. /\ ljob[h].at \in {"mark", "consume"} /\ L!MarkVerified(h, FALSE)
      /\ UNCHANGED <<user, wrong, lgrants, lfaults>>
      /\ ljob' = [ljob EXCEPT ![h] = [ljob[h] EXCEPT !.at = IF @ = "mark" THEN "registerOTP" ELSE "registerPIN"]]
  BY DEF L!MarkUsed, L!Become
<1>2. /\ ljob[h] \in L!Jobs /\ c \in Challenges /\ stale \subseteq stale' /\ stale' \subseteq Challenges
      /\ c \notin stale' => ~(row[c].verified /\ ~row[c].pinPending)
      /\ row' \in [Challenges -> L!Rows]
      /\ row'[c].verified /\ row'[c].pinPending = FALSE /\ row'[c].attempts = row[c].attempts
      /\ \A d \in Challenges : d # c => row'[d] = row[d]
  BY <1>1, LoginMark
<1>3. /\ j \in L!Jobs /\ j.at \in {"registerOTP", "registerPIN"} /\ j.ch = c
      /\ (j.at = "registerOTP" => ljob[h].at = "mark") /\ j.pinAtStart = ljob[h].pinAtStart
  BY <1>1, <1>2 DEF L!Jobs
<1>4. ljob' = [ljob EXCEPT ![h] = j]
  BY <1>1, <1>2 DEF L!Jobs
<1> HIDE DEF c, j
<1>5. /\ L!TypeOK' /\ lfaults' \in Nat /\ ljob' \in [Handlers -> {L!Idle} \cup L!Jobs]
      /\ (user'.pin => user'.exists) /\ (\A d \in Challenges : row'[d].pinPending => row'[d].verified)
  BY <1>1, <1>2, <1>3, <1>4 DEF L!LoginInv, L!LoginSound, L!TypeOK
<1>6. \A k \in Handlers : L!JobFits(ljob[k])'
  <2>1. L!JobFits(ljob[h])
    BY DEF L!LoginInv
  <2>2. ljob'[h] = j
    BY <1>4 DEF L!LoginInv
  <2>3. L!JobFits(ljob[h])'
    BY <1>1, <1>3, <2>1, <2>2 DEF L!JobFits
  <2>4. \A k \in Handlers : k # h => L!JobFits(ljob[k])'
    BY <1>1, <1>4 DEF L!LoginInv, L!JobFits
  <2>5. QED
    BY <2>3, <2>4
<1>7. L!GuessesCounted'
  <2>1. \A k \in Handlers : ljob'[k].at = "code" => ljob[k].at = "code" /\ ljob'[k].ch = ljob[k].ch
    BY <1>3, <1>4 DEF L!LoginInv
  <2>2. \A d \in Challenges : row'[d].attempts = row[d].attempts
    BY <1>2
  <2>3. QED
    BY <1>1, <2>1, <2>2, LoginNoGuess
<1>8. L!PinHolds' /\ L!OneGrant'
  BY <1>1, <1>2 DEF L!PinHolds, L!OneGrant, L!LoginInv, L!LoginSound
<1>9. L!UsedUp'
  <2>1. \A k \in Handlers, d \in Challenges :
           L!Registers(k, d)' <=> (k = h /\ d = c) \/ (k # h /\ L!Registers(k, d))
    BY <1>3, <1>4 DEF L!Registers, L!LoginInv
  <2>2. L!UsedUp
    BY DEF L!LoginInv
  <2>3. ASSUME NEW d \in Challenges \ stale'
        PROVE /\ \A k \in Handlers : L!Registers(k, d)' => row'[d].verified /\ ~row'[d].pinPending
              /\ \A g \in lgrants' : g.ch = d => row'[d].verified /\ ~row'[d].pinPending
              /\ \A k \in Handlers, g \in lgrants' : ~(L!Registers(k, d)' /\ g.ch = d)
              /\ \A k, l \in Handlers : L!Registers(k, d)' /\ L!Registers(l, d)' => k = l
    <3>1. d \in Challenges \ stale
      BY <1>2
    <3>2. /\ \A k \in Handlers : L!Registers(k, d) => row[d].verified /\ ~row[d].pinPending
          /\ \A g \in lgrants : g.ch = d => row[d].verified /\ ~row[d].pinPending
          /\ \A k \in Handlers, g \in lgrants : ~(L!Registers(k, d) /\ g.ch = d)
          /\ \A k, l \in Handlers : L!Registers(k, d) /\ L!Registers(l, d) => k = l
      BY <2>2, <3>1 DEF L!UsedUp
    <3>3. CASE d # c
      BY <1>1, <1>2, <2>1, <3>2, <3>3
    <3>4. CASE d = c
      BY <1>1, <1>2, <2>1, <3>2, <3>4
    <3>5. QED
      BY <3>3, <3>4
  <2>4. QED
    BY <2>3 DEF L!UsedUp
<1>10. QED
  BY <1>5, <1>6, <1>7, <1>8, <1>9, LoginBound DEF L!LoginInv, L!LoginSound

(* Register: the handler is the only one with a claim on an unstale        *)
(* challenge, and leaves that claim to the grant.                          *)
LEMMA LoginRegister ==
  ASSUME L!LoginInv, NEW h \in Handlers, L!Register(h)
  PROVE  L!LoginInv'
<1> DEFINE c == ljob[h].ch
<1>1. /\ ljob[h].at \in {"registerOTP", "registerPIN"} /\ ljob[h] \in L!Jobs /\ c \in Challenges
      /\ L!JobFits(ljob[h]) /\ L!Registers(h, c)
      /\ ljob' = [ljob EXCEPT ![h] = L!Idle] /\ UNCHANGED <<row, wrong, stale, lfaults>>
  BY LoginJob DEF L!Register, L!Done, L!Become, L!LoginInv, L!Registers
<1>2. PICK n : \/ /\ user' = [user EXCEPT !.exists = TRUE]
                   /\ lgrants' = lgrants \cup {[ch |-> ljob[h].ch, nth |-> n, path |-> ljob[h].at,
                                               pinAtStart |-> ljob[h].pinAtStart]}
                \/ UNCHANGED <<user, lgrants>>
  BY DEF L!Register
<1>3. /\ L!TypeOK' /\ lfaults' \in Nat /\ ljob' \in [Handlers -> {L!Idle} \cup L!Jobs]
      /\ (user'.pin => user'.exists) /\ (\A d \in Challenges : row'[d].pinPending => row'[d].verified)
      /\ user'.pin = user.pin
  BY <1>1, <1>2 DEF L!LoginInv, L!LoginSound, L!TypeOK
<1>4. \A k \in Handlers : L!JobFits(ljob[k])'
  BY <1>1, <1>3 DEF L!LoginInv, L!JobFits, L!Idle
<1>5. L!GuessesCounted'
  <2>1. \A k \in Handlers : ljob'[k].at = "code" => ljob[k].at = "code" /\ ljob'[k].ch = ljob[k].ch
    BY <1>1 DEF L!LoginInv, L!Idle
  <2>3. QED
    BY <1>1, <2>1, LoginNoGuess
<1>6. \A g \in lgrants' : g \in lgrants \/ (g.ch = c /\ g.path = ljob[h].at /\ g.pinAtStart = ljob[h].pinAtStart)
  BY <1>2
<1>7. \A g1, g2 \in lgrants' : g1 \notin lgrants /\ g2 \notin lgrants => g1 = g2
  BY <1>2
<1> HIDE DEF c
<1>8. L!PinHolds'
  <2>1. L!PinHolds /\ (ljob[h].at = "registerOTP" => ~ljob[h].pinAtStart)
    BY <1>1 DEF L!JobFits, L!LoginInv, L!LoginSound
  <2>2. QED
    BY <1>6, <2>1 DEF L!PinHolds
<1>9. L!UsedUp /\ L!OneGrant
  BY DEF L!LoginInv, L!LoginSound
<1>10. c \notin stale => /\ row[c].verified /\ ~row[c].pinPending
                         /\ \A g \in lgrants : g.ch # c
                         /\ \A k \in Handlers : L!Registers(k, c) => k = h
  BY <1>1, <1>9 DEF L!UsedUp
<1>11. L!OneGrant'
  BY <1>1, <1>6, <1>7, <1>9, <1>10 DEF L!OneGrant
<1>12. L!UsedUp'
  <2>1. \A k \in Handlers, d \in Challenges : L!Registers(k, d)' <=> k # h /\ L!Registers(k, d)
    BY <1>1 DEF L!Registers, L!LoginInv, L!Idle
  <2>2. ASSUME NEW d \in Challenges \ stale'
        PROVE /\ \A k \in Handlers : L!Registers(k, d)' => row'[d].verified /\ ~row'[d].pinPending
              /\ \A g \in lgrants' : g.ch = d => row'[d].verified /\ ~row'[d].pinPending
              /\ \A k \in Handlers, g \in lgrants' : ~(L!Registers(k, d)' /\ g.ch = d)
              /\ \A k, l \in Handlers : L!Registers(k, d)' /\ L!Registers(l, d)' => k = l
    <3>1. d \in Challenges \ stale
      BY <1>1
    <3>2. /\ \A k \in Handlers : L!Registers(k, d) => row[d].verified /\ ~row[d].pinPending
          /\ \A g \in lgrants : g.ch = d => row[d].verified /\ ~row[d].pinPending
          /\ \A k \in Handlers, g \in lgrants : ~(L!Registers(k, d) /\ g.ch = d)
          /\ \A k, l \in Handlers : L!Registers(k, d) /\ L!Registers(l, d) => k = l
      BY <1>9, <3>1 DEF L!UsedUp
    <3>3. CASE d # c
      BY <1>1, <1>6, <2>1, <3>2, <3>3
    <3>4. CASE d = c
      BY <1>1, <1>6, <1>10, <2>1, <3>1, <3>2, <3>4
    <3>5. QED
      BY <3>3, <3>4
  <2>4. QED
    BY <2>2 DEF L!UsedUp
<1>13. QED
  BY <1>3, <1>4, <1>5, <1>8, <1>11, <1>12, LoginBound DEF L!LoginInv, L!LoginSound

LEMMA LoginStep == L!LoginInv /\ [L!Next]_LVars => L!LoginInv'
<1> SUFFICES ASSUME L!LoginInv, [L!Next]_LVars PROVE L!LoginInv'
  OBVIOUS
<1>1. CASE UNCHANGED LVars
  BY <1>1 DEF LVars, L!LoginInv, L!LoginSound, L!TypeOK, L!AttemptsBounded, L!PinHolds, L!OneGrant,
              L!JobFits, L!GuessesCounted, L!Judging, L!UsedUp, L!Registers
<1>2. CASE L!Next
  BY <1>2, LoginOutside, LoginVerifyOTP, LoginReads, LoginWrongCode, LoginMarkPinPending,
     LoginMarkUsed, LoginRegister DEF L!Next
<1>3. QED
  BY <1>1, <1>2

-----------------------------------------------------------------------------
(* Devices, sessions and links.                                            *)

LEMMA AccountCardinality == ASSUME NEW S PROVE A!Cardinality(S) = Cardinality(S)
  BY DEF A!Cardinality, Cardinality, A!IsFiniteSet, IsFiniteSet

(* The devices and handlers that are counted are finitely many.            *)
LEMMA AccountFinite ==
  /\ \A S \in SUBSET A!Devices : IsFiniteSet(S) /\ Cardinality(S) \in Nat
  /\ \A S \in SUBSET Handlers : IsFiniteSet(S) /\ Cardinality(S) \in Nat /\ Cardinality(S) <= Cardinality(Handlers)
  /\ Cardinality(Handlers) \in Nat
<1>1. IsFiniteSet(1 .. NDevices)
  BY AccountConstants, FS_Interval
<1>2. QED
  BY <1>1, AccountConstants, FS_Subset, FS_CardinalityType DEF A!Devices

LEMMA AccountInit == A!Init => A!AccountInv
<1> SUFFICES ASSUME A!Init PROVE A!AccountInv
  OBVIOUS
<1>1. A!TypeOK /\ A!NoFork /\ A!OnePrimary /\ A!DeadDevices
  BY AccountConstants DEF A!Init, A!TypeOK, A!NoFork, A!OnePrimary, A!DeadDevices, A!Active, A!Devices, A!Sessions, A!Links, A!NoDevice, A!DeviceRows, A!SessionRows, A!LinkRows
<1>2. /\ ajob \in [Handlers -> {A!Idle} \cup A!Jobs]
      /\ \A d \in A!Devices : device[d].st = "none" => ~device[d].primary
      /\ A!SessionsNamed /\ A!LinksNamed /\ A!TokensUnique
  BY DEF A!Init, A!SessionsNamed, A!LinksNamed, A!TokensUnique, A!Idle
<1>3. A!Active = {} /\ A!Approving = {}
  BY DEF A!Init, A!Active, A!Approving, A!Idle
<1>4. Cardinality(A!Active) = 0 /\ Cardinality(A!Approving) = 0
  BY <1>3, FS_EmptySet
<1>5. A!ApprovalsCounted /\ A!DeviceCap
  BY <1>4, AccountFinite, AccountCardinality, AccountConstants DEF A!ApprovalsCounted, A!DeviceCap
<1>6. QED
  BY <1>1, <1>2, <1>5 DEF A!AccountInv, A!AccountSound

(* The cap follows from the count of the approvals.                        *)
LEMMA AccountCap == A!ApprovalsCounted' => A!DeviceCap'
<1>1. A!Active' \subseteq A!Devices /\ A!Approving' \subseteq Handlers
  BY DEF A!Active, A!Approving
<1>2. QED
  BY <1>1, AccountFinite, AccountCardinality, AccountConstants DEF A!ApprovalsCounted, A!DeviceCap

(* Nothing is approved and no device added.                                *)
LEMMA AccountUncounted ==
  ASSUME A!AccountInv, A!Active' \subseteq A!Active, A!Approving' \subseteq A!Approving
  PROVE  A!ApprovalsCounted'
<1>1. A!Active \subseteq A!Devices /\ A!Approving \subseteq Handlers
  BY DEF A!Active, A!Approving
<1>2. Cardinality(A!Active') <= Cardinality(A!Active) /\ Cardinality(A!Approving') <= Cardinality(A!Approving)
  BY <1>1, AccountFinite, FS_Subset
<1>3. Cardinality(A!Active') \in Nat /\ Cardinality(A!Approving') \in Nat
  BY <1>1, AccountFinite
<1>4. QED
  BY <1>1, <1>2, <1>3, AccountFinite, AccountCardinality, AccountConstants DEF A!ApprovalsCounted, A!AccountInv

(* A row that was unused becomes an active device.                         *)
LEMMA AccountAdd ==
  ASSUME A!AccountInv, NEW d \in A!Devices, device[d].st = "none",
         device' \in [A!Devices -> A!DeviceRows],
         \A e \in A!Devices : e # d => device'[e] = device[e],
         device'[d].st = "active", device'[d].primary => A!Active = {}
  PROVE  /\ A!OnePrimary' /\ A!Active' = A!Active \cup {d} /\ d \notin A!Active
         /\ Cardinality(A!Active') = Cardinality(A!Active) + 1
         /\ \A e \in A!Devices : device'[e].st = "none" => ~device'[e].primary
         /\ \A e \in A!Devices : device'[e].st = "revoked" => device[e].st = "revoked"
<1>1. A!Active' = A!Active \cup {d} /\ d \notin A!Active
  BY DEF A!Active
<1>2. A!OnePrimary'
  BY <1>1 DEF A!OnePrimary, A!AccountInv, A!AccountSound, A!Active, A!DeviceRows
<1>3. Cardinality(A!Active') = Cardinality(A!Active) + 1
  <2>1. IsFiniteSet(A!Active)
    BY AccountFinite DEF A!Active
  <2>2. QED
    BY <1>1, <2>1, FS_AddElement
<1>4. QED
  BY <1>1, <1>2, <1>3 DEF A!AccountInv

(* A session is created with a token that nobody holds.                    *)
LEMMA AccountNewSession ==
  ASSUME A!AccountInv, NEW s \in A!Sessions, NEW d \in A!Devices, A!NewSession(s, d), child' = child
  PROVE  /\ session' \in [A!Sessions -> A!SessionRows]
         /\ token' \in 0 .. MaxTokens
         /\ \A r \in A!Sessions : r # s => session'[r] = session[r]
         /\ session'[s].dev = d /\ session'[s].late = (device[d].st = "revoked")
         /\ (\A h \in Handlers : ajob'[h].at = "revoke" => ajob'[h] = ajob[h]) => A!SessionsNamed'
         /\ A!TokensUnique' /\ A!NoFork'
<1>1. /\ token < MaxTokens /\ token' = token + 1 /\ token \in 0 .. MaxTokens
      /\ session' = [session EXCEPT ![s] = [st |-> "live", dev |-> d, cur |-> token + 1, prev |-> 0,
                                            late |-> device[d].st = "revoked"]]
      /\ session \in [A!Sessions -> A!SessionRows]
  BY DEF A!NewSession, A!AccountInv, A!AccountSound, A!TypeOK
<1>2. token' \in 0 .. MaxTokens /\ token + 1 \in 0 .. MaxTokens /\ 0 \in 0 .. MaxTokens
  BY <1>1, AccountConstants
<1>3. session' \in [A!Sessions -> A!SessionRows]
  BY <1>1, <1>2 DEF A!SessionRows
<1>4. /\ \A r \in A!Sessions : r # s => session'[r] = session[r]
      /\ session'[s].dev = d /\ session'[s].late = (device[d].st = "revoked") /\ session'[s].cur = token + 1
  BY <1>1
<1>5. (\A h \in Handlers : ajob'[h].at = "revoke" => ajob'[h] = ajob[h]) => A!SessionsNamed'
  <2>1. session'[s].st = "live" /\ d # A!NoDevice
    BY <1>1 DEF A!NoDevice, A!Devices
  <2>2. \A h \in Handlers : ajob[h].at = "revoke" => ajob[h].ses \in A!Sessions
    BY DEF A!AccountInv, A!Jobs, A!Idle
  <2>3. QED
    BY <1>4, <2>1, <2>2 DEF A!AccountInv, A!SessionsNamed
<1>6. A!TokensUnique
  BY DEF A!AccountInv
<1>7. A!TokensUnique'
  <2>1. \A r \in A!Sessions : session[r].cur \in 0 .. MaxTokens /\ session[r].cur <= token
    BY <1>1, <1>6 DEF A!TokensUnique, A!SessionRows
  <2>2. \A r \in A!Sessions : session'[r].cur <= token'
    BY <1>1, <1>4, <2>1
  <2>3. \A r, q \in A!Sessions : session'[r].cur = session'[q].cur /\ session'[r].cur # 0 => r = q
    BY <1>1, <1>4, <1>6, <2>1 DEF A!TokensUnique
  <2>4. \A p \in child : p[1] \in 1 .. token' /\ \A r \in A!Sessions : session'[r].cur # p[1]
    BY <1>1, <1>4, <1>6, <2>1 DEF A!TokensUnique
  <2>5. QED
    BY <2>2, <2>3, <2>4 DEF A!TokensUnique
<1>8. A!NoFork'
  BY DEF A!NoFork, A!AccountInv
<1>9. QED
  BY <1>2, <1>3, <1>4, <1>5, <1>7, <1>8

LEMMA AccountRegister ==
  ASSUME A!AccountInv, NEW d \in A!Devices, NEW s \in A!Sessions, A!RegisterDevice(d, s)
  PROVE  A!AccountInv'
<1>1. /\ device[d].st = "none" /\ A!Cardinality(A!Active) < MaxDevicesPerUser /\ A!NewSession(s, d)
      /\ device' = [device EXCEPT ![d] = [st |-> "active", primary |-> A!Active = {}]]
      /\ device \in [A!Devices -> A!DeviceRows] /\ UNCHANGED <<link, ajob, child>>
  BY DEF A!RegisterDevice, A!Fresh, A!AccountInv, A!AccountSound, A!TypeOK
<1>2. /\ session' \in [A!Sessions -> A!SessionRows] /\ token' \in 0 .. MaxTokens
      /\ \A r \in A!Sessions : r # s => session'[r] = session[r]
      /\ session'[s].dev = d
      /\ A!SessionsNamed' /\ A!TokensUnique' /\ A!NoFork'
  BY <1>1, AccountNewSession
<1>3. /\ device' \in [A!Devices -> A!DeviceRows] /\ device'[d].st = "active"
      /\ (device'[d].primary => A!Active = {}) /\ \A e \in A!Devices : e # d => device'[e] = device[e]
  BY <1>1 DEF A!DeviceRows
<1>4. /\ A!OnePrimary' /\ Cardinality(A!Active') = Cardinality(A!Active) + 1
      /\ \A e \in A!Devices : device'[e].st = "none" => ~device'[e].primary
      /\ \A e \in A!Devices : device'[e].st = "revoked" => device[e].st = "revoked"
  BY <1>1, <1>3, AccountAdd
<1>5. A!ApprovalsCounted'
  <2>1. A!Approving' \subseteq Handlers /\ A!Active \subseteq A!Devices
    BY DEF A!Approving, A!Active
  <2>2. QED
    BY <1>1, <1>4, <2>1, AccountFinite, AccountCardinality, AccountConstants DEF A!ApprovalsCounted
<1>6. A!DeadDevices'
  <2>1. \A r \in A!Sessions : session[r].st # "none" => session[r].dev \in A!Devices
    BY DEF A!AccountInv, A!AccountSound, A!TypeOK, A!SessionRows, A!SessionsNamed
  <2>2. QED
    BY <1>2, <1>3, <1>4, <2>1 DEF A!DeadDevices, A!AccountInv, A!AccountSound
<1>7. A!LinksNamed' /\ ajob' \in [Handlers -> {A!Idle} \cup A!Jobs]
  BY <1>1 DEF A!LinksNamed, A!AccountInv
<1>8. A!TypeOK'
  BY <1>1, <1>2, <1>3 DEF A!TypeOK, A!AccountInv, A!AccountSound
<1>9. QED
  BY <1>2, <1>4, <1>5, <1>6, <1>7, <1>8, AccountCap DEF A!AccountInv, A!AccountSound

(* A handler moves on; nothing else changes.                               *)
LEMMA AccountMove ==
  ASSUME A!AccountInv, NEW h \in Handlers, NEW j \in {A!Idle} \cup A!Jobs,
         ajob' = [ajob EXCEPT ![h] = j], UNCHANGED <<device, session, link, token, child>>,
         j.at \in {"mint", "consume"} => link[j.lnk].dev # A!NoDevice,
         j.at = "revoke" => session[j.ses].st # "none",
         A!ApprovalsCounted'
  PROVE  A!AccountInv'
<1>1. A!LinksNamed'
  BY DEF A!LinksNamed, A!AccountInv
<1>2. ajob' \in [Handlers -> {A!Idle} \cup A!Jobs]
  BY DEF A!AccountInv
<1>3. A!TokensUnique' /\ A!NoFork'
  BY DEF A!AccountInv, A!TokensUnique, A!NoFork
<1>4. A!TypeOK' /\ A!OnePrimary' /\ A!DeadDevices'
  BY DEF A!AccountInv, A!AccountSound, A!TypeOK, A!OnePrimary, A!Active, A!DeadDevices
<1>5. (\A d \in A!Devices : device'[d].st = "none" => ~device'[d].primary) /\ A!SessionsNamed'
  BY DEF A!AccountInv, A!SessionsNamed
<1>6. QED
  BY <1>1, <1>2, <1>3, <1>4, <1>5, AccountCap DEF A!AccountInv, A!AccountSound

LEMMA AccountMoveOff ==
  ASSUME A!AccountInv, NEW h \in Handlers, NEW j \in {A!Idle} \cup A!Jobs,
         ajob' = [ajob EXCEPT ![h] = j], UNCHANGED <<device, session, link, token, child>>,
         j.at \in {"mint", "consume"} => link[j.lnk].dev # A!NoDevice,
         j.at = "revoke" => session[j.ses].st # "none",
         j.at # "approve"
  PROVE  A!AccountInv'
<1>1. A!Approving' \subseteq A!Approving /\ A!Active' = A!Active
  BY DEF A!Approving, A!Active, A!AccountInv
<1>2. QED
  BY <1>1, AccountUncounted, AccountMove

LEMMA AccountReads ==
  ASSUME A!AccountInv, NEW h \in Handlers,
         \/ \E t \in 1 .. token : A!Refresh(h, t)
         \/ \E l \in A!Links : A!LinkComplete(h, l)
         \/ A!ByRotatedFrom(h) \/ A!Abandon(h)
  PROVE  A!AccountInv'
<1>0. A!Idle.at = "idle"
  BY DEF A!Idle
<1>1. token \in 0 .. MaxTokens
  BY DEF A!AccountInv, A!AccountSound, A!TypeOK
<1>2. ASSUME NEW t \in 1 .. token, A!Refresh(h, t) PROVE A!AccountInv'
  <2>1. t \in 1 .. MaxTokens
    BY <1>1, AccountConstants
  <2>2. CASE ajob' = [ajob EXCEPT ![h] = [at |-> "reuse", tok |-> t]]
    <3> DEFINE j == [at |-> "reuse", tok |-> t]
    <3>1. j \in A!Jobs /\ j.at = "reuse" /\ ajob' = [ajob EXCEPT ![h] = j]
      BY <2>1, <2>2 DEF A!Jobs
    <3> HIDE DEF j
    <3>2. QED
      BY <1>2, <3>1, AccountMoveOff DEF A!Refresh
  <2>3. ASSUME NEW s \in A!Sessions, ajob' = [ajob EXCEPT ![h] = [at |-> "rotate", tok |-> t, ses |-> s]]
        PROVE  A!AccountInv'
    <3> DEFINE j == [at |-> "rotate", tok |-> t, ses |-> s]
    <3>1. j \in A!Jobs /\ j.at = "rotate" /\ ajob' = [ajob EXCEPT ![h] = j]
      BY <2>1, <2>3 DEF A!Jobs
    <3> HIDE DEF j
    <3>2. QED
      BY <1>2, <3>1, AccountMoveOff DEF A!Refresh
  <2>4. QED
    BY <1>2, <2>2, <2>3 DEF A!Refresh, A!Become
<1>3. ASSUME NEW l \in A!Links, A!LinkComplete(h, l) PROVE A!AccountInv'
  <2> DEFINE j == [at |-> "mint", lnk |-> l]
  <2>1. j \in A!Jobs /\ j.at = "mint" /\ j.lnk = l /\ link[l].dev # A!NoDevice /\ ajob' = [ajob EXCEPT ![h] = j]
    BY <1>3 DEF A!Jobs, A!LinkComplete, A!Become, A!GetLink, A!AccountInv, A!LinksNamed
  <2> HIDE DEF j
  <2>2. QED
    BY <1>3, <2>1, AccountMoveOff DEF A!LinkComplete
<1>4. CASE A!ByRotatedFrom(h)
  <2>1. ASSUME NEW s \in A!Sessions, session[s].prev = ajob[h].tok,
               ajob' = [ajob EXCEPT ![h] = [at |-> "revoke", ses |-> s]]
        PROVE  A!AccountInv'
    <3> DEFINE j == [at |-> "revoke", ses |-> s]
    <3>1. j \in A!Jobs /\ j.at = "revoke" /\ j.ses = s /\ ajob' = [ajob EXCEPT ![h] = j]
      BY <2>1 DEF A!Jobs
    <3>2. ajob[h].tok # 0
      BY <1>4 DEF A!ByRotatedFrom, A!AccountInv, A!Jobs, A!Idle
    <3>3. session[s].st # "none"
      BY <2>1, <3>2 DEF A!AccountInv, A!SessionsNamed
    <3> HIDE DEF j
    <3>4. QED
      BY <1>4, <3>1, <3>3, AccountMoveOff DEF A!ByRotatedFrom
  <2>2. CASE ajob' = [ajob EXCEPT ![h] = A!Idle]
    BY <1>0, <1>4, <2>2, AccountMoveOff DEF A!ByRotatedFrom
  <2>3. QED
    BY <1>4, <2>1, <2>2 DEF A!ByRotatedFrom, A!Become, A!Done
<1>5. CASE A!Abandon(h)
  BY <1>0, <1>5, AccountMoveOff DEF A!Abandon, A!Become, A!Done
<1>6. QED
  BY <1>2, <1>3, <1>4, <1>5

(* LinkApprove counts the devices before it joins the approvals.           *)
LEMMA AccountLinkApprove ==
  ASSUME A!AccountInv, NEW h \in Handlers, NEW by \in A!Devices, NEW l \in A!Links, A!LinkApprove(h, by, l)
  PROVE  A!AccountInv'
<1>1. /\ A!Cardinality(A!Active) < MaxDevicesPerUser /\ UNCHANGED <<device, session, link, token, child>>
      /\ ajob' = [ajob EXCEPT ![h] = [at |-> "approve", lnk |-> l]]
  BY DEF A!LinkApprove, A!Become
<1>2. [at |-> "approve", lnk |-> l] \in A!Jobs
  BY DEF A!Jobs
<1>3. A!Active' = A!Active /\ A!Active \subseteq A!Devices /\ A!Approving' \subseteq Handlers
  BY <1>1 DEF A!Active, A!Approving
<1>4. A!ApprovalsCounted'
  BY <1>1, <1>3, AccountFinite, AccountCardinality, AccountConstants DEF A!ApprovalsCounted
<1>5. QED
  BY <1>1, <1>2, <1>4, AccountMove

(* Sessions end, one by one or with their device.                          *)
LEMMA AccountEnd ==
  ASSUME A!AccountInv, session' \in [A!Sessions -> A!SessionRows],
         \A s \in A!Sessions : /\ session'[s].st = "none" <=> session[s].st = "none"
                               /\ session'[s].st = "live" => session[s].st = "live"
                               /\ session'[s].dev = session[s].dev /\ session'[s].cur = session[s].cur
                               /\ session'[s].prev = session[s].prev /\ session'[s].late = session[s].late,
         UNCHANGED <<link, token, child>>,
         \/ device' = device
         \/ /\ device' \in [A!Devices -> A!DeviceRows]
            /\ \A d \in A!Devices : /\ device'[d].primary = device[d].primary
                                    /\ device'[d].st = device[d].st
                                       \/ (device[d].st = "active" /\ device'[d].st = "revoked")
            /\ \A s \in A!Sessions : session'[s].st = "live" /\ session[s].dev \in A!Devices
                                     => device'[session[s].dev].st = device[session[s].dev].st,
         \/ ajob' = ajob
         \/ \E h \in Handlers : ajob' = [ajob EXCEPT ![h] = A!Idle]
  PROVE  A!AccountInv'
<1>1. A!LinksNamed' /\ ajob' \in [Handlers -> {A!Idle} \cup A!Jobs] /\ A!Approving' \subseteq A!Approving
  BY DEF A!LinksNamed, A!AccountInv, A!Idle, A!Approving
<1>2. A!TypeOK'
  BY DEF A!TypeOK, A!AccountInv, A!AccountSound
<1>3. A!TokensUnique' /\ A!NoFork'
  BY DEF A!AccountInv, A!TokensUnique, A!NoFork
<1>4. A!Active' \subseteq A!Active /\ (\A d \in A!Devices : device'[d].primary = device[d].primary)
      /\ (\A d \in A!Devices : device'[d].st = "none" => ~device'[d].primary)
  BY DEF A!Active, A!AccountInv
<1>5. A!OnePrimary'
  BY <1>4 DEF A!OnePrimary, A!AccountInv, A!AccountSound, A!Active
<1>6. \A s \in A!Sessions : session[s].st # "none" => session[s].dev \in A!Devices
  BY DEF A!AccountInv, A!AccountSound, A!TypeOK, A!SessionRows, A!SessionsNamed
<1>7. A!DeadDevices'
  BY <1>6 DEF A!DeadDevices, A!AccountInv, A!AccountSound
<1>8. A!SessionsNamed'
  <2>1. \A h \in Handlers : ajob[h].at = "revoke" => ajob[h].ses \in A!Sessions
    BY DEF A!AccountInv, A!Jobs, A!Idle
  <2>2. QED
    BY <2>1 DEF A!AccountInv, A!SessionsNamed, A!Idle
<1>9. QED
  BY <1>1, <1>2, <1>3, <1>4, <1>5, <1>7, <1>8, AccountUncounted, AccountCap DEF A!AccountInv, A!AccountSound

LEMMA AccountEnds ==
  ASSUME A!AccountInv,
         \/ \E h \in Handlers : A!RevokeReused(h)
         \/ \E s \in A!Sessions : A!Logout(s) \/ A!SessionExpires(s)
         \/ \E d, e \in A!Devices : A!Revoke(d, e)
  PROVE  A!AccountInv'
<1>0. session \in [A!Sessions -> A!SessionRows] /\ device \in [A!Devices -> A!DeviceRows]
  BY DEF A!AccountInv, A!AccountSound, A!TypeOK
<1>1. ASSUME NEW s \in A!Sessions, NEW st \in {"expired", "revoked"},
             session[s].st # "none", session' = [session EXCEPT ![s].st = st],
             UNCHANGED <<device, link, token, child>>,
             ajob' = ajob \/ \E h \in Handlers : ajob' = [ajob EXCEPT ![h] = A!Idle]
      PROVE  A!AccountInv'
  <2>1. /\ session' \in [A!Sessions -> A!SessionRows]
        /\ \A r \in A!Sessions : /\ session'[r].st = "none" <=> session[r].st = "none"
                                 /\ session'[r].st = "live" => session[r].st = "live"
                                 /\ session'[r].dev = session[r].dev /\ session'[r].cur = session[r].cur
                                 /\ session'[r].prev = session[r].prev /\ session'[r].late = session[r].late
    <3>1. session[s] \in A!SessionRows /\ session'[s] = [session[s] EXCEPT !.st = st]
          /\ \A r \in A!Sessions : r # s => session'[r] = session[r]
      BY <1>0, <1>1
    <3>2. session'[s] \in A!SessionRows /\ session'[s].st = st /\ session'[s].dev = session[s].dev
          /\ session'[s].cur = session[s].cur /\ session'[s].prev = session[s].prev
          /\ session'[s].late = session[s].late
      BY <3>1 DEF A!SessionRows
    <3>3. session' \in [A!Sessions -> A!SessionRows]
      BY <1>0, <1>1, <3>2
    <3>4. session[s].st \in {"live", "expired", "revoked"} \/ session[s].st = "none"
      BY <3>1 DEF A!SessionRows
    <3>5. \A r \in A!Sessions : session'[r].st = "none" <=> session[r].st = "none"
      BY <1>1, <3>1, <3>2
    <3>6. QED
      BY <3>1, <3>2, <3>3, <3>5
  <2>2. QED
    BY <1>1, <2>1, AccountEnd
<1>2. ASSUME NEW h \in Handlers, A!RevokeReused(h) PROVE A!AccountInv'
  <2>1. ajob[h].ses \in A!Sessions /\ session[ajob[h].ses].st # "none"
    BY <1>2 DEF A!RevokeReused, A!AccountInv, A!SessionsNamed, A!Jobs, A!Idle
  <2>2. QED
    BY <1>1, <1>2, <2>1 DEF A!RevokeReused, A!Revoked, A!Done, A!Become
<1>3. ASSUME NEW s \in A!Sessions, A!Logout(s) \/ A!SessionExpires(s) PROVE A!AccountInv'
  BY <1>1, <1>3 DEF A!Logout, A!SessionExpires, A!Revoked
<1>4. ASSUME NEW d \in A!Devices, A!RevokeDevice(d) PROVE A!AccountInv'
  <2>1. /\ device[d].st = "active" /\ device' = [device EXCEPT ![d].st = "revoked"]
        /\ session' = [s \in A!Sessions |-> IF session[s].dev = d THEN [session[s] EXCEPT !.st = "revoked"] ELSE session[s]]
        /\ UNCHANGED <<link, token, ajob, child>>
    BY <1>0, <1>4 DEF A!RevokeDevice, A!Revoked
  <2>2. d # A!NoDevice /\ A!SessionsNamed
    BY DEF A!Devices, A!NoDevice, A!AccountInv
  <2>6. \A r \in A!Sessions : session[r].dev = d
           => /\ session[r] \in A!SessionRows /\ session'[r] = [session[r] EXCEPT !.st = "revoked"]
              /\ session[r].st # "none"
    BY <1>0, <2>1, <2>2 DEF A!SessionsNamed
  <2>7. \A r \in A!Sessions : session[r].dev = d
           => /\ session'[r] \in A!SessionRows /\ session'[r].st = "revoked" /\ session'[r].dev = session[r].dev
              /\ session'[r].cur = session[r].cur /\ session'[r].prev = session[r].prev
              /\ session'[r].late = session[r].late
    BY <2>6 DEF A!SessionRows
  <2>8. \A r \in A!Sessions : session[r].dev # d => session'[r] = session[r]
    BY <2>1
  <2>9. session' \in [A!Sessions -> A!SessionRows]
    BY <1>0, <2>1, <2>7, <2>8
  <2>3. /\ session' \in [A!Sessions -> A!SessionRows]
        /\ \A r \in A!Sessions : /\ session'[r].st = "none" <=> session[r].st = "none"
                                 /\ session'[r].st = "live" => session[r].st = "live" /\ session[r].dev # d
                                 /\ session'[r].dev = session[r].dev /\ session'[r].cur = session[r].cur
                                 /\ session'[r].prev = session[r].prev /\ session'[r].late = session[r].late
    BY <2>6, <2>7, <2>8, <2>9
  <2>4. /\ device' \in [A!Devices -> A!DeviceRows]
        /\ \A e \in A!Devices : /\ device'[e].primary = device[e].primary
                                /\ device'[e].st = device[e].st
                                   \/ (device[e].st = "active" /\ device'[e].st = "revoked")
                                /\ e # d => device'[e].st = device[e].st
    <3>1. device[d] \in A!DeviceRows /\ device'[d] = [device[d] EXCEPT !.st = "revoked"]
          /\ \A e \in A!Devices : e # d => device'[e] = device[e]
      BY <1>0, <2>1
    <3>2. device'[d] \in A!DeviceRows /\ device'[d].st = "revoked" /\ device'[d].primary = device[d].primary
      BY <3>1 DEF A!DeviceRows
    <3>3. device' \in [A!Devices -> A!DeviceRows]
      BY <1>0, <2>1, <3>2
    <3>4. QED
      <4>1. device[d].st = "active"
        BY <2>1
      <4>2. QED
        BY <3>1, <3>2, <3>3, <4>1
  <2>5. QED
    BY <2>1, <2>3, <2>4, AccountEnd
<1>5. QED
  BY <1>2, <1>3, <1>4 DEF A!Revoke

(* Rotate replaces the token it names; nobody else holds it.               *)
LEMMA AccountRotate ==
  ASSUME A!AccountInv, NEW h \in Handlers, A!Rotate(h)
  PROVE  A!AccountInv'
<1> DEFINE s == ajob[h].ses
           t == ajob[h].tok
<1>1. /\ s \in A!Sessions /\ t \in 1 .. MaxTokens /\ ajob' = [ajob EXCEPT ![h] = A!Idle]
      /\ UNCHANGED <<device, link>> /\ token \in 0 .. MaxTokens /\ session \in [A!Sessions -> A!SessionRows]
  BY DEF A!Rotate, A!Done, A!Become, A!AccountInv, A!AccountSound, A!TypeOK, A!Jobs, A!Idle
<1>2. CASE UNCHANGED <<token, session, child>>
  <2>1. A!Idle.at = "idle"
    BY DEF A!Idle
  <2>2. QED
    BY <1>1, <1>2, <2>1, AccountMoveOff
<1>3. CASE /\ session[s].cur = t /\ token < MaxTokens /\ token' = token + 1
           /\ session' = [session EXCEPT ![s].cur = token + 1, ![s].prev = t]
           /\ child' = child \cup {<<t, token + 1>>}
  <2> HIDE DEF s, t
  <2>1. /\ session'[s] = [session[s] EXCEPT !.cur = token + 1, !.prev = t]
        /\ \A r \in A!Sessions : r # s => session'[r] = session[r]
    BY <1>1, <1>3
  <2>2. session'[s] \in A!SessionRows /\ session'[s].cur = token + 1 /\ session'[s].st = session[s].st
        /\ session'[s].dev = session[s].dev /\ session'[s].late = session[s].late
    <3>1. token + 1 \in 0 .. MaxTokens /\ t \in 0 .. MaxTokens
      BY <1>1, <1>3, AccountConstants
    <3>2. session[s] \in A!SessionRows
      BY <1>1
    <3>3. QED
      BY <2>1, <3>1, <3>2 DEF A!SessionRows
  <2>3. session' \in [A!Sessions -> A!SessionRows] /\ token' \in 0 .. MaxTokens
    BY <1>1, <1>3, <2>2, AccountConstants
  <2>4. A!TypeOK'
    BY <1>1, <2>3 DEF A!TypeOK, A!AccountInv, A!AccountSound
  <2>5. A!TokensUnique /\ A!SessionsNamed /\ A!NoFork
    BY DEF A!AccountInv
  <2>6. session[s].st # "none" /\ t \in 1 .. token
    BY <1>1, <1>3, <2>5 DEF A!SessionsNamed, A!TokensUnique
  <2>7. A!SessionsNamed'
    <3>1. \A k \in Handlers : ajob[k].at = "revoke" => ajob[k].ses \in A!Sessions
      BY DEF A!AccountInv, A!Jobs, A!Idle
    <3>2. \A k \in Handlers : ajob'[k].at = "revoke" => ajob'[k] = ajob[k]
      BY <1>1 DEF A!Idle, A!AccountInv
    <3>3. QED
      <4>1. \A r \in A!Sessions : /\ session'[r].st = session[r].st /\ session'[r].dev = session[r].dev
                                  /\ r # s => session'[r].cur = session[r].cur /\ session'[r].prev = session[r].prev
        BY <2>1, <2>2
      <4>2. \A k \in Handlers : ajob'[k].at = "revoke" => session'[ajob'[k].ses].st # "none"
        BY <2>5, <3>1, <3>2, <4>1 DEF A!SessionsNamed
      <4>3. QED
        BY <2>5, <2>6, <4>1, <4>2 DEF A!SessionsNamed
  <2>8. \A r \in A!Sessions : session[r].cur \in Nat /\ session[r].cur <= token
    BY <1>1, <2>5 DEF A!TokensUnique, A!SessionRows
  <2>9. A!TokensUnique'
    <3>1. \A r \in A!Sessions : session'[r].cur <= token' /\ session'[r].cur # t
      BY <1>1, <1>3, <2>1, <2>2, <2>5, <2>6, <2>8 DEF A!TokensUnique
    <3>2. \A r, q \in A!Sessions : session'[r].cur = session'[q].cur /\ session'[r].cur # 0 => r = q
      <4>1. \A r \in A!Sessions : r # s => session'[r].cur = session[r].cur /\ session'[r].cur # session'[s].cur
        BY <1>1, <2>1, <2>2, <2>8
      <4>2. QED
        BY <2>5, <4>1 DEF A!TokensUnique
    <3>3. \A p \in child : p[1] \in 1 .. token' /\ \A r \in A!Sessions : session'[r].cur # p[1]
      BY <1>1, <1>3, <2>1, <2>2, <2>5, <2>8 DEF A!TokensUnique
    <3>4. \A p \in child' : p \in child \/ p[1] = t
      BY <1>3
    <3>5. QED
      BY <1>1, <1>3, <2>6, <3>1, <3>2, <3>3, <3>4 DEF A!TokensUnique
  <2>10. A!NoFork'
    <3>1. \A p \in child : p[1] # t
      BY <1>1, <1>3, <2>5 DEF A!TokensUnique
    <3>2. QED
      BY <1>3, <2>5, <3>1 DEF A!NoFork
  <2>11. A!OnePrimary' /\ A!Active' = A!Active /\ A!Approving' \subseteq A!Approving
         /\ A!LinksNamed' /\ ajob' \in [Handlers -> {A!Idle} \cup A!Jobs]
         /\ (\A d \in A!Devices : device'[d].st = "none" => ~device'[d].primary)
    BY <1>1 DEF A!OnePrimary, A!Active, A!Approving, A!LinksNamed, A!AccountInv, A!AccountSound, A!Idle
  <2>12. A!DeadDevices'
    BY <1>1, <2>1, <2>2 DEF A!DeadDevices, A!AccountInv, A!AccountSound
  <2>13. QED
    BY <2>4, <2>7, <2>9, <2>10, <2>11, <2>12, AccountUncounted, AccountCap DEF A!AccountInv, A!AccountSound
<1>4. QED
  BY <1>2, <1>3 DEF A!Rotate, A!Rotates

(* A link advances; devices, sessions and tokens stay as they are.         *)
LEMMA AccountLinks ==
  ASSUME A!AccountInv, link' \in [A!Links -> A!LinkRows], UNCHANGED <<device, session, token, child>>,
         \A l \in A!Links :
            /\ link[l].dev # A!NoDevice => link'[l].dev # A!NoDevice
            /\ link'[l].st \in {"approved", "consumed"} => link'[l].dev # A!NoDevice,
         \/ ajob' = ajob
         \/ \E h \in Handlers : ajob' = [ajob EXCEPT ![h] = A!Idle]
  PROVE  A!AccountInv'
<1>1. \A k \in Handlers : ajob[k].at \in {"mint", "consume"} => ajob[k].lnk \in A!Links
  BY DEF A!AccountInv, A!Jobs, A!Idle
<1>2. /\ ajob' \in [Handlers -> {A!Idle} \cup A!Jobs]
      /\ \A k \in Handlers : ajob'[k].at # "idle" => ajob'[k] = ajob[k]
  BY DEF A!AccountInv, A!Idle
<1>3. A!LinksNamed'
  BY <1>1, <1>2 DEF A!LinksNamed, A!AccountInv
<1>4. A!Approving' \subseteq A!Approving /\ A!Active' = A!Active
  BY <1>2 DEF A!Approving, A!Active
<1>5. A!SessionsNamed' /\ A!TokensUnique' /\ A!NoFork'
  BY <1>2 DEF A!AccountInv, A!SessionsNamed, A!TokensUnique, A!NoFork
<1>6. A!TypeOK' /\ A!OnePrimary' /\ A!DeadDevices'
      /\ (\A d \in A!Devices : device'[d].st = "none" => ~device'[d].primary)
  BY DEF A!AccountInv, A!AccountSound, A!TypeOK, A!OnePrimary, A!Active, A!DeadDevices
<1>7. QED
  BY <1>2, <1>3, <1>4, <1>5, <1>6, AccountUncounted, AccountCap DEF A!AccountInv, A!AccountSound

LEMMA AccountLinkSteps ==
  ASSUME A!AccountInv,
         \/ \E l \in A!Links : A!LinkInit(l) \/ A!LinkExpires(l)
         \/ \E h \in Handlers : A!ConsumeLink(h)
  PROVE  A!AccountInv'
<1>0. link \in [A!Links -> A!LinkRows] /\ A!LinksNamed
  BY DEF A!AccountInv, A!AccountSound, A!TypeOK
<1>1. ASSUME NEW l \in A!Links, NEW r \in A!LinkRows, link' = [link EXCEPT ![l] = r], r.dev = link[l].dev,
             r.st \in {"approved", "consumed"} => r.dev # A!NoDevice,
             UNCHANGED <<device, session, token, child>>,
             ajob' = ajob \/ \E h \in Handlers : ajob' = [ajob EXCEPT ![h] = A!Idle]
      PROVE  A!AccountInv'
  <2>1. link' \in [A!Links -> A!LinkRows]
    BY <1>0, <1>1
  <2>2. \A k \in A!Links : /\ link[k].dev # A!NoDevice => link'[k].dev # A!NoDevice
                           /\ link'[k].st \in {"approved", "consumed"} => link'[k].dev # A!NoDevice
    BY <1>0, <1>1 DEF A!LinksNamed
  <2>3. QED
    BY <1>1, <2>1, <2>2, AccountLinks
<1>2. ASSUME NEW l \in A!Links, A!LinkInit(l) PROVE A!AccountInv'
  <2> DEFINE r == [link[l] EXCEPT !.st = "pending"]
  <2>1. r \in A!LinkRows /\ r.dev = link[l].dev /\ r.st = "pending"
    BY <1>0 DEF A!LinkRows
  <2>2. link' = [link EXCEPT ![l] = r] /\ UNCHANGED <<device, session, token, child, ajob>>
    BY <1>2 DEF A!LinkInit, A!CreateLink
  <2> HIDE DEF r
  <2>3. QED
    BY <1>1, <2>1, <2>2
<1>3. ASSUME NEW l \in A!Links, A!LinkExpires(l) PROVE A!AccountInv'
  <2> DEFINE r == [link[l] EXCEPT !.expired = TRUE]
  <2>1. r \in A!LinkRows /\ r.dev = link[l].dev /\ r.st = link[l].st
    BY <1>0 DEF A!LinkRows
  <2>2. link' = [link EXCEPT ![l] = r] /\ UNCHANGED <<device, session, token, child, ajob>>
    BY <1>3 DEF A!LinkExpires
  <2> HIDE DEF r
  <2>3. QED
    BY <1>0, <1>1, <2>1, <2>2 DEF A!LinksNamed
<1>4. ASSUME NEW h \in Handlers, A!ConsumeLink(h) PROVE A!AccountInv'
  <2> DEFINE l == ajob[h].lnk
             r == [link[l] EXCEPT !.st = "consumed"]
  <2>1. l \in A!Links /\ link[l].dev # A!NoDevice
    BY <1>0, <1>4 DEF A!ConsumeLink, A!LinksNamed, A!AccountInv, A!Jobs, A!Idle
  <2>2. r \in A!LinkRows /\ r.dev = link[l].dev
    BY <1>0, <2>1 DEF A!LinkRows
  <2>3. /\ link' = [link EXCEPT ![l] = r] /\ UNCHANGED <<device, session, token, child>>
        /\ ajob' = [ajob EXCEPT ![h] = A!Idle]
    BY <1>4 DEF A!ConsumeLink, A!Done, A!Become
  <2> HIDE DEF l, r
  <2>4. QED
    BY <1>1, <2>1, <2>2, <2>3
<1>5. QED
  BY <1>2, <1>3, <1>4

(* ApproveLink: the device it adds was counted for.                        *)
LEMMA AccountApproveLink ==
  ASSUME A!AccountInv, NEW h \in Handlers, NEW d \in A!Devices, A!ApproveLink(h, d)
  PROVE  A!AccountInv'
<1> DEFINE l == ajob[h].lnk
<1>1. /\ ajob[h].at = "approve" /\ l \in A!Links /\ ajob' = [ajob EXCEPT ![h] = A!Idle]
      /\ UNCHANGED <<session, token, child>> /\ link \in [A!Links -> A!LinkRows]
      /\ device \in [A!Devices -> A!DeviceRows] /\ A!LinksNamed
  BY DEF A!ApproveLink, A!Done, A!Become, A!AccountInv, A!AccountSound, A!TypeOK, A!Jobs, A!Idle
<1>2. CASE UNCHANGED <<link, device>>
  <2>1. A!Idle.at = "idle"
    BY DEF A!Idle
  <2>2. QED
    BY <1>1, <1>2, <2>1, AccountMoveOff
<1>3. CASE /\ device[d].st = "none" /\ link' = [link EXCEPT ![l].st = "approved", ![l].dev = d]
           /\ device' = [device EXCEPT ![d].st = "active"]
  <2> HIDE DEF l
  <2>1. device'[d] = [device[d] EXCEPT !.st = "active"] /\ (\A e \in A!Devices : e # d => device'[e] = device[e])
        /\ device[d] \in A!DeviceRows /\ ~device[d].primary
    BY <1>1, <1>3 DEF A!AccountInv
  <2>2. device'[d] \in A!DeviceRows /\ device'[d].st = "active" /\ ~device'[d].primary
    BY <2>1 DEF A!DeviceRows
  <2>3. device' \in [A!Devices -> A!DeviceRows]
    BY <1>1, <1>3, <2>2
  <2>4. /\ A!OnePrimary' /\ Cardinality(A!Active') = Cardinality(A!Active) + 1
        /\ \A e \in A!Devices : device'[e].st = "none" => ~device'[e].primary
        /\ \A e \in A!Devices : device'[e].st = "revoked" => device[e].st = "revoked"
    BY <1>3, <2>1, <2>2, <2>3, AccountAdd
  <2>5. A!Approving' = A!Approving \ {h} /\ h \in A!Approving
    BY <1>1 DEF A!Approving, A!Idle, A!AccountInv
  <2>6. A!Approving \subseteq Handlers /\ A!Active \subseteq A!Devices
    BY DEF A!Approving, A!Active
  <2>7. Cardinality(A!Approving') = Cardinality(A!Approving) - 1
    BY <2>5, <2>6, AccountFinite, FS_RemoveElement
  <2>8. A!ApprovalsCounted'
    BY <2>4, <2>6, <2>7, AccountFinite, AccountCardinality, AccountConstants DEF A!ApprovalsCounted, A!AccountInv
  <2>9. link'[l] = [link[l] EXCEPT !.st = "approved", !.dev = d] /\ link[l] \in A!LinkRows
        /\ \A k \in A!Links : k # l => link'[k] = link[k]
    BY <1>1, <1>3
  <2>10. link'[l] \in A!LinkRows /\ link'[l].dev = d /\ d # A!NoDevice
    <3>1. link'[l] \in A!LinkRows /\ link'[l].dev = d
      BY <2>9 DEF A!LinkRows
    <3>2. QED
      BY <3>1 DEF A!NoDevice, A!Devices
  <2>11. link' \in [A!Links -> A!LinkRows]
    BY <1>1, <1>3, <2>10
  <2>12. /\ ajob' \in [Handlers -> {A!Idle} \cup A!Jobs]
         /\ \A k \in Handlers : ajob'[k].at # "idle" => ajob'[k] = ajob[k]
    BY <1>1 DEF A!AccountInv, A!Idle
  <2>13. A!LinksNamed'
    <3>1. \A k \in Handlers : ajob[k].at \in {"mint", "consume"} => ajob[k].lnk \in A!Links
      BY DEF A!AccountInv, A!Jobs, A!Idle
    <3>2. QED
      BY <1>1, <2>9, <2>10, <2>12, <3>1 DEF A!LinksNamed
  <2>14. A!TypeOK'
    BY <1>1, <2>3, <2>11 DEF A!TypeOK, A!AccountInv, A!AccountSound
  <2>15. A!SessionsNamed' /\ A!TokensUnique' /\ A!NoFork'
    BY <1>1, <2>12 DEF A!AccountInv, A!SessionsNamed, A!TokensUnique, A!NoFork
  <2>16. A!DeadDevices'
    <3>1. \A r \in A!Sessions : session[r].st # "none" => session[r].dev \in A!Devices
      BY DEF A!AccountInv, A!AccountSound, A!TypeOK, A!SessionRows, A!SessionsNamed
    <3>2. QED
      BY <1>1, <2>4, <3>1 DEF A!DeadDevices, A!AccountInv, A!AccountSound
  <2>17. QED
    BY <2>4, <2>8, <2>12, <2>13, <2>14, <2>15, <2>16, AccountCap DEF A!AccountInv, A!AccountSound
<1>4. QED
  BY <1>2, <1>3 DEF A!ApproveLink, A!Fresh

LEMMA AccountMint ==
  ASSUME A!AccountInv, NEW h \in Handlers, NEW s \in A!Sessions, A!MintLinkedSession(h, s)
  PROVE  A!AccountInv'
<1> DEFINE l == ajob[h].lnk
           d == link[l].dev
           j == [ajob[h] EXCEPT !.at = "consume"]
<1>1. /\ ajob[h].at = "mint" /\ l \in A!Links /\ ajob[h] \in [at : {"approve", "mint", "consume"}, lnk : A!Links]
      /\ ajob' = [ajob EXCEPT ![h] = j] /\ UNCHANGED <<device, link, child>>
      /\ A!NewSession(s, d) /\ A!LinksNamed /\ link \in [A!Links -> A!LinkRows]
  BY DEF A!MintLinkedSession, A!Become, A!AccountInv, A!AccountSound, A!TypeOK, A!Jobs, A!Idle
<1>2. j \in [at : {"approve", "mint", "consume"}, lnk : A!Links] /\ j.at = "consume" /\ j.lnk = l
  BY <1>1
<1>3. j \in A!Jobs
  BY <1>2 DEF A!Jobs
<1>4. d # A!NoDevice /\ d \in A!Devices
  BY <1>1 DEF A!LinksNamed, A!LinkRows
<1> HIDE DEF j, d, l
<1>5. \A k \in Handlers : ajob'[k] = (IF k = h THEN j ELSE ajob[k])
  BY <1>1 DEF A!AccountInv
<1>6. ajob' \in [Handlers -> {A!Idle} \cup A!Jobs]
  BY <1>1, <1>3 DEF A!AccountInv
<1>7. A!LinksNamed'
  BY <1>1, <1>2, <1>4, <1>5 DEF A!LinksNamed, d
<1>8. /\ session' \in [A!Sessions -> A!SessionRows] /\ token' \in 0 .. MaxTokens
      /\ \A r \in A!Sessions : r # s => session'[r] = session[r]
      /\ session'[s].dev = d /\ session'[s].late = (device[d].st = "revoked")
      /\ (\A k \in Handlers : ajob'[k].at = "revoke" => ajob'[k] = ajob[k]) => A!SessionsNamed'
      /\ A!TokensUnique' /\ A!NoFork'
  BY <1>1, <1>4, AccountNewSession
<1>9. A!SessionsNamed'
  BY <1>2, <1>5, <1>8
<1>10. A!TypeOK'
  BY <1>1, <1>8 DEF A!TypeOK, A!AccountInv, A!AccountSound
<1>11. A!DeadDevices'
  BY <1>1, <1>8 DEF A!DeadDevices, A!AccountInv, A!AccountSound
<1>12. A!Active' = A!Active /\ A!OnePrimary'
       /\ (\A e \in A!Devices : device'[e].st = "none" => ~device'[e].primary)
  BY <1>1 DEF A!Active, A!OnePrimary, A!AccountInv, A!AccountSound
<1>13. A!Approving' \subseteq A!Approving
  BY <1>2, <1>5 DEF A!Approving
<1>14. QED
  BY <1>6, <1>7, <1>8, <1>9, <1>10, <1>11, <1>12, <1>13, AccountUncounted, AccountCap DEF A!AccountInv, A!AccountSound

LEMMA AccountStep == A!AccountInv /\ [A!Next]_AVars => A!AccountInv'
<1> SUFFICES ASSUME A!AccountInv, [A!Next]_AVars PROVE A!AccountInv'
  OBVIOUS
<1>1. CASE UNCHANGED AVars
  BY <1>1 DEF AVars, A!AccountInv, A!AccountSound, A!TypeOK, A!NoFork, A!OnePrimary, A!DeviceCap, A!Active,
              A!DeadDevices, A!SessionsNamed, A!LinksNamed, A!TokensUnique, A!ApprovalsCounted, A!Approving
<1>2. CASE A!Next
  BY <1>2, AccountRegister, AccountReads, AccountLinkApprove, AccountEnds, AccountRotate, AccountLinkSteps,
     AccountApproveLink, AccountMint DEF A!Next
<1>3. QED
  BY <1>1, <1>2

-----------------------------------------------------------------------------
(* Prekeys.                                                                *)

LEMMA PrekeyCardinality == ASSUME NEW S PROVE K!Cardinality(S) = Cardinality(S)
  BY DEF K!Cardinality, Cardinality, K!IsFiniteSet, IsFiniteSet

(* A set without two different elements has at most one.                   *)
(* The types, the row of a key and the claims on it.                       *)
LEMMA PrekeyParts ==
  ASSUME K!PrekeysInv
  PROVE  /\ active \subseteq KeyDevices /\ signed \subseteq KeyDevices
         /\ prekey \in [KeyDevices -> [KeyIds -> {"none", "free", "used"}]]
         /\ fetch \in [Handlers -> [at : {"idle", "claim"}, todo : SUBSET KeyDevices,
                                    got : SUBSET (KeyDevices \X KeyIds)]]
         /\ handed \in [KeyDevices -> [KeyIds -> Nat]]
         /\ K!ClaimsHold
         /\ \A d \in active, k \in KeyIds :
               handed[d][k] <= 1 /\ (handed[d][k] = 1 => prekey[d][k] = "used")
  BY DEF K!PrekeysInv, K!PrekeysSound, K!TypeOK, K!PrekeyOnce

(* The converse, after a step: that a key is claimed once is the cardinality *)
(* the property states.                                                    *)
LEMMA PrekeyWhole ==
  ASSUME active' \subseteq KeyDevices, signed' \subseteq KeyDevices,
         prekey' \in [KeyDevices -> [KeyIds -> {"none", "free", "used"}]],
         fetch' \in [Handlers -> [at : {"idle", "claim"}, todo : SUBSET KeyDevices,
                                  got : SUBSET (KeyDevices \X KeyIds)]],
         handed' \in [KeyDevices -> [KeyIds -> Nat]],
         K!ClaimsHold',
         \A d \in active', k \in KeyIds :
               handed'[d][k] <= 1 /\ (handed'[d][k] = 1 => prekey'[d][k] = "used")
  PROVE  K!PrekeysInv'
<1>1. \A f \in Handlers : fetch'[f].todo \subseteq KeyDevices
  OBVIOUS
<1>2. ASSUME NEW d \in active', NEW k \in KeyIds
      PROVE  K!Cardinality({f \in Handlers : <<d, k>> \in fetch'[f].got}) <= 1
  <2> DEFINE S == {f \in Handlers : <<d, k>> \in fetch'[f].got}
  <2>1. \A f, g \in S : f = g
    BY DEF K!ClaimsHold
  <2> HIDE DEF S
  <2>2. Cardinality(S) <= 1
    BY <2>1, AtMostOne
  <2>3. QED
    BY <2>2, PrekeyCardinality DEF S
<1>3. K!PrekeyOnce'
  BY <1>2 DEF K!PrekeyOnce
<1>4. QED
  BY <1>1, <1>3 DEF K!PrekeysInv, K!PrekeysSound, K!TypeOK

LEMMA PrekeyInit == K!Init => K!PrekeysInv
<1> SUFFICES ASSUME K!Init PROVE K!PrekeysInv
  OBVIOUS
<1>1. K!TypeOK /\ K!ClaimsHold /\ handed \in [KeyDevices -> [KeyIds -> Nat]]
      /\ fetch \in [Handlers -> [at : {"idle", "claim"}, todo : SUBSET KeyDevices, got : SUBSET (KeyDevices \X KeyIds)]]
  BY DEF K!Init, K!TypeOK, K!ClaimsHold, K!Idle
<1>2. ASSUME NEW d \in active, NEW k \in KeyIds
      PROVE  K!Cardinality({f \in Handlers : <<d, k>> \in fetch[f].got}) <= 1
  <2>1. {f \in Handlers : <<d, k>> \in fetch[f].got} = {}
    BY DEF K!Init, K!Idle
  <2>2. Cardinality({}) <= 1
    BY FS_EmptySet
  <2>3. QED
    BY <2>1, <2>2, PrekeyCardinality
<1>3. K!PrekeyOnce
  BY <1>2 DEF K!PrekeyOnce, K!Init
<1>4. QED
  BY <1>1, <1>3 DEF K!PrekeysInv, K!PrekeysSound

LEMMA PrekeyPublish ==
  ASSUME K!PrekeysInv, NEW d \in KeyDevices,
         \/ K!ReplaceSignedPrekey(d)
         \/ \E ids \in SUBSET KeyIds : K!AddOneTimePrekeys(d, ids)
  PROVE  K!PrekeysInv'
<1>1. CASE UNCHANGED <<active, prekey, fetch, handed>> /\ signed' \subseteq KeyDevices
  BY <1>1, PrekeyParts, PrekeyWhole DEF K!ClaimsHold
<1>2. ASSUME NEW ids \in SUBSET KeyIds, UNCHANGED <<active, fetch, signed, handed>>,
             prekey' = [prekey EXCEPT ![d] = K!Added(ids, @)]
      PROVE  K!PrekeysInv'
  <2>1. prekey' \in [KeyDevices -> [KeyIds -> {"none", "free", "used"}]]
    BY <1>2, PrekeyParts DEF K!Added
  <2>2. \A e \in KeyDevices, k \in KeyIds : prekey[e][k] # "none" => prekey'[e][k] = prekey[e][k]
    BY <1>2, PrekeyParts DEF K!Added
  <2>3. \A f \in Handlers : \A c \in fetch[f].got : c[1] \in KeyDevices /\ c[2] \in KeyIds
    BY PrekeyParts
  <2>4. K!ClaimsHold'
    BY <1>2, <2>2, <2>3, PrekeyParts DEF K!ClaimsHold
  <2>5. QED
    BY <1>2, <2>1, <2>2, <2>4, PrekeyParts, PrekeyWhole
<1>3. QED
  BY <1>1, <1>2, PrekeyParts DEF K!ReplaceSignedPrekey, K!AddOneTimePrekeys

LEMMA PrekeyRevoke ==
  ASSUME K!PrekeysInv, NEW d \in KeyDevices, K!RevokeDevice(d)
  PROVE  K!PrekeysInv'
<1>1. /\ active' = active \ {d} /\ signed' = signed \ {d} /\ UNCHANGED <<fetch, handed>>
      /\ prekey' = [prekey EXCEPT ![d] = [k \in KeyIds |-> "none"]]
      /\ \A k \in KeyIds : <<d, k>> \notin K!Locked
  BY DEF K!RevokeDevice
<1>2. \A f \in Handlers : \A c \in fetch[f].got : c[1] \in KeyDevices /\ c[2] \in KeyIds /\ c = <<c[1], c[2]>>
  BY PrekeyParts
<1>3. \A f \in Handlers : \A c \in fetch[f].got : c[1] # d
  BY <1>1, <1>2 DEF K!Locked
<1>4. prekey' \in [KeyDevices -> [KeyIds -> {"none", "free", "used"}]]
      /\ \A e \in KeyDevices : e # d => prekey'[e] = prekey[e]
  BY <1>1, PrekeyParts
<1>5. K!ClaimsHold'
  BY <1>1, <1>2, <1>3, <1>4, PrekeyParts DEF K!ClaimsHold
<1>6. QED
  BY <1>1, <1>4, <1>5, PrekeyParts, PrekeyWhole

LEMMA PrekeyFetch ==
  ASSUME K!PrekeysInv, NEW f \in Handlers, K!FetchBundle(f) \/ K!RollbackBundle(f)
  PROVE  K!PrekeysInv'
<1>1. /\ UNCHANGED <<active, signed, prekey, handed>>
      /\ fetch' \in [Handlers -> [at : {"idle", "claim"}, todo : SUBSET KeyDevices, got : SUBSET (KeyDevices \X KeyIds)]]
      /\ \A g \in Handlers : fetch'[g].got \subseteq fetch[g].got
  BY PrekeyParts DEF K!FetchBundle, K!RollbackBundle, K!Idle
<1>2. K!ClaimsHold'
  BY <1>1, PrekeyParts DEF K!ClaimsHold
<1>3. QED
  BY <1>1, <1>2, PrekeyParts, PrekeyWhole

(* Claim locks keys that are free and that nobody has locked.              *)
LEMMA PrekeyClaim ==
  ASSUME K!PrekeysInv, NEW f \in Handlers, NEW d \in KeyDevices, K!Claim(f, d)
  PROVE  K!PrekeysInv'
<1>1. PICK picked : /\ picked \subseteq K!Pickable(d) /\ UNCHANGED <<active, signed, prekey, handed>>
                    /\ fetch' = [fetch EXCEPT ![f].todo = @ \ {d}, ![f].got = @ \cup {<<d, k>> : k \in picked}]
  BY DEF K!Claim
<1> DEFINE new == {<<d, k>> : k \in picked}
<1>2. new \subseteq KeyDevices \X KeyIds /\ \A c \in new : prekey[c[1]][c[2]] = "free" /\ c \notin K!Locked
  BY <1>1 DEF K!Pickable
<1>3. /\ fetch[f] \in [at : {"idle", "claim"}, todo : SUBSET KeyDevices, got : SUBSET (KeyDevices \X KeyIds)]
      /\ fetch'[f] = [fetch[f] EXCEPT !.todo = @ \ {d}, !.got = @ \cup new]
      /\ \A g \in Handlers : g # f => fetch'[g] = fetch[g]
  BY <1>1, PrekeyParts
<1> HIDE DEF new
<1>4. /\ fetch'[f] \in [at : {"idle", "claim"}, todo : SUBSET KeyDevices, got : SUBSET (KeyDevices \X KeyIds)]
      /\ fetch'[f].got = fetch[f].got \cup new
  BY <1>2, <1>3
<1>5. fetch' \in [Handlers -> [at : {"idle", "claim"}, todo : SUBSET KeyDevices, got : SUBSET (KeyDevices \X KeyIds)]]
  <2>1. fetch' = [fetch EXCEPT ![f] = fetch'[f]]
    BY <1>1, PrekeyParts
  <2>2. QED
    BY <1>4, <2>1, PrekeyParts
<1>6. ASSUME NEW g \in Handlers, NEW c \in new PROVE c \notin fetch[g].got
  <2>1. fetch[g].got \subseteq K!Locked
    BY DEF K!Locked
  <2>2. QED
    BY <1>2, <2>1
<1>7. UNCHANGED <<active, signed, prekey, handed>>
  BY <1>1
<1>8. K!ClaimsHold'
  <2> SUFFICES ASSUME NEW g \in Handlers, NEW c \in fetch'[g].got
               PROVE  prekey[c[1]][c[2]] = "free" /\ \A h \in Handlers : c \in fetch'[h].got => g = h
    BY <1>7 DEF K!ClaimsHold
  <2>1. K!ClaimsHold
    BY PrekeyParts
  <2>2. CASE c \in new
    <3>1. \A h \in Handlers : c \in fetch'[h].got => h = f
      BY <1>3, <1>6, <2>2
    <3>2. QED
      BY <1>2, <2>2, <3>1
  <2>3. CASE c \notin new
    <3>1. \A h \in Handlers : c \in fetch'[h].got => c \in fetch[h].got
      BY <1>3, <1>4, <2>3
    <3>2. QED
      BY <2>1, <3>1 DEF K!ClaimsHold
  <2>4. QED
    BY <2>2, <2>3
<1>9. QED
  BY <1>5, <1>7, <1>8, PrekeyParts, PrekeyWhole

(* CommitBundle: what was claimed was free, so it had not been handed out. *)
LEMMA PrekeyCommit ==
  ASSUME K!PrekeysInv, NEW f \in Handlers, K!CommitBundle(f)
  PROVE  K!PrekeysInv'
<1> DEFINE got == fetch[f].got
<1>1. /\ UNCHANGED <<active, signed>> /\ fetch' = [fetch EXCEPT ![f] = K!Idle]
      /\ prekey' = [d \in KeyDevices |-> [k \in KeyIds |-> IF <<d, k>> \in got THEN "used" ELSE prekey[d][k]]]
      /\ handed' = [d \in KeyDevices |-> [k \in KeyIds |->
                      IF <<d, k>> \in got THEN handed[d][k] + 1 ELSE handed[d][k]]]
  BY DEF K!CommitBundle
<1>2. /\ fetch' \in [Handlers -> [at : {"idle", "claim"}, todo : SUBSET KeyDevices, got : SUBSET (KeyDevices \X KeyIds)]]
      /\ \A g \in Handlers : g # f => fetch'[g] = fetch[g]
      /\ fetch'[f].got = {}
  BY <1>1, PrekeyParts DEF K!Idle
<1>3. \A d \in KeyDevices, k \in KeyIds : <<d, k>> \in got => prekey[d][k] = "free"
  BY PrekeyParts DEF K!ClaimsHold
<1>4. \A g \in Handlers : \A c \in fetch[g].got : c[1] \in KeyDevices /\ c[2] \in KeyIds /\ c = <<c[1], c[2]>>
  BY PrekeyParts
<1>5. \A g \in Handlers, c \in got : g # f => c \notin fetch[g].got
  BY PrekeyParts DEF K!ClaimsHold
<1> HIDE DEF got
<1>6. \A d \in KeyDevices, k \in KeyIds :
         /\ prekey'[d][k] = (IF <<d, k>> \in got THEN "used" ELSE prekey[d][k])
         /\ handed'[d][k] = (IF <<d, k>> \in got THEN handed[d][k] + 1 ELSE handed[d][k])
  BY <1>1
<1>7. prekey' \in [KeyDevices -> [KeyIds -> {"none", "free", "used"}]] /\ handed' \in [KeyDevices -> [KeyIds -> Nat]]
  <2>1. \A d \in KeyDevices, k \in KeyIds : handed[d][k] \in Nat /\ prekey[d][k] \in {"none", "free", "used"}
    BY PrekeyParts
  <2>2. \A d \in KeyDevices, k \in KeyIds : handed[d][k] + 1 \in Nat
    BY <2>1
  <2>3. QED
    BY <1>1, <2>1, <2>2
<1>8. K!ClaimsHold'
  <2> SUFFICES ASSUME NEW g \in Handlers, NEW c \in fetch'[g].got
               PROVE  prekey'[c[1]][c[2]] = "free" /\ \A h \in Handlers : c \in fetch'[h].got => g = h
    BY DEF K!ClaimsHold
  <2>1. K!ClaimsHold
    BY PrekeyParts
  <2>2. \A h \in Handlers : c \in fetch'[h].got => h # f /\ c \in fetch[h].got
    BY <1>2
  <2>3. c \notin got /\ c[1] \in KeyDevices /\ c[2] \in KeyIds /\ c = <<c[1], c[2]>> /\ c \in fetch[g].got
    BY <1>4, <1>5, <2>2
  <2>4. prekey'[c[1]][c[2]] = prekey[c[1]][c[2]]
    BY <1>6, <2>3
  <2>5. QED
    BY <2>1, <2>2, <2>3, <2>4 DEF K!ClaimsHold
<1>9. ASSUME NEW d \in active', NEW k \in KeyIds
      PROVE  handed'[d][k] <= 1 /\ (handed'[d][k] = 1 => prekey'[d][k] = "used")
  <2>1. d \in KeyDevices /\ d \in active /\ handed[d][k] \in Nat
    BY <1>1, PrekeyParts
  <2>2. handed[d][k] <= 1 /\ (handed[d][k] = 1 => prekey[d][k] = "used")
    BY <2>1, PrekeyParts
  <2>3. CASE <<d, k>> \in got
    <3>1. handed[d][k] # 1
      BY <1>3, <2>1, <2>2, <2>3
    <3>2. handed'[d][k] = handed[d][k] + 1 /\ prekey'[d][k] = "used"
      BY <1>6, <2>1, <2>3
    <3>3. QED
      BY <2>1, <2>2, <3>1, <3>2
  <2>4. CASE <<d, k>> \notin got
    BY <1>6, <2>1, <2>2, <2>4
  <2>5. QED
    BY <2>3, <2>4
<1>10. QED
  BY <1>1, <1>2, <1>7, <1>8, <1>9, PrekeyParts, PrekeyWhole

LEMMA PrekeyStep == K!PrekeysInv /\ [K!Next]_KVars => K!PrekeysInv'
<1> SUFFICES ASSUME K!PrekeysInv, [K!Next]_KVars PROVE K!PrekeysInv'
  OBVIOUS
<1>1. CASE UNCHANGED KVars
  BY <1>1, PrekeyParts, PrekeyWhole DEF KVars, K!ClaimsHold
<1>2. CASE K!Next
  BY <1>2, PrekeyPublish, PrekeyRevoke, PrekeyFetch, PrekeyClaim, PrekeyCommit DEF K!Next
<1>3. QED
  BY <1>1, <1>2

-----------------------------------------------------------------------------
(* Passkeys.                                                               *)

LEMMA PasskeyCardinality == ASSUME NEW S PROVE Y!Cardinality(S) = Cardinality(S)
  BY DEF Y!Cardinality, Cardinality, Y!IsFiniteSet, IsFiniteSet

LEMMA PasskeyFinite ==
  /\ \A S \in SUBSET Creds : IsFiniteSet(S) /\ Cardinality(S) \in Nat
  /\ \A S \in SUBSET Handlers : IsFiniteSet(S) /\ Cardinality(S) \in Nat /\ Cardinality(S) <= Cardinality(Handlers)
  /\ Cardinality(Handlers) \in Nat
  BY PasskeyConstants, FS_Subset, FS_CardinalityType

LEMMA PasskeyInit == Y!Init => Y!PasskeysInv
<1> SUFFICES ASSUME Y!Init PROVE Y!PasskeysInv
  OBVIOUS
<1>1. Y!TypeOK
  BY PasskeyConstants DEF Y!Init, Y!TypeOK, Y!Absent
<1>2. Y!ChallengeOnce /\ Y!ReplayNeedsLostWrite /\ Y!TakenOnce /\ Y!CountersKept
      /\ yjob \in [Handlers -> {Y!Idle} \cup Y!Jobs] /\ passed \subseteq PasskeyChallenges \X Creds \X (0 .. MaxCount)
  BY DEF Y!Init, Y!ChallengeOnce, Y!ReplayNeedsLostWrite, Y!TakenOnce, Y!CountersKept, Y!Idle
<1>3. Y!Stored = {} /\ Y!Creating = {}
  BY DEF Y!Init, Y!Stored, Y!Creating, Y!Idle
<1>4. Cardinality(Y!Stored) = 0 /\ Cardinality(Y!Creating) = 0
  BY <1>3, FS_EmptySet
<1>5. Y!EnrolmentsCounted /\ Y!CredCap
  BY <1>4, PasskeyFinite, PasskeyCardinality, PasskeyConstants DEF Y!EnrolmentsCounted, Y!CredCap
<1>6. QED
  BY <1>1, <1>2, <1>5 DEF Y!PasskeysInv, Y!PasskeysSound

(* The cap follows from the count of the enrolments.                       *)
LEMMA PasskeyCap == Y!EnrolmentsCounted' => Y!CredCap'
<1>1. Y!Stored' \subseteq Creds /\ Y!Creating' \subseteq Handlers
  BY DEF Y!Stored, Y!Creating
<1>2. QED
  BY <1>1, PasskeyFinite, PasskeyCardinality, PasskeyConstants DEF Y!EnrolmentsCounted, Y!CredCap

LEMMA PasskeyUncounted ==
  ASSUME Y!PasskeysInv, Y!Stored' \subseteq Y!Stored, Y!Creating' \subseteq Y!Creating
  PROVE  Y!EnrolmentsCounted'
<1>1. Y!Stored \subseteq Creds /\ Y!Creating \subseteq Handlers
  BY DEF Y!Stored, Y!Creating
<1>2. Cardinality(Y!Stored') <= Cardinality(Y!Stored) /\ Cardinality(Y!Creating') <= Cardinality(Y!Creating)
  BY <1>1, PasskeyFinite, FS_Subset
<1>3. Cardinality(Y!Stored') \in Nat /\ Cardinality(Y!Creating') \in Nat
  BY <1>1, PasskeyFinite
<1>4. QED
  BY <1>1, <1>2, <1>3, PasskeyFinite, PasskeyCardinality, PasskeyConstants DEF Y!EnrolmentsCounted, Y!PasskeysInv

LEMMA PasskeyJob ==
  ASSUME Y!PasskeysInv, NEW h \in Handlers
  PROVE  /\ yjob[h] = Y!Idle \/ yjob[h] \in Y!Jobs
         /\ yjob[h] = Y!Idle <=> yjob[h].at = "idle"
         /\ yjob[h] # Y!Idle => yjob[h].ch \in PasskeyChallenges /\ yjob[h].key \in Creds
         /\ yjob[h].at \in {"get", "update"} => yjob[h].count \in 0 .. MaxCount
         /\ yjob[h].at = "update" => yjob[h].read \in 0 .. MaxCount
  BY DEF Y!PasskeysInv, Y!Jobs, Y!Idle

(* Challenges are issued and expire.                                       *)
LEMMA PasskeyIssue ==
  ASSUME Y!PasskeysInv, NEW c \in PasskeyChallenges,
         Y!Expire(c) \/ Y!BeginRegistration(c) \/ Y!BeginLogin(c)
  PROVE  Y!PasskeysInv'
<1>1. /\ UNCHANGED <<cred, yjob, passed, lost>> /\ expired' \subseteq PasskeyChallenges
      /\ challenge' \in [PasskeyChallenges -> {"none", "login", "register", "taken"}]
      /\ \A d \in PasskeyChallenges : challenge[d] = "taken" => challenge'[d] = "taken"
  BY DEF Y!Expire, Y!BeginRegistration, Y!BeginLogin, Y!Issue, Y!PasskeysInv, Y!PasskeysSound, Y!TypeOK
<1>2. Y!TakenOnce'
  <2>1. \A p \in passed : p[1] \in PasskeyChallenges
    BY DEF Y!PasskeysInv
  <2>2. QED
    BY <1>1, <2>1, PasskeyJob DEF Y!TakenOnce, Y!PasskeysInv
<1>3. Y!CountersKept' /\ Y!ChallengeOnce' /\ Y!ReplayNeedsLostWrite'
  BY <1>1 DEF Y!CountersKept, Y!ChallengeOnce, Y!ReplayNeedsLostWrite, Y!PasskeysInv, Y!PasskeysSound
<1>4. Y!Stored' = Y!Stored /\ Y!Creating' = Y!Creating
  BY <1>1 DEF Y!Stored, Y!Creating
<1>5. QED
  BY <1>1, <1>2, <1>3, <1>4, PasskeyUncounted, PasskeyCap DEF Y!PasskeysInv, Y!PasskeysSound, Y!TypeOK

(* A handler moves on with the challenge it has taken, or ends.            *)
LEMMA PasskeyMove ==
  ASSUME Y!PasskeysInv, NEW h \in Handlers, NEW j \in {Y!Idle} \cup Y!Jobs,
         yjob' = [yjob EXCEPT ![h] = j], UNCHANGED <<challenge, expired, cred, passed, lost>>,
         j # Y!Idle => yjob[h] # Y!Idle /\ j.ch = yjob[h].ch,
         j.at = "update" => Y!Accepts(j.read, j.count),
         Y!EnrolmentsCounted'
  PROVE  Y!PasskeysInv'
<1>1. /\ yjob' \in [Handlers -> {Y!Idle} \cup Y!Jobs]
      /\ \A k \in Handlers : yjob'[k] = (IF k = h THEN j ELSE yjob[k])
  BY DEF Y!PasskeysInv
<1>2. Y!TakenOnce'
  <2>1. \A k \in Handlers : yjob'[k] # Y!Idle => yjob[k] # Y!Idle /\ yjob'[k].ch = yjob[k].ch
    BY <1>1
  <2>2. QED
    BY <2>1 DEF Y!TakenOnce, Y!PasskeysInv
<1>3. Y!CountersKept'
  BY <1>1 DEF Y!CountersKept, Y!PasskeysInv, Y!Accepts
<1>4. Y!ChallengeOnce' /\ Y!ReplayNeedsLostWrite' /\ Y!TypeOK'
  BY DEF Y!ChallengeOnce, Y!ReplayNeedsLostWrite, Y!TypeOK, Y!PasskeysInv, Y!PasskeysSound
<1>5. QED
  BY <1>1, <1>2, <1>3, <1>4, PasskeyCap DEF Y!PasskeysInv, Y!PasskeysSound

(* The handler that takes a challenge is the only one that has it.         *)
LEMMA PasskeyConsume ==
  ASSUME Y!PasskeysInv, NEW h \in Handlers, NEW c \in PasskeyChallenges, NEW purpose, NEW j \in Y!Jobs,
         Y!ConsumeClientData(h, c, purpose, j), j.ch = c, j.at \in {"list", "get"}
  PROVE  Y!PasskeysInv'
<1>1. /\ yjob[h] = Y!Idle /\ challenge[c] \in {"login", "register"} /\ challenge' = [challenge EXCEPT ![c] = "taken"]
      /\ UNCHANGED <<expired, cred, passed, lost>>
      /\ yjob' = [yjob EXCEPT ![h] = j] \/ yjob' = yjob
  BY DEF Y!ConsumeClientData, Y!Taken, Y!Become
<1>2. /\ yjob' \in [Handlers -> {Y!Idle} \cup Y!Jobs]
      /\ \A k \in Handlers : yjob'[k] = yjob[k] \/ (k = h /\ yjob'[k] = j)
  BY <1>1 DEF Y!PasskeysInv
<1>3. /\ challenge' \in [PasskeyChallenges -> {"none", "login", "register", "taken"}] /\ challenge'[c] = "taken"
      /\ \A d \in PasskeyChallenges : d # c => challenge'[d] = challenge[d]
  BY <1>1 DEF Y!PasskeysInv, Y!PasskeysSound, Y!TypeOK
<1>4. Y!TakenOnce'
  <2>1. \A p \in passed : p[1] \in PasskeyChallenges /\ p[1] # c
    BY <1>1 DEF Y!PasskeysInv, Y!TakenOnce
  <2>2. \A k \in Handlers : yjob[k] # Y!Idle => yjob[k].ch \in PasskeyChallenges /\ yjob[k].ch # c
    BY <1>1, PasskeyJob DEF Y!PasskeysInv, Y!TakenOnce
  <2>3. \A k \in Handlers : yjob'[k] # Y!Idle => yjob'[k] = yjob[k] \/ (k = h /\ yjob'[k].ch = c)
    BY <1>2
  <2>4. Y!TakenOnce
    BY DEF Y!PasskeysInv
  <2>5. \A k \in Handlers : yjob'[k] # Y!Idle => challenge'[yjob'[k].ch] = "taken"
    BY <1>3, <2>2, <2>3, <2>4 DEF Y!TakenOnce
  <2>6. \A k, l \in Handlers : yjob'[k] # Y!Idle /\ yjob'[l] # Y!Idle /\ yjob'[k].ch = yjob'[l].ch => k = l
    BY <2>2, <2>3, <2>4 DEF Y!TakenOnce
  <2>7. \A p \in passed : challenge'[p[1]] = "taken" /\ \A k \in Handlers : yjob'[k] # Y!Idle => yjob'[k].ch # p[1]
    BY <1>3, <2>1, <2>3, <2>4 DEF Y!TakenOnce
  <2>8. QED
    BY <1>1, <2>5, <2>6, <2>7 DEF Y!TakenOnce
<1>5. Y!CountersKept' /\ Y!ChallengeOnce' /\ Y!ReplayNeedsLostWrite'
  BY <1>1, <1>2 DEF Y!CountersKept, Y!ChallengeOnce, Y!ReplayNeedsLostWrite, Y!PasskeysInv, Y!PasskeysSound
<1>6. Y!Stored' = Y!Stored /\ Y!Creating' \subseteq Y!Creating
  BY <1>1, <1>2 DEF Y!Stored, Y!Creating
<1>7. QED
  BY <1>1, <1>2, <1>3, <1>4, <1>5, <1>6, PasskeyUncounted, PasskeyCap DEF Y!PasskeysInv, Y!PasskeysSound, Y!TypeOK

LEMMA PasskeyFinish ==
  ASSUME Y!PasskeysInv, NEW h \in Handlers, NEW c \in PasskeyChallenges, NEW k \in Creds,
         Y!FinishRegistration(h, c, k) \/ \E n \in 0 .. MaxCount : Y!FinishLogin(h, c, k, n)
  PROVE  Y!PasskeysInv'
<1>1. ASSUME Y!FinishRegistration(h, c, k) PROVE Y!PasskeysInv'
  <2> DEFINE j == [at |-> "list", ch |-> c, key |-> k]
  <2>1. j \in Y!Jobs /\ j.ch = c /\ j.at = "list" /\ Y!ConsumeClientData(h, c, "register", j)
    BY <1>1 DEF Y!Jobs, Y!FinishRegistration
  <2> HIDE DEF j
  <2>2. QED
    BY <2>1, PasskeyConsume
<1>2. ASSUME NEW n \in 0 .. MaxCount, Y!FinishLogin(h, c, k, n) PROVE Y!PasskeysInv'
  <2> DEFINE j == [at |-> "get", ch |-> c, key |-> k, count |-> n]
  <2>1. j \in Y!Jobs /\ j.ch = c /\ j.at = "get" /\ Y!ConsumeClientData(h, c, "login", j)
    BY <1>2 DEF Y!Jobs, Y!FinishLogin
  <2> HIDE DEF j
  <2>2. QED
    BY <2>1, PasskeyConsume
<1>3. QED
  BY <1>1, <1>2

(* CheckCredLimit counts before it joins those that create.                *)
LEMMA PasskeyLimit ==
  ASSUME Y!PasskeysInv, NEW h \in Handlers, Y!CheckCredLimit(h)
  PROVE  Y!PasskeysInv'
<1>0. Y!Idle.at = "idle" /\ yjob[h].at = "list" /\ yjob[h] # Y!Idle /\ UNCHANGED <<challenge, expired, cred, passed, lost>>
  BY PasskeyJob DEF Y!Idle, Y!CheckCredLimit
<1>1. CASE yjob' = [yjob EXCEPT ![h] = Y!Idle]
  <2>1. Y!Stored' = Y!Stored /\ Y!Creating' \subseteq Y!Creating
    BY <1>0, <1>1 DEF Y!Stored, Y!Creating, Y!PasskeysInv
  <2>2. QED
    BY <1>0, <1>1, <2>1, PasskeyUncounted, PasskeyMove
<1>2. CASE ~(Y!Cardinality(Y!Stored) >= MaxCredsPerUser) /\ yjob' = [yjob EXCEPT ![h] = [yjob[h] EXCEPT !.at = "create"]]
  <2> DEFINE j == [yjob[h] EXCEPT !.at = "create"]
  <2>1. yjob[h] \in [at : {"list", "create"}, ch : PasskeyChallenges, key : Creds]
    BY <1>0 DEF Y!PasskeysInv, Y!Jobs
  <2>2. j \in [at : {"list", "create"}, ch : PasskeyChallenges, key : Creds] /\ j.ch = yjob[h].ch /\ j.at = "create"
    BY <2>1
  <2>3. j \in Y!Jobs /\ yjob' = [yjob EXCEPT ![h] = j]
    BY <1>2, <2>2 DEF Y!Jobs
  <2> HIDE DEF j
  <2>4. Y!Stored' = Y!Stored /\ Y!Stored \subseteq Creds /\ Y!Creating' \subseteq Handlers
    BY <1>0 DEF Y!Stored, Y!Creating
  <2>5. Y!EnrolmentsCounted'
    BY <1>2, <2>4, PasskeyFinite, PasskeyCardinality, PasskeyConstants DEF Y!EnrolmentsCounted
  <2>6. QED
    BY <1>0, <2>2, <2>3, <2>5, PasskeyMove
<1>3. QED
  BY <1>1, <1>2 DEF Y!CheckCredLimit, Y!Become

LEMMA PasskeyCheck ==
  ASSUME Y!PasskeysInv, NEW h \in Handlers, Y!CheckAssertion(h)
  PROVE  Y!PasskeysInv'
<1> DEFINE k == yjob[h].key
           j == [at |-> "update", ch |-> yjob[h].ch, key |-> k, count |-> yjob[h].count, read |-> cred[k]]
<1>0. /\ Y!Idle.at = "idle" /\ yjob[h].at = "get" /\ yjob[h] # Y!Idle
      /\ UNCHANGED <<challenge, expired, cred, passed, lost>>
  BY PasskeyJob DEF Y!Idle, Y!CheckAssertion
<1>1. yjob[h].ch \in PasskeyChallenges /\ k \in Creds /\ yjob[h].count \in 0 .. MaxCount
  BY <1>0, PasskeyJob
<1>2. CASE yjob' = [yjob EXCEPT ![h] = Y!Idle]
  <2>1. Y!Stored' = Y!Stored /\ Y!Creating' \subseteq Y!Creating
    BY <1>0, <1>2 DEF Y!Stored, Y!Creating, Y!PasskeysInv
  <2>2. QED
    BY <1>0, <1>2, <2>1, PasskeyUncounted, PasskeyMove
<1>3. CASE k \in Y!Stored /\ Y!Accepts(cred[k], yjob[h].count) /\ yjob' = [yjob EXCEPT ![h] = j]
  <2>1. cred[k] \in 0 .. MaxCount
    BY <1>1, <1>3, PasskeyConstants DEF Y!Stored, Y!Absent, Y!PasskeysInv, Y!PasskeysSound, Y!TypeOK
  <2>2. /\ j \in Y!Jobs /\ j.at = "update" /\ j.ch = yjob[h].ch /\ Y!Accepts(j.read, j.count)
    BY <1>1, <1>3, <2>1 DEF Y!Jobs
  <2> HIDE DEF j
  <2>3. Y!Stored' = Y!Stored /\ Y!Creating' \subseteq Y!Creating
    BY <1>0, <1>3, <2>2 DEF Y!Stored, Y!Creating, Y!PasskeysInv
  <2>4. QED
    BY <1>0, <1>3, <2>2, <2>3, PasskeyUncounted, PasskeyMove
<1>4. QED
  BY <1>2, <1>3 DEF Y!CheckAssertion, Y!Become

(* A credential that is stored was counted for, and starts at zero.        *)
LEMMA PasskeyCreate ==
  ASSUME Y!PasskeysInv, NEW h \in Handlers, Y!CreateCredential(h)
  PROVE  Y!PasskeysInv'
<1> DEFINE k == yjob[h].key
<1>0. /\ Y!Idle.at = "idle" /\ yjob[h].at = "create" /\ yjob[h] # Y!Idle /\ k \in Creds
      /\ UNCHANGED <<challenge, expired, passed, lost>> /\ yjob' = [yjob EXCEPT ![h] = Y!Idle]
      /\ cred' = IF k \in Y!Stored THEN cred ELSE [cred EXCEPT ![k] = 0]
      /\ cred \in [Creds -> Y!Absent .. MaxCount]
  BY PasskeyJob DEF Y!Idle, Y!CreateCredential, Y!Become, Y!PasskeysInv, Y!PasskeysSound, Y!TypeOK
<1>1. h \in Y!Creating /\ Y!Creating' = Y!Creating \ {h} /\ Y!Creating \subseteq Handlers /\ Y!Stored \subseteq Creds
  BY <1>0 DEF Y!Creating, Y!PasskeysInv, Y!Stored
<1>2. CASE k \in Y!Stored
  <2>1. Y!Stored' = Y!Stored /\ cred' = cred
    BY <1>0, <1>2 DEF Y!Stored
  <2>2. Y!EnrolmentsCounted'
    BY <1>1, <2>1, PasskeyUncounted
  <2>3. QED
    BY <1>0, <2>1, <2>2, PasskeyMove
<1>3. CASE k \notin Y!Stored
  <2> HIDE DEF k
  <2>1. /\ cred' = [cred EXCEPT ![k] = 0] /\ cred[k] = Y!Absent /\ cred'[k] = 0
        /\ \A m \in Creds : m # k => cred'[m] = cred[m]
    BY <1>0, <1>3 DEF Y!Stored
  <2>2. cred' \in [Creds -> Y!Absent .. MaxCount] /\ Y!Absent # 0
    BY <1>0, <2>1, PasskeyConstants DEF Y!Absent
  <2>3. Y!Stored' = Y!Stored \cup {k}
    BY <1>0, <2>1, <2>2 DEF Y!Stored
  <2>4. Cardinality(Y!Stored') = Cardinality(Y!Stored) + 1
    BY <1>1, <1>3, <2>3, PasskeyFinite, FS_AddElement
  <2>5. Cardinality(Y!Creating') = Cardinality(Y!Creating) - 1
    BY <1>1, PasskeyFinite, FS_RemoveElement
  <2>6. Y!EnrolmentsCounted'
    BY <1>1, <2>4, <2>5, PasskeyFinite, PasskeyCardinality, PasskeyConstants DEF Y!EnrolmentsCounted, Y!PasskeysInv
  <2>7. /\ yjob' \in [Handlers -> {Y!Idle} \cup Y!Jobs]
        /\ \A m \in Handlers : yjob'[m] = (IF m = h THEN Y!Idle ELSE yjob[m])
    BY <1>0 DEF Y!PasskeysInv
  <2>8. Y!TakenOnce'
    BY <1>0, <2>7 DEF Y!TakenOnce, Y!PasskeysInv
  <2>9. Y!CountersKept'
    <3>1. \A p \in passed : p[2] \in Creds /\ p[3] \in 0 .. MaxCount
      BY DEF Y!PasskeysInv
    <3>2. \A p \in passed : p[2] \notin lost => p[3] <= cred'[p[2]]
      BY <2>1, <3>1, PasskeyConstants DEF Y!CountersKept, Y!PasskeysInv, Y!Absent
    <3>3. QED
      BY <1>0, <2>7, <3>2 DEF Y!CountersKept, Y!PasskeysInv
  <2>10. Y!ChallengeOnce' /\ Y!ReplayNeedsLostWrite' /\ Y!TypeOK'
    BY <1>0, <2>2 DEF Y!ChallengeOnce, Y!ReplayNeedsLostWrite, Y!TypeOK, Y!PasskeysInv, Y!PasskeysSound
  <2>11. passed' \subseteq PasskeyChallenges \X Creds \X (0 .. MaxCount)
    BY <1>0 DEF Y!PasskeysInv
  <2>12. QED
    BY <2>6, <2>7, <2>8, <2>9, <2>10, <2>11, PasskeyCap DEF Y!PasskeysInv, Y!PasskeysSound
<1>4. QED
  BY <1>2, <1>3

(* UpdateSignCount: unless the write is lost, the counter written is above *)
(* every counter that passed, so none of them can pass again.              *)
LEMMA PasskeyUpdate ==
  ASSUME Y!PasskeysInv, NEW h \in Handlers, Y!UpdateSignCount(h)
  PROVE  Y!PasskeysInv'
<1> DEFINE k == yjob[h].key
           c == yjob[h].ch
           n == yjob[h].count
<1>1. /\ Y!Idle.at = "idle" /\ yjob[h].at = "update" /\ yjob[h] # Y!Idle
      /\ k \in Creds /\ c \in PasskeyChallenges /\ n \in 0 .. MaxCount /\ yjob[h].read \in 0 .. MaxCount
  BY PasskeyJob DEF Y!Idle, Y!UpdateSignCount
<1>2. /\ UNCHANGED <<challenge, expired>> /\ yjob' = [yjob EXCEPT ![h] = Y!Idle]
      /\ passed' = passed \cup {<<c, k, n>>}
      /\ \/ cred' = (IF k \in Y!Stored THEN [cred EXCEPT ![k] = n] ELSE cred)
            /\ lost' = (IF cred[k] # yjob[h].read THEN lost \cup {k} ELSE lost)
         \/ cred' = cred /\ lost' = lost \cup {k}
  BY DEF Y!UpdateSignCount, Y!Become
<1>3. /\ cred \in [Creds -> Y!Absent .. MaxCount] /\ Y!TakenOnce /\ Y!CountersKept
      /\ lost \subseteq Creds /\ passed \subseteq PasskeyChallenges \X Creds \X (0 .. MaxCount)
      /\ Y!Accepts(yjob[h].read, n)
  BY <1>1 DEF Y!PasskeysInv, Y!PasskeysSound, Y!TypeOK, Y!CountersKept
<1>4. \A p \in passed : p[1] \in PasskeyChallenges /\ p[2] \in Creds /\ p[3] \in 0 .. MaxCount
                         /\ p[1] # c /\ p[1] # <<c, k, n>>[1]
  BY <1>1, <1>3 DEF Y!TakenOnce
<1>5. k \notin lost' => /\ cred[k] = yjob[h].read /\ k \notin lost /\ cred'[k] = n /\ (n = 0 \/ cred[k] < n)
                       /\ cred[k] <= n /\ cred[k] \in Int
  <2>1. k \notin lost' => /\ cred[k] = yjob[h].read /\ k \notin lost
                         /\ cred' = (IF k \in Y!Stored THEN [cred EXCEPT ![k] = n] ELSE cred)
    BY <1>2
  <2>2. cred[k] = yjob[h].read => k \in Y!Stored
    BY <1>1, PasskeyConstants DEF Y!Stored, Y!Absent
  <2>3. k \in Y!Stored => [cred EXCEPT ![k] = n][k] = n
    BY <1>1, <1>3
  <2>4. /\ yjob[h].read \in Int /\ n \in Int /\ (n = 0 \/ yjob[h].read < n) /\ yjob[h].read <= n
    BY <1>1, <1>3, PasskeyConstants DEF Y!Accepts
  <2>5. QED
    BY <2>1, <2>2, <2>3, <2>4
<1>6. /\ cred' \in [Creds -> Y!Absent .. MaxCount] /\ \A m \in Creds : m # k => cred'[m] = cred[m]
      /\ lost \subseteq lost' /\ lost' \subseteq Creds
  <2>1. n \in Y!Absent .. MaxCount
    BY <1>1, PasskeyConstants DEF Y!Absent
  <2>2. QED
    BY <1>1, <1>2, <1>3, <2>1
<1>7. Y!Stored' \subseteq Y!Stored
  BY <1>2, <1>3, <1>6 DEF Y!Stored
<1> HIDE DEF k, c, n
<1>8. /\ yjob' \in [Handlers -> {Y!Idle} \cup Y!Jobs]
      /\ \A m \in Handlers : yjob'[m] = (IF m = h THEN Y!Idle ELSE yjob[m])
  BY <1>2 DEF Y!PasskeysInv
<1>9. Y!Creating' \subseteq Y!Creating
  BY <1>1, <1>8 DEF Y!Creating
<1>10. \A p \in passed' : p \in passed \/ (p = <<c, k, n>> /\ p[1] = c /\ p[2] = k /\ p[3] = n)
  BY <1>2
<1>11. Y!TakenOnce'
  <2>1. challenge[c] = "taken" /\ \A m \in Handlers : m # h /\ yjob[m] # Y!Idle => yjob[m].ch # c
    BY <1>1, <1>3 DEF Y!TakenOnce, c
  <2>2. QED
    BY <1>2, <1>3, <1>8, <1>10, <2>1 DEF Y!TakenOnce
<1>12. Y!CountersKept'
  <2>1. \A p \in passed : p[2] \notin lost' => p[3] <= cred'[p[2]]
    <3>1. \A p \in passed : p[2] # k /\ p[2] \notin lost' => p[3] <= cred'[p[2]]
      BY <1>3, <1>4, <1>6 DEF Y!CountersKept
    <3>2. \A p \in passed : p[2] = k /\ k \notin lost' => p[3] <= cred'[k]
      BY <1>1, <1>3, <1>4, <1>5 DEF Y!CountersKept
    <3>3. QED
      BY <3>1, <3>2
  <2>2. k \notin lost' => n <= cred'[k]
    BY <1>1, <1>5
  <2>3. \A m \in Handlers : yjob'[m].at = "update" => Y!Accepts(yjob'[m].read, yjob'[m].count)
    BY <1>1, <1>3, <1>8 DEF Y!CountersKept
  <2>4. QED
    BY <1>10, <2>1, <2>2, <2>3 DEF Y!CountersKept, Y!Accepts
<1>13. Y!ChallengeOnce'
  BY <1>4, <1>10 DEF Y!ChallengeOnce, Y!PasskeysInv, Y!PasskeysSound
<1>14. Y!ReplayNeedsLostWrite'
  <2>1. \A p \in passed : p[2] = k /\ p[3] = n /\ n > 0 => k \in lost'
    BY <1>1, <1>3, <1>4, <1>5 DEF Y!CountersKept
  <2>2. \A p, q \in passed : p # q /\ p[2] = q[2] /\ p[3] = q[3] /\ p[3] > 0 => p[2] \in lost'
    BY <1>6 DEF Y!ReplayNeedsLostWrite, Y!PasskeysInv, Y!PasskeysSound
  <2>3. QED
    BY <1>10, <2>1, <2>2 DEF Y!ReplayNeedsLostWrite
<1>15. passed' \subseteq PasskeyChallenges \X Creds \X (0 .. MaxCount)
  BY <1>1, <1>2, <1>3
<1>16. Y!TypeOK'
  BY <1>2, <1>6 DEF Y!TypeOK, Y!PasskeysInv, Y!PasskeysSound
<1>17. QED
  BY <1>7, <1>8, <1>9, <1>11, <1>12, <1>13, <1>14, <1>15, <1>16, PasskeyUncounted, PasskeyCap
     DEF Y!PasskeysInv, Y!PasskeysSound

LEMMA PasskeyDelete ==
  ASSUME Y!PasskeysInv, NEW k \in Creds, Y!DeletePasskey(k)
  PROVE  Y!PasskeysInv'
<1>1. /\ cred' = [cred EXCEPT ![k] = Y!Absent] /\ lost' = lost \cup {k} /\ UNCHANGED <<challenge, expired, yjob, passed>>
      /\ cred \in [Creds -> Y!Absent .. MaxCount]
  BY DEF Y!DeletePasskey, Y!PasskeysInv, Y!PasskeysSound, Y!TypeOK
<1>2. cred' \in [Creds -> Y!Absent .. MaxCount] /\ \A m \in Creds : m # k => cred'[m] = cred[m]
  BY <1>1, PasskeyConstants DEF Y!Absent
<1>3. cred'[k] = Y!Absent
  BY <1>1
<1>4. Y!Stored' \subseteq Y!Stored /\ Y!Creating' = Y!Creating
  BY <1>1, <1>2, <1>3 DEF Y!Stored, Y!Creating
<1>5. Y!CountersKept'
  <2>1. \A p \in passed : p[2] \in Creds
    BY DEF Y!PasskeysInv
  <2>2. QED
    BY <1>1, <1>2, <2>1 DEF Y!CountersKept, Y!PasskeysInv
<1>6. Y!TakenOnce' /\ Y!ChallengeOnce' /\ Y!ReplayNeedsLostWrite' /\ Y!TypeOK'
  BY <1>1, <1>2 DEF Y!TakenOnce, Y!ChallengeOnce, Y!ReplayNeedsLostWrite, Y!TypeOK, Y!PasskeysInv, Y!PasskeysSound
<1>7. QED
  BY <1>1, <1>4, <1>5, <1>6, PasskeyUncounted, PasskeyCap DEF Y!PasskeysInv, Y!PasskeysSound

LEMMA PasskeyStep == Y!PasskeysInv /\ [Y!Next]_YVars => Y!PasskeysInv'
<1> SUFFICES ASSUME Y!PasskeysInv, [Y!Next]_YVars PROVE Y!PasskeysInv'
  OBVIOUS
<1>1. CASE UNCHANGED YVars
  BY <1>1 DEF YVars, Y!PasskeysInv, Y!PasskeysSound, Y!TypeOK, Y!ChallengeOnce, Y!ReplayNeedsLostWrite, Y!CredCap,
              Y!Stored, Y!TakenOnce, Y!CountersKept, Y!EnrolmentsCounted, Y!Creating
<1>2. CASE Y!Next
  BY <1>2, PasskeyIssue, PasskeyFinish, PasskeyLimit, PasskeyCreate, PasskeyCheck, PasskeyUpdate, PasskeyDelete DEF Y!Next
<1>3. QED
  BY <1>1, <1>2

-----------------------------------------------------------------------------
(* Groups.                                                                 *)

USE DEF G!None, G!RoleMember, G!RoleAdmin, G!RoleOwner

(* Counting a union.                                                       *)
LEMMA UnionBound ==
  ASSUME NEW S, NEW T, IsFiniteSet(S), IsFiniteSet(T)
  PROVE  /\ IsFiniteSet(S \cup T) /\ Cardinality(S \cup T) \in Nat
         /\ Cardinality(S \cup T) <= Cardinality(S) + Cardinality(T)
<1>1. IsFiniteSet(S \cup T) /\ IsFiniteSet(S \cap T)
  BY FS_Union, FS_Intersection
<1>2. /\ Cardinality(S) \in Nat /\ Cardinality(T) \in Nat
      /\ Cardinality(S \cup T) \in Nat /\ Cardinality(S \cap T) \in Nat
  BY <1>1, FS_CardinalityType
<1>3. Cardinality(S \cup T) = Cardinality(S) + Cardinality(T) - Cardinality(S \cap T)
  BY FS_Union
<1>4. QED
  BY <1>1, <1>2, <1>3

(* Groups has its own copy of FiniteSets.                                  *)
LEMMA GroupCardinality == ASSUME NEW S PROVE G!Cardinality(S) = Cardinality(S)
  BY DEF G!Cardinality, Cardinality, G!IsFiniteSet, IsFiniteSet

LEMMA GroupInit == G!Init => G!GroupsInv
<1> SUFFICES ASSUME G!Init PROVE G!GroupsInv
  OBVIOUS
<1>1. G!Members = {} /\ {u \in Users : grole[u] = 2} = {}
  BY DEF G!Init, G!Members
<1>2. G!Cardinality({}) = 0
  BY GroupCardinality, FS_EmptySet
<1>3. G!TypeOK /\ G!MirrorExact /\ G!OneOwner /\ G!InviteBound
  BY <1>1, <1>2, GroupConstants
     DEF G!Init, G!TypeOK, G!MirrorExact, G!OneOwner, G!InviteBound
<1>4. G!CapNeedsOverlap
  BY <1>1, <1>2, GroupConstants DEF G!CapNeedsOverlap
<1>5. G!AdminsFallToOwner /\ G!EditsAllowed
  BY DEF G!Init, G!AdminsFallToOwner, G!EditsAllowed
<1>6. G!GroupsSound
  BY <1>3, <1>4, <1>5 DEF G!GroupsSound
<1>7. QED
  BY <1>6 DEF G!Init, G!GroupsInv, G!OnlyWhileLive, G!JobFits, G!JoinHolds, G!Idle, G!Locked

LEMMA GroupMembersCount == IsFiniteSet(G!Members) /\ Cardinality(G!Members) \in Nat
  BY GroupConstants, FS_Subset, FS_CardinalityType DEF G!Members

(* A handler that only reads leaves the tables alone, and the invariant    *)
(* asks of it that what it remembers fits them.                            *)
LEMMA GroupReads ==
  ASSUME G!GroupsInv, NEW h \in Handlers, NEW j, G!Become(h, j),
         UNCHANGED <<group, grole, mirror, invite, crowded, ranked, policy, edited>>,
         group # "none", G!JobFits(j),
         j.at = "join" => ~G!Locked /\ G!GetInvite /\ invite.uses < MaxUses
  PROVE  G!GroupsInv'
<1>1. G!GroupsSound'
  BY DEF G!GroupsInv, G!GroupsSound, G!TypeOK, G!MirrorExact, G!OneOwner, G!AdminsFallToOwner,
         G!CapNeedsOverlap, G!InviteBound, G!EditsAllowed, G!Members
<1>2. gjob' = [g \in Handlers |-> gjob'[g]] /\ gjob'[h] = j
      /\ \A g \in Handlers : g # h => gjob'[g] = gjob[g]
  BY DEF G!GroupsInv, G!Become
<1>3. \A g \in Handlers : G!JobFits(gjob[g])'
  BY <1>2 DEF G!GroupsInv, G!JobFits
<1>4. G!OnlyWhileLive'
  BY DEF G!GroupsInv, G!OnlyWhileLive
<1>5. G!JoinHolds'
  BY <1>2 DEF G!GroupsInv, G!JoinHolds, G!Locked, G!GetInvite
<1>6. QED
  BY <1>1, <1>2, <1>3, <1>4, <1>5 DEF G!GroupsInv

(* A handler that has finished holds nothing, and what the others hold     *)
(* still fits as long as nobody becomes owner.                             *)
LEMMA GroupJobDone ==
  ASSUME G!GroupsInv, NEW h \in Handlers, G!Become(h, G!Idle),
         \A u \in Users : grole'[u] = 2 => grole[u] = 2
  PROVE  /\ gjob' = [g \in Handlers |-> gjob'[g]]
         /\ gjob'[h] = G!Idle
         /\ \A g \in Handlers : g # h => gjob'[g] = gjob[g]
         /\ \A g \in Handlers : G!JobFits(gjob[g])'
<1>1. /\ gjob' = [g \in Handlers |-> gjob'[g]]
      /\ gjob'[h] = G!Idle
      /\ \A g \in Handlers : g # h => gjob'[g] = gjob[g]
  BY DEF G!GroupsInv, G!Become
<1>2. ASSUME NEW g \in Handlers PROVE G!JobFits(gjob[g])'
  BY <1>1 DEF G!GroupsInv, G!JobFits, G!Idle
<1>3. QED
  BY <1>1, <1>2

(* Whoever is inserted was no member; the count stays within the cap or    *)
(* was outdated.                                                           *)
LEMMA GroupInsert ==
  ASSUME G!GroupsInv, NEW us \in SUBSET Users, NEW n \in Nat,
         n + Cardinality(us) <= MaxMembers, group = "live", UNCHANGED group,
         G!Insert(us, n)
  PROVE  /\ grole' \in [Users -> -1 .. 2]
         /\ G!MirrorExact' /\ G!OneOwner' /\ G!CapNeedsOverlap'
         /\ crowded' \in BOOLEAN
         /\ \A u \in Users : grole'[u] = 2 <=> grole[u] = 2
<1>1. /\ grole' \in [Users -> -1 .. 2]
      /\ \A u \in Users : grole'[u] = 2 <=> grole[u] = 2
      /\ G!Members' = G!Members \cup us
  BY DEF G!GroupsInv, G!GroupsSound, G!Insert, G!TypeOK, G!Members
<1>2. G!MirrorExact'
  BY <1>1 DEF G!GroupsInv, G!GroupsSound, G!Insert, G!MirrorExact, G!MirrorMembers
<1>3. {u \in Users : grole'[u] = 2} = {u \in Users : grole[u] = 2}
  BY <1>1
<1>4. G!OneOwner'
  BY <1>3 DEF G!GroupsInv, G!GroupsSound, G!OneOwner
<1>5. crowded' \in BOOLEAN /\ (~crowded' => Cardinality(G!Members) = n)
  BY GroupCardinality DEF G!GroupsInv, G!Insert
<1>6. Cardinality(G!Members \cup us) <= Cardinality(G!Members) + Cardinality(us)
      /\ Cardinality(us) \in Nat /\ Cardinality(G!Members \cup us) \in Nat
  <2>1. IsFiniteSet(us)
    BY GroupConstants, FS_Subset
  <2>2. QED
    BY <2>1, GroupMembersCount, UnionBound, FS_CardinalityType
<1>7. ~crowded' => Cardinality(G!Members') <= MaxMembers
  BY <1>1, <1>5, <1>6, GroupConstants
<1>8. G!CapNeedsOverlap'
  BY <1>5, <1>7, <1>6, <1>1, GroupCardinality, GroupConstants DEF G!CapNeedsOverlap
<1>9. QED
  BY <1>1, <1>2, <1>4, <1>5, <1>8

(* Each action that writes keeps the invariant.                            *)
LEMMA GroupCreate ==
  ASSUME G!GroupsInv, NEW u \in Users, NEW us \in SUBSET Users, G!Create(u, us)
  PROVE  G!GroupsInv'
<1>1. /\ group = "none" /\ group' = "live" /\ u \notin us
      /\ G!Members = {} /\ mirror = {}
      /\ grole' \in [Users -> -1 .. 2]
      /\ G!Members' = {u} \cup us
      /\ {x \in Users : grole'[x] = 2} = {u}
  BY DEF G!Create, G!CreateGroup, G!GroupsInv, G!GroupsSound, G!OnlyWhileLive, G!Members,
         G!MirrorExact
<1>2. G!MirrorExact'
  BY <1>1 DEF G!Create, G!CreateGroup, G!MirrorMembers, G!MirrorExact
<1>3. G!OneOwner'
  BY <1>1, GroupCardinality, FS_Singleton DEF G!OneOwner
<1>4. Cardinality({u} \cup us) <= MaxMembers /\ Cardinality({u} \cup us) \in Nat
  <2>1. IsFiniteSet(us) /\ Cardinality(us) \in Nat
    BY GroupConstants, FS_Subset, FS_CardinalityType
  <2>2. IsFiniteSet({u}) /\ Cardinality({u}) = 1
    BY FS_Singleton
  <2>3. 1 + Cardinality(us) <= MaxMembers
    BY GroupCardinality DEF G!Create
  <2>4. QED
    BY <2>1, <2>2, <2>3, UnionBound, GroupConstants
<1>5. G!CapNeedsOverlap'
  BY <1>1, <1>4, GroupCardinality, GroupConstants DEF G!CapNeedsOverlap
<1>6. G!TypeOK' /\ G!InviteBound'
  BY <1>1 DEF G!Create, G!GroupsInv, G!GroupsSound, G!TypeOK, G!InviteBound
<1>7. G!AdminsFallToOwner' /\ G!EditsAllowed'
  BY DEF G!Create, G!infoVars, G!GroupsInv, G!GroupsSound, G!AdminsFallToOwner, G!EditsAllowed
<1>8. gjob' = gjob /\ \A h \in Handlers : gjob[h] = G!Idle
  BY <1>1 DEF G!Create, G!GroupsInv, G!OnlyWhileLive
<1>9. \A h \in Handlers : G!JobFits(gjob[h])'
  BY <1>8 DEF G!JobFits, G!Idle
<1>10. G!OnlyWhileLive' /\ G!JoinHolds'
  BY <1>1, <1>8 DEF G!OnlyWhileLive, G!JoinHolds, G!Locked, G!Idle
<1>11. QED
  BY <1>2, <1>3, <1>5, <1>6, <1>7, <1>8, <1>9, <1>10
     DEF G!GroupsInv, G!GroupsSound, G!Create, G!infoVars

LEMMA GroupInsertMembers ==
  ASSUME G!GroupsInv, NEW h \in Handlers, G!InsertMembers(h)
  PROVE  G!GroupsInv'
<1>1. G!Become(h, G!Idle) /\ UNCHANGED <<group, invite, ranked, policy, edited>>
      /\ gjob[h].at = "insert" /\ group # "none"
  BY DEF G!InsertMembers, G!infoVars, G!GroupsInv, G!OnlyWhileLive, G!Idle
<1>2. /\ grole' \in [Users -> -1 .. 2]
      /\ G!MirrorExact' /\ G!OneOwner' /\ G!CapNeedsOverlap'
      /\ crowded' \in BOOLEAN
      /\ \A u \in Users : grole'[u] = 2 <=> grole[u] = 2
  <2>1. CASE group = "live"
    <3>1. G!Insert(gjob[h].us, gjob[h].n)
      BY <2>1 DEF G!InsertMembers
    <3>2. /\ gjob[h].us \in SUBSET Users /\ gjob[h].n \in Nat
          /\ gjob[h].n + Cardinality(gjob[h].us) <= MaxMembers
      BY <1>1, GroupCardinality DEF G!GroupsInv, G!JobFits
    <3>3. QED
      BY <1>1, <2>1, <3>1, <3>2, GroupInsert
  <2>2. CASE group # "live"
    BY <1>1, <2>2 DEF G!InsertMembers, G!GroupsInv, G!GroupsSound, G!TypeOK, G!MirrorExact,
       G!OneOwner, G!CapNeedsOverlap, G!Members
  <2>3. QED
    BY <2>1, <2>2
<1>3. /\ gjob' = [g \in Handlers |-> gjob'[g]]
      /\ gjob'[h] = G!Idle
      /\ \A g \in Handlers : g # h => gjob'[g] = gjob[g]
      /\ \A g \in Handlers : G!JobFits(gjob[g])'
  BY <1>1, <1>2, GroupJobDone
<1>4. G!TypeOK' /\ G!InviteBound'
  BY <1>1, <1>2 DEF G!GroupsInv, G!GroupsSound, G!TypeOK, G!InviteBound
<1>5. G!AdminsFallToOwner' /\ G!EditsAllowed'
  BY <1>1 DEF G!GroupsInv, G!GroupsSound, G!AdminsFallToOwner, G!EditsAllowed
<1>6. G!OnlyWhileLive' /\ G!JoinHolds'
  BY <1>1, <1>3 DEF G!InsertMembers, G!GroupsInv, G!OnlyWhileLive, G!JoinHolds, G!Locked,
     G!GetInvite, G!Idle
<1>7. QED
  BY <1>1, <1>2, <1>3, <1>4, <1>5, <1>6 DEF G!GroupsInv, G!GroupsSound

LEMMA GroupDeleteMember ==
  ASSUME G!GroupsInv, NEW h \in Handlers, G!DeleteMember(h)
  PROVE  G!GroupsInv'
<1> DEFINE t == gjob[h].t
<1>1. /\ G!Become(h, G!Idle) /\ UNCHANGED <<group, invite, crowded, policy, edited>>
      /\ gjob[h].at = "delete" /\ group # "none"
      /\ t \in Users /\ grole[t] # 2 /\ G!CanRemove(gjob[h].by, gjob[h].read)
      /\ grole' = [grole EXCEPT ![t] = -1] /\ mirror' = mirror \ {t}
  BY DEF G!DeleteMember, G!infoVars, G!GroupsInv, G!OnlyWhileLive, G!Idle, G!JobFits
<1>2. /\ grole' \in [Users -> -1 .. 2]
      /\ G!Members' = G!Members \ {t}
      /\ {u \in Users : grole'[u] = 2} = {u \in Users : grole[u] = 2}
  BY <1>1 DEF G!GroupsInv, G!GroupsSound, G!TypeOK, G!Members
<1>3. G!MirrorExact' /\ G!OneOwner'
  BY <1>1, <1>2 DEF G!GroupsInv, G!GroupsSound, G!MirrorExact, G!OneOwner
<1>4. G!CapNeedsOverlap'
  <2>1. Cardinality(G!Members') <= Cardinality(G!Members) /\ Cardinality(G!Members') \in Nat
    BY <1>2, GroupMembersCount, FS_Subset, FS_CardinalityType
  <2>2. QED
    BY <1>1, <2>1, GroupMembersCount, GroupCardinality, GroupConstants
       DEF G!GroupsInv, G!GroupsSound, G!CapNeedsOverlap
<1>5. G!AdminsFallToOwner'
  <2>1. grole[t] = 1 /\ gjob[h].by # 2 => gjob[h].read = 0
    BY <1>1 DEF G!CanRemove, G!GroupsInv, G!JobFits
  <2>2. QED
    <3>1. ranked' = (ranked /\ grole[t] # 2
                       /\ (grole[t] = 1 /\ gjob[h].by # 2 => gjob[h].read = 0))
      BY DEF G!DeleteMember
    <3>2. ranked
      BY DEF G!GroupsInv, G!GroupsSound, G!AdminsFallToOwner
    <3>3. QED
      BY <1>1, <2>1, <3>1, <3>2 DEF G!AdminsFallToOwner
<1>6. /\ gjob' = [g \in Handlers |-> gjob'[g]]
      /\ gjob'[h] = G!Idle
      /\ \A g \in Handlers : g # h => gjob'[g] = gjob[g]
      /\ \A g \in Handlers : G!JobFits(gjob[g])'
  BY <1>1, <1>2, GroupJobDone
<1>7. G!TypeOK' /\ G!InviteBound' /\ G!EditsAllowed'
  BY <1>1, <1>2 DEF G!GroupsInv, G!GroupsSound, G!TypeOK, G!InviteBound, G!EditsAllowed
<1>8. G!OnlyWhileLive' /\ G!JoinHolds'
  BY <1>1, <1>6 DEF G!GroupsInv, G!OnlyWhileLive, G!JoinHolds, G!Locked, G!GetInvite, G!Idle,
     G!GroupsSound, G!TypeOK
<1>9. QED
  BY <1>1, <1>3, <1>4, <1>5, <1>6, <1>7, <1>8 DEF G!GroupsInv, G!GroupsSound

LEMMA GroupUpdateRole ==
  ASSUME G!GroupsInv, NEW h \in Handlers, G!UpdateRole(h)
  PROVE  G!GroupsInv'
<1>1. /\ G!Become(h, G!Idle) /\ UNCHANGED <<group, mirror, invite, crowded, ranked, policy, edited>>
      /\ gjob[h].at = "role" /\ group # "none"
      /\ gjob[h].t \in Users /\ grole[gjob[h].t] # 2 /\ gjob[h].r \in {0, 1}
  BY DEF G!UpdateRole, G!infoVars, G!GroupsInv, G!OnlyWhileLive, G!Idle, G!JobFits
<1>2. /\ grole' \in [Users -> -1 .. 2]
      /\ G!Members' = G!Members
      /\ {u \in Users : grole'[u] = 2} = {u \in Users : grole[u] = 2}
      /\ \A u \in Users : grole[u] = -1 => grole'[u] = -1
  BY <1>1 DEF G!UpdateRole, G!GroupsInv, G!GroupsSound, G!TypeOK, G!Members
<1>3. /\ G!MirrorExact' /\ G!OneOwner' /\ G!CapNeedsOverlap' /\ G!AdminsFallToOwner'
      /\ G!TypeOK' /\ G!InviteBound' /\ G!EditsAllowed'
  BY <1>1, <1>2 DEF G!GroupsInv, G!GroupsSound, G!MirrorExact, G!OneOwner, G!CapNeedsOverlap,
     G!AdminsFallToOwner, G!TypeOK, G!InviteBound, G!EditsAllowed
<1>4. /\ gjob' = [g \in Handlers |-> gjob'[g]]
      /\ gjob'[h] = G!Idle
      /\ \A g \in Handlers : g # h => gjob'[g] = gjob[g]
      /\ \A g \in Handlers : G!JobFits(gjob[g])'
  BY <1>1, <1>2, GroupJobDone
<1>5. G!OnlyWhileLive' /\ G!JoinHolds'
  BY <1>1, <1>2, <1>4 DEF G!GroupsInv, G!OnlyWhileLive, G!JoinHolds, G!Locked, G!GetInvite, G!Idle
<1>6. QED
  BY <1>1, <1>3, <1>4, <1>5 DEF G!GroupsInv, G!GroupsSound

LEMMA GroupDeleteGroup ==
  ASSUME G!GroupsInv, NEW h \in Handlers, G!DeleteGroup(h)
  PROVE  G!GroupsInv'
<1>1. /\ G!Become(h, G!Idle) /\ UNCHANGED <<crowded, ranked, policy, edited>>
      /\ group' = "deleted" /\ grole' = [u \in Users |-> -1] /\ mirror' = {}
      /\ invite' = [invite EXCEPT !.st = "none"] /\ ~G!Locked
  BY DEF G!DeleteGroup, G!infoVars
<1>2. G!Members' = {} /\ {u \in Users : grole'[u] = 2} = {} /\ G!Cardinality({}) = 0
  BY <1>1, GroupCardinality, FS_EmptySet DEF G!Members
<1>3. G!MirrorExact' /\ G!OneOwner' /\ G!CapNeedsOverlap'
  BY <1>1, <1>2, GroupConstants DEF G!MirrorExact, G!OneOwner, G!CapNeedsOverlap
<1>4. G!TypeOK' /\ G!InviteBound' /\ G!AdminsFallToOwner' /\ G!EditsAllowed'
  BY <1>1 DEF G!GroupsInv, G!GroupsSound, G!TypeOK, G!InviteBound, G!AdminsFallToOwner,
     G!EditsAllowed
<1>5. /\ gjob' = [g \in Handlers |-> gjob'[g]]
      /\ gjob'[h] = G!Idle
      /\ \A g \in Handlers : g # h => gjob'[g] = gjob[g]
      /\ \A g \in Handlers : G!JobFits(gjob[g])'
  BY <1>1, GroupJobDone
<1>6. G!OnlyWhileLive' /\ G!JoinHolds'
  BY <1>1, <1>5 DEF G!GroupsInv, G!GroupsSound, G!TypeOK, G!OnlyWhileLive, G!JoinHolds,
     G!Locked, G!GetInvite, G!Idle
<1>7. QED
  BY <1>1, <1>3, <1>4, <1>5, <1>6 DEF G!GroupsInv, G!GroupsSound

(* Writes to the invite and to the settings leave the members alone.       *)
LEMMA GroupSideWrites ==
  ASSUME G!GroupsInv, NEW h \in Handlers,
         G!UpdateSettings(h) \/ G!UpdateInfo(h) \/ G!CreateInvite(h) \/ G!RevokeInvite(h)
  PROVE  G!GroupsInv'
<1>1. /\ G!Become(h, G!Idle) /\ UNCHANGED <<group, grole, mirror, crowded, ranked>>
      /\ gjob[h].at \notin {"idle", "join"} /\ group # "none"
  BY DEF G!UpdateSettings, G!UpdateInfo, G!CreateInvite, G!RevokeInvite, G!infoVars,
     G!GroupsInv, G!OnlyWhileLive, G!Idle
<1>2. /\ gjob' = [g \in Handlers |-> gjob'[g]]
      /\ gjob'[h] = G!Idle
      /\ \A g \in Handlers : g # h => gjob'[g] = gjob[g]
      /\ \A g \in Handlers : G!JobFits(gjob[g])'
  BY <1>1, GroupJobDone
<1>3. G!MirrorExact' /\ G!OneOwner' /\ G!CapNeedsOverlap' /\ G!AdminsFallToOwner'
  BY <1>1 DEF G!GroupsInv, G!GroupsSound, G!MirrorExact, G!OneOwner, G!CapNeedsOverlap,
     G!AdminsFallToOwner, G!Members
<1>4. policy' \in {"all", "admins"}
  BY DEF G!UpdateSettings, G!UpdateInfo, G!CreateInvite, G!RevokeInvite, G!infoVars,
     G!GroupsInv, G!JobFits
<1>5. G!TypeOK' /\ G!InviteBound'
  BY <1>1, GroupConstants
     DEF G!UpdateSettings, G!UpdateInfo, G!CreateInvite, G!RevokeInvite, G!infoVars,
     G!GroupsInv, G!GroupsSound, G!TypeOK, G!InviteBound
<1>6. G!EditsAllowed'
  <2>1. CASE G!UpdateInfo(h)
    <3>1. /\ G!CanEditInfo(gjob[h].r, gjob[h].pol) /\ gjob[h].u \in Users
          /\ gjob[h].r \in -1 .. 2 /\ grole[gjob[h].u] \in -1 .. 2
      BY <2>1 DEF G!UpdateInfo, G!GroupsInv, G!GroupsSound, G!TypeOK, G!JobFits
    <3>2. \/ group # "live" \/ policy = "all" \/ grole[gjob[h].u] >= 1
          \/ gjob[h].pol # policy \/ gjob[h].r # grole[gjob[h].u]
      BY <3>1 DEF G!CanEditInfo
    <3>3. QED
      BY <2>1, <3>2 DEF G!UpdateInfo, G!GroupsInv, G!GroupsSound, G!EditsAllowed
  <2>2. CASE ~G!UpdateInfo(h)
    BY <2>2 DEF G!UpdateSettings, G!CreateInvite, G!RevokeInvite, G!infoVars,
       G!GroupsInv, G!GroupsSound, G!EditsAllowed
  <2>3. QED
    BY <2>1, <2>2
<1>7. G!OnlyWhileLive'
  BY <1>1 DEF G!UpdateSettings, G!UpdateInfo, G!CreateInvite, G!RevokeInvite, G!infoVars,
     G!GroupsInv, G!GroupsSound, G!TypeOK, G!OnlyWhileLive
<1>8. G!JoinHolds'
  BY <1>1, <1>2 DEF G!UpdateSettings, G!UpdateInfo, G!CreateInvite, G!RevokeInvite,
     G!infoVars, G!GroupsInv, G!GroupsSound, G!TypeOK, G!JoinHolds, G!Locked, G!GetInvite, G!Idle
<1>9. QED
  BY <1>1, <1>2, <1>3, <1>4, <1>5, <1>6, <1>7, <1>8 DEF G!GroupsInv, G!GroupsSound

LEMMA GroupCommitJoin ==
  ASSUME G!GroupsInv, NEW h \in Handlers, G!CommitJoin(h)
  PROVE  G!GroupsInv'
<1> DEFINE u == gjob[h].u
<1>1. /\ G!Become(h, G!Idle) /\ UNCHANGED <<group, ranked, policy, edited>>
      /\ gjob[h].at = "join" /\ u \in Users
      /\ gjob[h].n \in Nat /\ gjob[h].n < MaxMembers
      /\ invite.st # "none" /\ invite.uses < MaxUses
  BY DEF G!CommitJoin, G!infoVars, G!GroupsInv, G!JobFits, G!JoinHolds, G!Locked, G!GetInvite
<1>2. group = "live"
  BY <1>1 DEF G!GroupsInv, G!OnlyWhileLive
<1>3. /\ grole' \in [Users -> -1 .. 2]
      /\ G!MirrorExact' /\ G!OneOwner' /\ G!CapNeedsOverlap'
      /\ crowded' \in BOOLEAN
      /\ \A x \in Users : grole'[x] = 2 <=> grole[x] = 2
  <2>1. CASE grole[u] = -1
    <3> DEFINE us == {u}
    <3>1. G!Insert(us, gjob[h].n)
      BY <2>1 DEF G!CommitJoin
    <3>2. Cardinality(us) = 1
      BY FS_Singleton
    <3>3. us \in SUBSET Users /\ gjob[h].n + Cardinality(us) <= MaxMembers
      BY <1>1, <3>2, GroupConstants
    <3> HIDE DEF us
    <3>4. QED
      BY <1>1, <1>2, <3>1, <3>3, GroupInsert
  <2>2. CASE grole[u] # -1
    BY <1>1, <2>2 DEF G!CommitJoin, G!GroupsInv, G!GroupsSound, G!TypeOK, G!MirrorExact,
       G!OneOwner, G!CapNeedsOverlap, G!Members
  <2>3. QED
    BY <2>1, <2>2
<1>4. /\ gjob' = [g \in Handlers |-> gjob'[g]]
      /\ gjob'[h] = G!Idle
      /\ \A g \in Handlers : g # h => gjob'[g] = gjob[g]
      /\ \A g \in Handlers : G!JobFits(gjob[g])'
  BY <1>1, <1>3, GroupJobDone
<1>5. G!TypeOK' /\ G!InviteBound'
  BY <1>1, <1>3, GroupConstants
     DEF G!CommitJoin, G!GroupsInv, G!GroupsSound, G!TypeOK, G!InviteBound
<1>6. G!AdminsFallToOwner' /\ G!EditsAllowed'
  BY <1>1 DEF G!GroupsInv, G!GroupsSound, G!AdminsFallToOwner, G!EditsAllowed
<1>7. G!OnlyWhileLive' /\ G!JoinHolds'
  BY <1>1, <1>2, <1>4 DEF G!GroupsInv, G!OnlyWhileLive, G!JoinHolds, G!Locked, G!Idle
<1>8. QED
  BY <1>1, <1>3, <1>4, <1>5, <1>6, <1>7 DEF G!GroupsInv, G!GroupsSound

LEMMA GroupInviteExpires ==
  ASSUME G!GroupsInv, G!InviteExpires
  PROVE  G!GroupsInv'
  BY DEF G!InviteExpires, G!infoVars, G!GroupsInv, G!GroupsSound, G!TypeOK, G!MirrorExact,
     G!OneOwner, G!CapNeedsOverlap, G!Members, G!InviteBound, G!AdminsFallToOwner,
     G!EditsAllowed, G!JobFits, G!OnlyWhileLive, G!JoinHolds, G!Locked, G!GetInvite

(* The steps that only read.                                               *)
LEMMA GroupReadSteps ==
  ASSUME G!GroupsInv, NEW h \in Handlers, NEW u \in Users,
         \/ \E us \in SUBSET Users : G!AddMembers(h, u, us)
         \/ \E t \in Users : G!RemoveMember(h, u, t) \/ \E r \in {0, 1} : G!SetRole(h, u, t, r)
         \/ G!Leave(h, u) \/ G!Delete(h, u)
         \/ G!CreateInviteLink(h, u) \/ G!RevokeInviteLink(h, u) \/ G!Join(h, u)
         \/ G!EditInfo(h, u) \/ \E pol \in {"all", "admins"} : G!SetSettings(h, u, pol)
  PROVE  G!GroupsInv'
<1>1. UNCHANGED <<group, grole, mirror, invite, crowded, ranked, policy, edited>>
  BY DEF G!AddMembers, G!RemoveMember, G!SetRole, G!Leave, G!Delete, G!CreateInviteLink,
     G!RevokeInviteLink, G!Join, G!EditInfo, G!SetSettings, G!infoVars
<1>2. grole[u] \in -1 .. 2 /\ \A t \in Users : grole[t] \in -1 .. 2
  BY DEF G!GroupsInv, G!GroupsSound, G!TypeOK
<1>3. group # "none"
  BY DEF G!AddMembers, G!RemoveMember, G!SetRole, G!Leave, G!Delete, G!CreateInviteLink,
     G!RevokeInviteLink, G!Join, G!EditInfo, G!SetSettings, G!Caller, G!GetMember,
     G!Usable, G!GroupsInv, G!OnlyWhileLive
<1>4. ASSUME NEW t \in Users, NEW r \in {0, 1}, G!SetRole(h, u, t, r) PROVE grole[t] # 2
  <2>1. grole[u] = 2 /\ t # u /\ group = "live"
    BY <1>4 DEF G!SetRole, G!Caller, G!GetMember, G!CanChangeRoles
  <2>2. Cardinality({x \in Users : grole[x] = 2}) = 1
    BY <2>1, GroupCardinality DEF G!GroupsInv, G!GroupsSound, G!OneOwner
  <2>3. PICK o : {x \in Users : grole[x] = 2} = {o}
    BY <2>2, GroupConstants, FS_Subset, FS_Singleton
  <2>4. QED
    BY <2>1, <2>3
<1>5. G!Join(h, u) => Cardinality(G!Members) < MaxMembers
  BY GroupCardinality DEF G!Join, G!Admits
<1>6. ASSUME NEW us \in SUBSET Users, G!AddMembers(h, u, us) PROVE G!GroupsInv'
  <2> DEFINE j == [at |-> "count", us |-> us]
  <2>1. G!Become(h, j)
    BY <1>6 DEF G!AddMembers
  <2>2. G!JobFits(j)
    BY <1>6 DEF G!JobFits
  <2>3. QED
    BY <1>1, <1>3, <2>1, <2>2, GroupReads
<1>7. ASSUME NEW t \in Users, G!RemoveMember(h, u, t) PROVE G!GroupsInv'
  <2> DEFINE j == [at |-> "target", by |-> grole[u], t |-> t]
  <2>1. G!Become(h, j)
    BY <1>7 DEF G!RemoveMember
  <2>2. G!JobFits(j)
    BY <1>7, <1>2 DEF G!JobFits
  <2>3. QED
    BY <1>1, <1>3, <2>1, <2>2, GroupReads
<1>8. ASSUME NEW t \in Users, NEW r \in {0, 1}, G!SetRole(h, u, t, r) PROVE G!GroupsInv'
  <2> DEFINE j == [at |-> "role", t |-> t, r |-> r]
  <2>1. G!Become(h, j)
    BY <1>8 DEF G!SetRole
  <2>2. G!JobFits(j)
    BY <1>8, <1>4 DEF G!JobFits
  <2>3. QED
    BY <1>1, <1>3, <2>1, <2>2, GroupReads
<1>9. ASSUME G!Leave(h, u) PROVE G!GroupsInv'
  <2> DEFINE j == [at |-> "delete", by |-> 2, t |-> u, read |-> grole[u]]
  <2>1. G!Become(h, j)
    BY <1>9 DEF G!Leave
  <2>2. G!JobFits(j)
    BY <1>9, <1>2 DEF G!JobFits, G!Leave, G!CanRemove, G!Caller, G!GetMember
  <2>3. QED
    BY <1>1, <1>3, <2>1, <2>2, GroupReads
<1>10. ASSUME G!Delete(h, u) PROVE G!GroupsInv'
  <2> DEFINE j == [at |-> "drop"]
  <2>1. G!Become(h, j)
    BY <1>10 DEF G!Delete
  <2>2. G!JobFits(j)
    BY <1>10 DEF G!JobFits
  <2>3. QED
    BY <1>1, <1>3, <2>1, <2>2, GroupReads
<1>11. ASSUME G!CreateInviteLink(h, u) PROVE G!GroupsInv'
  <2> DEFINE j == [at |-> "mint"]
  <2>1. G!Become(h, j)
    BY <1>11 DEF G!CreateInviteLink
  <2>2. G!JobFits(j)
    BY <1>11 DEF G!JobFits
  <2>3. QED
    BY <1>1, <1>3, <2>1, <2>2, GroupReads
<1>12. ASSUME G!RevokeInviteLink(h, u) PROVE G!GroupsInv'
  <2> DEFINE j == [at |-> "revoke"]
  <2>1. G!Become(h, j)
    BY <1>12 DEF G!RevokeInviteLink
  <2>2. G!JobFits(j)
    BY <1>12 DEF G!JobFits
  <2>3. QED
    BY <1>1, <1>3, <2>1, <2>2, GroupReads
<1>13. ASSUME G!EditInfo(h, u) PROVE G!GroupsInv'
  <2> DEFINE j == [at |-> "info", r |-> grole[u], u |-> u]
  <2>1. G!Become(h, j)
    BY <1>13 DEF G!EditInfo
  <2>2. G!JobFits(j)
    BY <1>13, <1>2 DEF G!JobFits
  <2>3. QED
    BY <1>1, <1>3, <2>1, <2>2, GroupReads
<1>14. ASSUME NEW pol \in {"all", "admins"}, G!SetSettings(h, u, pol) PROVE G!GroupsInv'
  <2> DEFINE j == [at |-> "settings", pol |-> pol]
  <2>1. G!Become(h, j)
    BY <1>14 DEF G!SetSettings
  <2>2. G!JobFits(j)
    BY <1>14 DEF G!JobFits
  <2>3. QED
    BY <1>1, <1>3, <2>1, <2>2, GroupReads
<1>15. ASSUME G!Join(h, u) PROVE G!GroupsInv'
  <2> DEFINE j == [at |-> "join", u |-> u, n |-> Cardinality(G!Members)]
  <2>1. G!Become(h, j)
    BY <1>15, GroupCardinality DEF G!Join
  <2>2. G!JobFits(j)
    BY <1>15, <1>5, GroupMembersCount DEF G!JobFits
  <2>3. ~G!Locked /\ G!GetInvite /\ invite.uses < MaxUses
    BY <1>15 DEF G!Join, G!Usable, G!GetInvite
  <2>4. QED
    BY <1>1, <1>3, <2>1, <2>2, <2>3, GroupReads
<1>16. QED
  BY <1>6, <1>7, <1>8, <1>9, <1>10, <1>11, <1>12, <1>13, <1>14, <1>15

LEMMA GroupCheckSteps ==
  ASSUME G!GroupsInv, NEW h \in Handlers,
         G!CountMembers(h) \/ G!CheckTarget(h) \/ G!CheckInfo(h)
  PROVE  G!GroupsInv'
<1>1. /\ UNCHANGED <<group, grole, mirror, invite, crowded, ranked, policy, edited>>
      /\ group # "none" /\ G!JobFits(gjob[h]) /\ G!JobFits(G!Idle)
  BY DEF G!CountMembers, G!CheckTarget, G!CheckInfo, G!infoVars, G!GroupsInv,
     G!OnlyWhileLive, G!Idle, G!JobFits
<1>2. CASE G!Become(h, G!Idle)
  BY <1>1, <1>2, GroupReads DEF G!Idle
<1>3. CASE G!CountMembers(h) /\ ~G!Become(h, G!Idle)
  <2> DEFINE n == Cardinality(G!Members)
             j == [at |-> "insert", us |-> gjob[h].us, n |-> n]
  <2>1. G!Become(h, j) /\ ~(n + G!Cardinality(gjob[h].us) > MaxMembers) /\ gjob[h].at = "count"
    BY <1>3, GroupCardinality DEF G!CountMembers
  <2>2. gjob[h].us \in SUBSET Users /\ G!Cardinality(gjob[h].us) \in Nat /\ n \in Nat
    BY <1>1, <2>1, GroupConstants, GroupCardinality, GroupMembersCount, FS_Subset,
       FS_CardinalityType DEF G!JobFits
  <2>3. G!JobFits(j)
    BY <2>1, <2>2, GroupConstants DEF G!JobFits
  <2>4. QED
    BY <1>1, <2>1, <2>3, GroupReads
<1>4. CASE G!CheckTarget(h) /\ ~G!Become(h, G!Idle)
  <2> DEFINE t == gjob[h].t
             j == [at |-> "delete", by |-> gjob[h].by, t |-> t, read |-> grole[t]]
  <2>1. /\ G!Become(h, j) /\ G!CanRemove(gjob[h].by, grole[t])
        /\ gjob[h].at = "target" /\ grole[t] # -1
    BY <1>4 DEF G!CheckTarget
  <2>2. G!JobFits(j)
    BY <1>1, <2>1 DEF G!JobFits, G!CanRemove, G!GroupsInv, G!GroupsSound, G!TypeOK
  <2>3. QED
    BY <1>1, <2>1, <2>2, GroupReads
<1>5. CASE G!CheckInfo(h) /\ ~G!Become(h, G!Idle)
  <2> DEFINE j == [at |-> "edit", r |-> gjob[h].r, u |-> gjob[h].u, pol |-> policy]
  <2>1. G!Become(h, j) /\ G!CanEditInfo(gjob[h].r, policy) /\ gjob[h].at = "info"
    BY <1>5 DEF G!CheckInfo
  <2>2. G!JobFits(j)
    BY <1>1, <2>1 DEF G!JobFits
  <2>3. QED
    BY <1>1, <2>1, <2>2, GroupReads
<1>6. QED
  BY <1>2, <1>3, <1>4, <1>5

LEMMA GroupStep == G!GroupsInv /\ [G!Next]_GVars => G!GroupsInv'
<1> SUFFICES ASSUME G!GroupsInv, [G!Next]_GVars PROVE G!GroupsInv'
  OBVIOUS
<1>1. CASE UNCHANGED GVars
  BY <1>1 DEF GVars, G!GroupsInv, G!GroupsSound, G!TypeOK, G!MirrorExact,
     G!OneOwner, G!CapNeedsOverlap, G!Members, G!InviteBound, G!AdminsFallToOwner,
     G!EditsAllowed, G!JobFits, G!OnlyWhileLive, G!JoinHolds, G!Locked, G!GetInvite
<1>2. CASE G!Next
  BY <1>2, GroupInviteExpires, GroupCreate, GroupReadSteps, GroupCheckSteps,
     GroupInsertMembers, GroupDeleteMember, GroupUpdateRole, GroupDeleteGroup,
     GroupSideWrites, GroupCommitJoin DEF G!Next
<1>3. QED
  BY <1>1, <1>2

-----------------------------------------------------------------------------
(* Communities.                                                            *)

USE DEF C!None, C!RoleMember, C!RoleAdmin, C!RoleOwner

LEMMA CommunityCardinality == ASSUME NEW S PROVE C!Cardinality(S) = Cardinality(S)
  BY DEF C!Cardinality, Cardinality, C!IsFiniteSet, IsFiniteSet

LEMMA CommunityInit == C!Init => C!CommunitiesInv
<1> SUFFICES ASSUME C!Init PROVE C!CommunitiesInv
  OBVIOUS
<1>1. C!TypeOK /\ C!NothingLeft
  <2>1. crole \in [PublicUsers -> C!None .. C!RoleOwner]
    BY DEF C!Init
  <2>2. QED
    BY <2>1 DEF C!Init, C!TypeOK, C!NothingLeft
<1>5. cjob \in [CommunityHandlers -> {C!Idle} \cup C!Jobs] /\ cfaults \in Nat /\ covertaken \in BOOLEAN
  BY DEF C!Init
<1>2. C!OneCreation /\ C!OwnerSafe /\ C!Owned
  BY DEF C!Init, C!OneCreation, C!OwnerSafe, C!Owned, C!Crowns, C!Idle
<1>3. C!OneOwner
  <2>1. {u \in PublicUsers : crole[u] = C!RoleOwner} = {}
    BY DEF C!Init
  <2>2. Cardinality({}) = 0
    BY FS_EmptySet
  <2>3. QED
    BY <2>1, <2>2, CommunityCardinality DEF C!OneOwner, C!Init
<1>4. QED
  BY <1>1, <1>2, <1>3, <1>5 DEF C!CommunitiesInv, C!CommunitiesSound

(* The number of owners, from who owns and who is about to.                *)
LEMMA CommunityWhole ==
  ASSUME C!TypeOK', C!NothingLeft', cjob' \in [CommunityHandlers -> {C!Idle} \cup C!Jobs],
         cfaults' \in Nat, covertaken' \in BOOLEAN, C!OneCreation', C!OwnerSafe', C!Owned'
  PROVE  C!CommunitiesInv'
<1> DEFINE S == {u \in PublicUsers : crole'[u] = C!RoleOwner}
<1>1. (\A x, y \in S : x = y) /\ S \subseteq PublicUsers
  BY DEF C!Owned
<1>2. community' = "live" /\ S = {} =>
         covertaken' \/ cfaults' > 0 \/ \E h \in CommunityHandlers : cjob'[h].at = "member"
  <2> SUFFICES ASSUME community' = "live", S = {}, ~covertaken', ~(cfaults' > 0)
               PROVE  \E h \in CommunityHandlers : cjob'[h].at = "member"
    OBVIOUS
  <2>1. PICK u \in PublicUsers, h \in CommunityHandlers : C!Crowns(h, u)'
    BY DEF C!Owned
  <2>2. cjob'[h].at # "create"
    BY DEF C!OneCreation
  <2>3. QED
    BY <2>1, <2>2 DEF C!Crowns
<1> HIDE DEF S
<1>3. Cardinality(S) <= 1 /\ (Cardinality(S) = 0 => S = {})
  BY <1>1, AtMostOne, CommunityConstants, FS_Subset, FS_EmptySet
<1>4. C!OneOwner'
  BY <1>2, <1>3, CommunityCardinality DEF C!OneOwner, S
<1>5. QED
  BY <1>4 DEF C!CommunitiesInv, C!CommunitiesSound

LEMMA CommunityParts ==
  ASSUME C!CommunitiesInv
  PROVE  /\ C!TypeOK /\ C!NothingLeft /\ cjob \in [CommunityHandlers -> {C!Idle} \cup C!Jobs]
         /\ cfaults \in Nat /\ covertaken \in BOOLEAN /\ C!OneCreation /\ C!OwnerSafe /\ C!Owned
  BY DEF C!CommunitiesInv, C!CommunitiesSound

(* Only the job of h changes, and the new one crowns nobody.               *)
LEMMA CommunityMove ==
  ASSUME C!CommunitiesInv, NEW h \in CommunityHandlers, NEW j \in {C!Idle} \cup C!Jobs,
         cjob' = [cjob EXCEPT ![h] = j], UNCHANGED <<community, announce, crole, linked, cevents, covertaken>>,
         j.at # "create", ~(j.at = "member" /\ j.r = C!RoleOwner),
         \/ cfaults' = cfaults /\ (\A u \in PublicUsers : ~C!Crowns(h, u))
         \/ cfaults' = cfaults + 1,
         j.at # "idle" => community # "none",
         ~covertaken /\ j.at = "role" => crole[j.u] # C!RoleOwner /\ \A k \in CommunityHandlers : ~C!Crowns(k, j.u)
  PROVE  C!CommunitiesInv'
<1>1. /\ cjob' \in [CommunityHandlers -> {C!Idle} \cup C!Jobs]
      /\ \A k \in CommunityHandlers : cjob'[k] = (IF k = h THEN j ELSE cjob[k])
  BY CommunityParts
<1>2. \A k \in CommunityHandlers : \A u : C!Crowns(k, u)' <=> k # h /\ C!Crowns(k, u)
  BY <1>1 DEF C!Crowns
<1>3. C!TypeOK' /\ C!NothingLeft' /\ cfaults' \in Nat /\ covertaken' \in BOOLEAN
  BY CommunityParts DEF C!TypeOK, C!NothingLeft
<1>4. C!OneCreation'
  BY <1>1, <1>2, CommunityParts DEF C!OneCreation
<1>5. C!OwnerSafe'
  BY <1>1, <1>2, CommunityParts DEF C!OwnerSafe
<1>6. C!Owned'
  BY <1>2, CommunityParts DEF C!Owned
<1>7. QED
  BY <1>1, <1>3, <1>4, <1>5, <1>6, CommunityWhole

LEMMA CommunityDecide ==
  ASSUME C!CommunitiesInv, NEW h \in CommunityHandlers, NEW j \in C!Jobs, C!Decide(h, j),
         j.at # "create", ~(j.at = "member" /\ j.r = C!RoleOwner),
         ~covertaken /\ j.at = "role" => crole[j.u] # C!RoleOwner /\ \A k \in CommunityHandlers : ~C!Crowns(k, j.u)
  PROVE  C!CommunitiesInv'
<1>1. \A u \in PublicUsers : ~C!Crowns(h, u)
  BY DEF C!Decide, C!Crowns, C!Idle
<1>2. QED
  BY <1>1, CommunityMove DEF C!Decide, C!Become

(* A role is changed only for someone whose role was neither owner nor     *)
(* none when it was read.                                                  *)
LEMMA CommunityDecides ==
  ASSUME C!CommunitiesInv, NEW h \in CommunityHandlers, NEW u \in PublicUsers,
         \/ C!Join(h, u) \/ C!Leave(h, u) \/ C!Delete(h, u)
         \/ \E t \in PublicUsers :
               C!RemoveMember(h, u, t) \/ \E r \in {C!RoleMember, C!RoleAdmin} : C!SetRole(h, u, t, r)
         \/ \E g \in Groups : C!Edit(h, u, {g}, {})
         \/ \E e \in CommunityEvents : C!Edit(h, u, {}, {e})
  PROVE  C!CommunitiesInv'
<1>1. ASSUME NEW t \in PublicUsers, NEW j \in C!Jobs, C!Decide(h, j), j.at = "role", j.u = t,
             crole[t] # C!None, crole[t] # C!RoleOwner
      PROVE  C!CommunitiesInv'
  <2>1. ~covertaken => \A k \in CommunityHandlers : ~C!Crowns(k, t)
    BY <1>1, CommunityParts DEF C!OwnerSafe
  <2>2. QED
    BY <1>1, <2>1, CommunityDecide
<1>2. ASSUME NEW gs \in SUBSET Groups, NEW es \in SUBSET CommunityEvents, C!Edit(h, u, gs, es)
      PROVE  C!CommunitiesInv'
  <2> DEFINE j == [at |-> "edit", gs |-> gs, es |-> es]
  <2>1. j \in C!Jobs /\ j.at = "edit" /\ C!Decide(h, j)
    BY <1>2 DEF C!Jobs, C!Edit
  <2> HIDE DEF j
  <2>2. QED
    BY <2>1, CommunityDecide
<1>3. CASE C!Join(h, u)
  <2> DEFINE j == [at |-> "member", u |-> u, r |-> C!RoleMember]
  <2>1. j \in C!Jobs /\ j.at = "member" /\ j.r # C!RoleOwner /\ C!Decide(h, j)
    BY <1>3 DEF C!Jobs, C!Join
  <2> HIDE DEF j
  <2>2. QED
    BY <2>1, CommunityDecide
<1>4. CASE C!Delete(h, u)
  <2> DEFINE j == [at |-> "drop"]
  <2>1. j \in C!Jobs /\ j.at = "drop" /\ C!Decide(h, j)
    BY <1>4 DEF C!Jobs, C!Delete
  <2> HIDE DEF j
  <2>2. QED
    BY <2>1, CommunityDecide
<1>5. CASE C!Leave(h, u)
  <2> DEFINE j == [at |-> "role", u |-> u, r |-> C!None]
  <2>1. j \in C!Jobs /\ j.at = "role" /\ j.u = u /\ C!Decide(h, j)
    BY <1>5 DEF C!Jobs, C!Leave
  <2> HIDE DEF j
  <2>2. QED
    BY <1>1, <1>5, <2>1 DEF C!Leave
<1>6. ASSUME NEW t \in PublicUsers, C!RemoveMember(h, u, t) PROVE C!CommunitiesInv'
  <2> DEFINE j == [at |-> "role", u |-> t, r |-> C!None]
  <2>1. j \in C!Jobs /\ j.at = "role" /\ j.u = t /\ C!Decide(h, j)
    BY <1>6 DEF C!Jobs, C!RemoveMember
  <2> HIDE DEF j
  <2>2. QED
    BY <1>1, <1>6, <2>1 DEF C!RemoveMember
<1>7. ASSUME NEW t \in PublicUsers, NEW r \in {C!RoleMember, C!RoleAdmin}, C!SetRole(h, u, t, r)
      PROVE  C!CommunitiesInv'
  <2> DEFINE j == [at |-> "role", u |-> t, r |-> r]
  <2>1. j \in C!Jobs /\ j.at = "role" /\ j.u = t /\ C!Decide(h, j)
    BY <1>7 DEF C!Jobs, C!SetRole
  <2> HIDE DEF j
  <2>2. crole[t] # C!RoleOwner /\ crole[t] # C!None
    BY <1>7, CommunityParts DEF C!SetRole, C!Owned
  <2>3. QED
    BY <1>1, <2>1, <2>2
<1>8. ASSUME NEW g \in Groups, C!Edit(h, u, {g}, {}) PROVE C!CommunitiesInv'
  BY <1>2, <1>8
<1>9. ASSUME NEW e \in CommunityEvents, C!Edit(h, u, {}, {e}) PROVE C!CommunitiesInv'
  BY <1>2, <1>9
<1>10. QED
  BY <1>3, <1>4, <1>5, <1>6, <1>7, <1>8, <1>9

LEMMA CommunityAbandon ==
  ASSUME C!CommunitiesInv, NEW h \in CommunityHandlers, C!Abandon(h)
  PROVE  C!CommunitiesInv'
<1>1. C!Idle.at = "idle"
  BY DEF C!Idle
<1>2. QED
  BY <1>1, CommunityMove DEF C!Abandon, C!Become

(* Creation begins once: nobody crowns before there is an announcement.    *)
LEMMA CommunityCreate ==
  ASSUME C!CommunitiesInv, NEW h \in CommunityHandlers, NEW u \in PublicUsers, C!Create(h, u)
  PROVE  C!CommunitiesInv'
<1> DEFINE j == [at |-> "create", u |-> u]
<1>1. /\ cjob[h] = C!Idle /\ ~announce /\ announce' = TRUE /\ cjob' = [cjob EXCEPT ![h] = j]
      /\ UNCHANGED <<community, crole, linked, cevents, covertaken, cfaults>>
  BY DEF C!Create, C!Become
<1>2. j \in C!Jobs /\ j.at = "create" /\ j.u = u
  BY DEF C!Jobs
<1> HIDE DEF j
<1>3. /\ cjob' \in [CommunityHandlers -> {C!Idle} \cup C!Jobs]
      /\ \A k \in CommunityHandlers : cjob'[k] = (IF k = h THEN j ELSE cjob[k])
  BY <1>1, <1>2, CommunityParts
<1>4. community = "none" /\ (\A v \in PublicUsers : crole[v] = C!None)
  BY <1>1, CommunityParts DEF C!NothingLeft, C!TypeOK
<1>5. /\ \A k \in CommunityHandlers, v \in PublicUsers : ~C!Crowns(k, v)
      /\ \A k \in CommunityHandlers, v \in PublicUsers : C!Crowns(k, v)' <=> k = h /\ v = u
  BY <1>1, <1>2, <1>3, CommunityParts DEF C!OneCreation, C!Crowns
<1>6. C!OneCreation'
  <2>1. \A k \in CommunityHandlers : cjob'[k].at \in {"idle", "create"}
    BY <1>2, <1>3, <1>4, CommunityParts DEF C!OneCreation
  <2>2. QED
    BY <1>1, <1>4, <1>5, <2>1 DEF C!OneCreation
<1>7. C!OwnerSafe'
  <2>1. \A k \in CommunityHandlers : cjob[k].at = "role" => cjob[k].u \in PublicUsers
    BY CommunityParts DEF C!Jobs, C!Idle
  <2>2. \A k \in CommunityHandlers : cjob'[k].at = "role" => cjob'[k] = cjob[k]
    BY <1>2, <1>3
  <2>3. QED
    BY <1>1, <1>4, <1>5, <2>1, <2>2, CommunityParts DEF C!OwnerSafe, C!OneCreation
<1>8. C!Owned'
  BY <1>1, <1>4 DEF C!Owned
<1>9. C!TypeOK' /\ C!NothingLeft' /\ cfaults' \in Nat /\ covertaken' \in BOOLEAN
  BY <1>1, CommunityParts DEF C!TypeOK, C!NothingLeft
<1>10. QED
  BY <1>3, <1>6, <1>7, <1>8, <1>9, CommunityWhole

LEMMA CommunityInsert ==
  ASSUME C!CommunitiesInv, NEW h \in CommunityHandlers, C!InsertCommunity(h)
  PROVE  C!CommunitiesInv'
<1> DEFINE u == cjob[h].u
           j == [at |-> "member", u |-> u, r |-> C!RoleOwner]
<1>1. /\ cjob[h].at = "create" /\ community' = "live" /\ cjob' = [cjob EXCEPT ![h] = j]
      /\ UNCHANGED <<announce, crole, linked, cevents, covertaken, cfaults>> /\ u \in PublicUsers
  BY CommunityParts DEF C!InsertCommunity, C!Become, C!Jobs, C!Idle
<1>2. j \in C!Jobs /\ j.at = "member" /\ j.u = u /\ j.r = C!RoleOwner
  BY <1>1 DEF C!Jobs
<1>3. C!Crowns(h, u)
  BY <1>1 DEF C!Crowns
<1> HIDE DEF j, u
<1>4. /\ cjob' \in [CommunityHandlers -> {C!Idle} \cup C!Jobs]
      /\ \A k \in CommunityHandlers : cjob'[k] = (IF k = h THEN j ELSE cjob[k])
  BY <1>1, <1>2, CommunityParts
<1>5. \A k \in CommunityHandlers : \A v : C!Crowns(k, v)' <=> C!Crowns(k, v)
  BY <1>1, <1>2, <1>3, <1>4 DEF C!Crowns, u
<1>6. C!OneCreation'
  <2>1. \A k \in CommunityHandlers : cjob[k].at = "create" => k = h
    <3>1. \A k \in CommunityHandlers : cjob[k].at = "create" => cjob[k].u \in PublicUsers /\ C!Crowns(k, cjob[k].u)
      BY CommunityParts DEF C!Jobs, C!Idle, C!Crowns
    <3>2. QED
      BY <1>1, <1>3, <3>1, CommunityParts DEF C!OneCreation
  <2>2. \A k \in CommunityHandlers : cjob'[k].at # "create"
    BY <1>2, <1>4, <2>1
  <2>3. QED
    BY <1>1, <1>5, <2>2, CommunityParts DEF C!OneCreation
<1>7. C!OwnerSafe'
  BY <1>1, <1>2, <1>4, <1>5, CommunityParts DEF C!OwnerSafe
<1>8. C!Owned'
  BY <1>1, <1>3, <1>5, CommunityParts DEF C!Owned
<1>9. C!TypeOK' /\ C!NothingLeft' /\ cfaults' \in Nat /\ covertaken' \in BOOLEAN
  <2>1. announce
    BY <1>1, <1>3, CommunityParts DEF C!OneCreation
  <2>2. QED
    BY <1>1, <2>1, CommunityParts DEF C!TypeOK, C!NothingLeft
<1>10. QED
  BY <1>4, <1>6, <1>7, <1>8, <1>9, CommunityWhole

(* The row of the owner, or of a member who may be the owner to come.      *)
LEMMA CommunityAddMember ==
  ASSUME C!CommunitiesInv, NEW h \in CommunityHandlers, C!AddMember(h)
  PROVE  C!CommunitiesInv'
<1> DEFINE u == cjob[h].u
           q == cjob[h].r
<1>1. /\ cjob[h].at = "member" /\ u \in PublicUsers /\ q \in {C!RoleMember, C!RoleOwner}
      /\ cjob' = [cjob EXCEPT ![h] = C!Idle]
      /\ UNCHANGED <<community, announce, linked, cevents, cfaults>>
      /\ C!TypeOK
  BY CommunityParts DEF C!AddMember, C!Become, C!Jobs, C!Idle
<1>2. crole' = [crole EXCEPT ![u] = IF crole[u] = C!None /\ community = "live" THEN q ELSE crole[u]]
  BY DEF C!AddMember
<1>3. covertaken' = (covertaken \/ \E k \in CommunityHandlers \ {h} : C!Crowns(k, u))
  BY DEF C!AddMember
<1>4. /\ cjob' \in [CommunityHandlers -> {C!Idle} \cup C!Jobs]
      /\ \A k \in CommunityHandlers : cjob'[k] = (IF k = h THEN C!Idle ELSE cjob[k])
      /\ C!Idle.at = "idle"
  BY <1>1, CommunityParts DEF C!Idle
<1>5. \A k \in CommunityHandlers : \A v : C!Crowns(k, v)' <=> k # h /\ C!Crowns(k, v)
  BY <1>1, <1>4 DEF C!Crowns
<1>6. \A v : C!Crowns(h, v) <=> q = C!RoleOwner /\ v = u
  BY <1>1 DEF C!Crowns
<1> HIDE DEF u, q
<1>7. /\ crole' \in [PublicUsers -> C!None .. C!RoleOwner]
      /\ \A v \in PublicUsers : v # u => crole'[v] = crole[v]
      /\ crole'[u] = crole[u] \/ (crole[u] = C!None /\ community = "live" /\ crole'[u] = q)
      /\ crole[u] = C!None /\ community = "live" => crole'[u] = q
  BY <1>1, <1>2 DEF C!TypeOK
<1>8. \A v \in PublicUsers : crole'[v] = C!RoleOwner => crole[v] = C!RoleOwner \/ (v = u /\ q = C!RoleOwner)
  BY <1>7
<1>9. C!OneCreation'
  <2>1. \A k \in CommunityHandlers, v \in PublicUsers : k # h /\ C!Crowns(k, v) => q # C!RoleOwner
    BY <1>1, <1>6, CommunityParts DEF C!OneCreation
  <2>2. \A k \in CommunityHandlers : cjob'[k].at # "idle" => cjob'[k] = cjob[k]
    BY <1>4
  <2>3. QED
    BY <1>1, <1>5, <1>8, <2>1, <2>2, CommunityParts DEF C!OneCreation
<1>10. C!OwnerSafe'
  <2> SUFFICES ASSUME ~covertaken'
               PROVE  /\ \A k \in CommunityHandlers, v \in PublicUsers : C!Crowns(k, v)' => crole'[v] = C!None
                      /\ \A k \in CommunityHandlers : cjob'[k].at = "role" =>
                            /\ crole'[cjob'[k].u] # C!RoleOwner
                            /\ \A m \in CommunityHandlers : ~C!Crowns(m, cjob[k].u)'
    BY DEF C!OwnerSafe
  <2>1. ~covertaken /\ \A k \in CommunityHandlers \ {h} : ~C!Crowns(k, u)
    BY <1>3
  <2>2. /\ \A k \in CommunityHandlers, v \in PublicUsers : C!Crowns(k, v) => crole[v] = C!None
        /\ \A k \in CommunityHandlers : cjob[k].at = "role" =>
              /\ crole[cjob[k].u] # C!RoleOwner
              /\ \A m \in CommunityHandlers : ~C!Crowns(m, cjob[k].u)
    BY <2>1, CommunityParts DEF C!OwnerSafe
  <2>3. \A k \in CommunityHandlers, v \in PublicUsers : C!Crowns(k, v)' => crole'[v] = C!None
    BY <1>5, <1>7, <2>1, <2>2
  <2>4. \A k \in CommunityHandlers : cjob'[k].at = "role" => cjob'[k] = cjob[k] /\ cjob[k].u \in PublicUsers
    BY <1>4, CommunityParts DEF C!Jobs
  <2>5. ASSUME NEW k \in CommunityHandlers, cjob'[k].at = "role"
        PROVE  crole'[cjob'[k].u] # C!RoleOwner /\ \A m \in CommunityHandlers : ~C!Crowns(m, cjob[k].u)'
    BY <1>5, <1>6, <1>8, <2>2, <2>4, <2>5
  <2>6. QED
    BY <2>3, <2>5
<1>11. C!Owned'
  <2>1. \A v, w \in PublicUsers : crole'[v] = C!RoleOwner /\ crole'[w] = C!RoleOwner => v = w
    <3>1. q = C!RoleOwner => \A v \in PublicUsers : crole[v] # C!RoleOwner
      BY <1>1, <1>6, CommunityParts DEF C!OneCreation
    <3>2. QED
      BY <1>8, <3>1, CommunityParts DEF C!Owned
  <2>2. ASSUME community = "live", ~covertaken', ~(cfaults > 0)
        PROVE  \E v \in PublicUsers : crole'[v] = C!RoleOwner \/ \E k \in CommunityHandlers : C!Crowns(k, v)'
    <3>1. ~covertaken
      BY <1>3, <2>2
    <3>2. CASE q = C!RoleOwner
      <4>1. crole[u] = C!None
        BY <1>1, <1>6, <3>1, <3>2, CommunityParts DEF C!OwnerSafe
      <4>2. QED
        BY <1>1, <1>7, <2>2, <3>2, <4>1
    <3>3. CASE q # C!RoleOwner
      <4>1. PICK v \in PublicUsers : crole[v] = C!RoleOwner \/ \E k \in CommunityHandlers : C!Crowns(k, v)
        BY <2>2, <3>1, CommunityParts DEF C!Owned
      <4>2. CASE crole[v] = C!RoleOwner
        BY <1>7, <4>2
      <4>3. ASSUME NEW k \in CommunityHandlers, C!Crowns(k, v) PROVE C!Crowns(k, v)'
        BY <1>5, <1>6, <3>3, <4>3
      <4>4. QED
        BY <4>1, <4>2, <4>3
    <3>4. QED
      BY <3>2, <3>3
  <2>3. QED
    BY <1>1, <2>1, <2>2 DEF C!Owned
<1>12. C!TypeOK' /\ cfaults' \in Nat /\ covertaken' \in BOOLEAN
  BY <1>1, <1>3, <1>7, CommunityParts DEF C!TypeOK
<1>13. C!NothingLeft'
  BY <1>1, <1>7, CommunityParts DEF C!NothingLeft
<1>14. QED
  BY <1>4, <1>9, <1>10, <1>11, <1>12, <1>13, CommunityWhole

LEMMA CommunityWriteRole ==
  ASSUME C!CommunitiesInv, NEW h \in CommunityHandlers, C!WriteRole(h)
  PROVE  C!CommunitiesInv'
<1> DEFINE u == cjob[h].u
           q == cjob[h].r
<1>1. /\ cjob[h].at = "role" /\ u \in PublicUsers /\ q \in {C!None, C!RoleMember, C!RoleAdmin}
      /\ cjob' = [cjob EXCEPT ![h] = C!Idle]
      /\ UNCHANGED <<community, announce, linked, cevents, covertaken, cfaults>>
      /\ C!TypeOK
  BY CommunityParts DEF C!WriteRole, C!Become, C!Jobs, C!Idle
<1>2. crole' = [crole EXCEPT ![u] = IF crole[u] = C!None THEN crole[u] ELSE q]
  BY DEF C!WriteRole
<1>3. /\ cjob' \in [CommunityHandlers -> {C!Idle} \cup C!Jobs]
      /\ \A k \in CommunityHandlers : cjob'[k] = (IF k = h THEN C!Idle ELSE cjob[k])
      /\ C!Idle.at = "idle"
  BY <1>1, CommunityParts DEF C!Idle
<1>4. \A k \in CommunityHandlers : \A v : C!Crowns(k, v)' <=> C!Crowns(k, v)
  BY <1>1, <1>3 DEF C!Crowns
<1>5. ~covertaken => crole[u] # C!RoleOwner
  BY <1>1, CommunityParts DEF C!OwnerSafe
<1> HIDE DEF u, q
<1>6. /\ crole' \in [PublicUsers -> C!None .. C!RoleOwner]
      /\ \A v \in PublicUsers : v # u => crole'[v] = crole[v]
      /\ crole[u] = C!None => crole'[u] = C!None
      /\ crole'[u] # C!RoleOwner
  BY <1>1, <1>2 DEF C!TypeOK
<1>7. C!OneCreation'
  <2>1. \A k \in CommunityHandlers : cjob'[k].at # "idle" => cjob'[k] = cjob[k]
    BY <1>3
  <2>2. QED
    BY <1>1, <1>4, <1>6, <2>1, CommunityParts DEF C!OneCreation
<1>8. C!OwnerSafe'
  <2>1. \A k \in CommunityHandlers : cjob'[k].at = "role" => cjob'[k] = cjob[k] /\ cjob[k].u \in PublicUsers
    BY <1>3, CommunityParts DEF C!Jobs
  <2>2. QED
    BY <1>1, <1>4, <1>6, <2>1, CommunityParts DEF C!OwnerSafe
<1>9. C!Owned'
  BY <1>1, <1>4, <1>5, <1>6, CommunityParts DEF C!Owned
<1>10. C!TypeOK' /\ C!NothingLeft' /\ cfaults' \in Nat /\ covertaken' \in BOOLEAN
  BY <1>1, <1>6, CommunityParts DEF C!TypeOK, C!NothingLeft
<1>11. QED
  BY <1>3, <1>7, <1>8, <1>9, <1>10, CommunityWhole

LEMMA CommunityWrites ==
  ASSUME C!CommunitiesInv, NEW h \in CommunityHandlers, C!WriteEdit(h) \/ C!DropCommunity(h)
  PROVE  C!CommunitiesInv'
<1>1. CASE C!WriteEdit(h)
  <2>1. /\ cjob[h].at = "edit" /\ cjob[h].gs \subseteq Groups /\ cjob[h].es \subseteq CommunityEvents
        /\ cjob' = [cjob EXCEPT ![h] = C!Idle] /\ UNCHANGED <<community, announce, crole, covertaken, cfaults>>
        /\ linked' \subseteq Groups /\ cevents' \subseteq CommunityEvents
        /\ community # "live" => UNCHANGED <<linked, cevents>>
    BY <1>1, CommunityParts DEF C!WriteEdit, C!Become, C!Jobs, C!Idle, C!Toggle, C!TypeOK
  <2>2. /\ cjob' \in [CommunityHandlers -> {C!Idle} \cup C!Jobs]
        /\ \A k \in CommunityHandlers : cjob'[k] = (IF k = h THEN C!Idle ELSE cjob[k])
        /\ C!Idle.at = "idle"
    BY <2>1, CommunityParts DEF C!Idle
  <2>3. \A k \in CommunityHandlers : \A v : C!Crowns(k, v)' <=> C!Crowns(k, v)
    BY <2>1, <2>2 DEF C!Crowns
  <2>4. C!OneCreation' /\ C!OwnerSafe' /\ C!Owned'
    BY <2>1, <2>2, <2>3, CommunityParts DEF C!OneCreation, C!OwnerSafe, C!Owned
  <2>5. C!TypeOK' /\ C!NothingLeft' /\ cfaults' \in Nat /\ covertaken' \in BOOLEAN
    BY <2>1, CommunityParts DEF C!TypeOK, C!NothingLeft
  <2>6. QED
    BY <2>2, <2>4, <2>5, CommunityWhole
<1>2. CASE C!DropCommunity(h)
  <2>1. /\ cjob[h].at = "drop" /\ cjob' = [cjob EXCEPT ![h] = C!Idle] /\ UNCHANGED <<announce, covertaken, cfaults>>
        /\ linked' = {} /\ cevents' = {} /\ community' = "deleted" /\ crole' = [u \in PublicUsers |-> C!None]
    BY <1>2 DEF C!DropCommunity, C!Become
  <2>2. /\ cjob' \in [CommunityHandlers -> {C!Idle} \cup C!Jobs]
        /\ \A k \in CommunityHandlers : cjob'[k] = (IF k = h THEN C!Idle ELSE cjob[k])
        /\ C!Idle.at = "idle"
    BY <2>1, CommunityParts DEF C!Idle
  <2>3. C!TypeOK' /\ C!NothingLeft' /\ cfaults' \in Nat /\ covertaken' \in BOOLEAN
    <3>0. community # "none"
      BY <2>1, CommunityParts DEF C!OneCreation
    <3>1. announce
      BY <3>0, CommunityParts DEF C!NothingLeft
    <3>2. crole' \in [PublicUsers -> C!None .. C!RoleOwner] /\ (\A v \in PublicUsers : crole'[v] = C!None)
      BY <2>1
    <3>3. QED
      BY <2>1, <3>1, <3>2, CommunityParts DEF C!TypeOK, C!NothingLeft
  <2>4. \A v \in PublicUsers : crole'[v] = C!None
    BY <2>1
  <2>5. \A k \in CommunityHandlers : \A v : C!Crowns(k, v)' <=> C!Crowns(k, v)
    BY <2>1, <2>2 DEF C!Crowns
  <2>6. C!OneCreation'
    <3>1. \A k \in CommunityHandlers : cjob[k].at # "create"
      BY <2>1, CommunityParts DEF C!OneCreation
    <3>2. \A k \in CommunityHandlers : cjob'[k].at # "create"
      BY <2>2, <3>1
    <3>3. QED
      BY <2>1, <2>4, <2>5, <3>2, CommunityParts DEF C!OneCreation
  <2>7. C!OwnerSafe'
    <3>1. \A k \in CommunityHandlers : cjob'[k].at = "role" => cjob'[k] = cjob[k] /\ cjob[k].u \in PublicUsers
      BY <2>2, CommunityParts DEF C!Jobs
    <3>2. QED
      BY <2>1, <2>4, <2>5, <3>1, CommunityParts DEF C!OwnerSafe
  <2>8. C!Owned'
    BY <2>1, <2>4 DEF C!Owned
  <2>9. QED
    BY <2>2, <2>3, <2>6, <2>7, <2>8, CommunityWhole
<1>3. QED
  BY <1>1, <1>2

LEMMA CommunityStep == C!CommunitiesInv /\ [C!Next]_CVars => C!CommunitiesInv'
<1> SUFFICES ASSUME C!CommunitiesInv, [C!Next]_CVars PROVE C!CommunitiesInv'
  OBVIOUS
<1>1. CASE UNCHANGED CVars
  BY <1>1 DEF CVars, C!CommunitiesInv, C!CommunitiesSound, C!TypeOK, C!OneOwner, C!NothingLeft, C!OneCreation,
              C!OwnerSafe, C!Owned, C!Crowns
<1>2. CASE C!Next
  BY <1>2, CommunityDecides, CommunityAbandon, CommunityCreate, CommunityInsert, CommunityAddMember,
     CommunityWriteRole, CommunityWrites DEF C!Next
<1>3. QED
  BY <1>1, <1>2

-----------------------------------------------------------------------------
(* Channels.                                                               *)

USE DEF N!None, N!RoleFollower, N!RoleAdmin, N!RoleOwner

LEMMA ChannelCardinality == ASSUME NEW S PROVE N!Cardinality(S) = Cardinality(S)
  BY DEF N!Cardinality, Cardinality, N!IsFiniteSet, IsFiniteSet

LEMMA ChannelFinite ==
  /\ \A S \in SUBSET Handlers : IsFiniteSet(S) /\ Cardinality(S) \in Nat /\ Cardinality(S) <= Cardinality(Handlers)
  /\ Cardinality(Handlers) \in Nat
  BY ChannelConstants, FS_Subset, FS_CardinalityType

LEMMA ChannelInit == N!Init => N!ChannelsInv
<1> SUFFICES ASSUME N!Init PROVE N!ChannelsInv
  OBVIOUS
<1>1. N!RowsTyped
  <2>1. post \in [Posts -> N!PostRows]
    BY DEF N!Init, N!PostRows
  <2>2. QED
    BY <2>1 DEF N!Init, N!RowsTyped
<1>2. N!TypeOK
  <2>1. nrole \in [PublicUsers -> N!None .. N!RoleOwner]
    BY DEF N!Init
  <2>2. told \in [Posts -> 0 .. Cardinality(Handlers)]
    BY ChannelFinite DEF N!Init
  <2>3. QED
    BY <2>1, <2>2, ChannelCardinality DEF N!Init, N!TypeOK
<1>3. N!Fresh /\ N!Crowned /\ N!OwnerSafe /\ N!MarksArePublic /\ N!MarkingPublic
  BY DEF N!Init, N!Fresh, N!Crowned, N!OwnerSafe, N!MarksArePublic, N!MarkingPublic, N!Crowns, N!Idle
<1>4. \A p : N!Telling(p) = {}
  BY DEF N!Init, N!Telling, N!Idle
<1>5. \A u : N!Paying(u) = {}
  BY DEF N!Init, N!Paying, N!Idle
<1>6. Cardinality({}) = 0
  BY FS_EmptySet
<1>7. N!Announced /\ N!ToldOnce
  BY <1>4, <1>6, ChannelFinite, ChannelCardinality DEF N!Announced, N!ToldOnce, N!Init
<1>8. N!ChargesKept /\ N!PaidIsSubscribed
  <2>1. \A u \in PublicUsers : charged[u] = 0 /\ stored[u] = 0
    BY DEF N!Init
  <2>2. \A u : N!Cardinality(N!Paying(u)) = 0
    BY <1>5, <1>6, ChannelCardinality
  <2>3. QED
    BY <2>1, <2>2 DEF N!ChargesKept, N!PaidIsSubscribed
<1>9. N!OneOwner
  <2>1. {u \in PublicUsers : nrole[u] = N!RoleOwner} = {}
    BY DEF N!Init
  <2>2. N!Cardinality({u \in PublicUsers : nrole[u] = N!RoleOwner}) = 0 /\ channel.st = "none"
    BY <1>6, <2>1, ChannelCardinality DEF N!Init
  <2>3. QED
    BY <2>2 DEF N!OneOwner
<1>10. QED
  BY <1>1, <1>2, <1>3, <1>7, <1>8, <1>9 DEF N!ChannelsInv, N!ChannelsSound

LEMMA ChannelParts ==
  ASSUME N!ChannelsInv
  PROVE  /\ N!TypeOK /\ N!RowsTyped /\ N!Fresh /\ N!Crowned /\ N!OwnerSafe /\ N!Announced
         /\ N!MarksArePublic /\ N!MarkingPublic /\ N!ChargesKept
  BY DEF N!ChannelsInv, N!ChannelsSound

(* The other conjuncts follow from these.                                  *)
LEMMA ChannelWhole ==
  ASSUME N!TypeOK', N!RowsTyped', N!Fresh', N!Crowned', N!OwnerSafe', N!Announced', N!MarksArePublic',
         N!MarkingPublic', N!ChargesKept'
  PROVE  N!ChannelsInv'
<1>1. N!OneOwner'
  <2> DEFINE S == {u \in PublicUsers : nrole'[u] = N!RoleOwner}
  <2>1. (\A x, y \in S : x = y) /\ S \subseteq PublicUsers
    BY DEF N!Crowned
  <2>2. channel'.st # "none" /\ S = {} => novertaken' \/ nfaults' > 0 \/ N!Busy("member")'
    BY DEF N!Crowned, N!Crowns, N!Busy
  <2> HIDE DEF S
  <2>3. Cardinality(S) <= 1 /\ (Cardinality(S) = 0 => S = {})
    BY <2>1, AtMostOne, ChannelConstants, FS_Subset, FS_EmptySet
  <2>4. QED
    BY <2>2, <2>3, ChannelCardinality DEF N!OneOwner, S
<1>2. N!ToldOnce'
  <2>1. \A p \in Posts : told'[p] \in 0 .. Cardinality(Handlers)
    BY ChannelCardinality DEF N!TypeOK
  <2>2. QED
    BY <2>1, ChannelFinite DEF N!ToldOnce, N!Announced
<1>3. N!PaidIsSubscribed'
  <2> SUFFICES ASSUME NEW u \in PublicUsers, charged'[u] > stored'[u], ~(nfaults' > 0)
               PROVE  \E h \in Handlers : njob'[h].at = "subscribe" /\ njob'[h].u = u
    BY DEF N!PaidIsSubscribed
  <2>1. nfaults' = 0 /\ charged'[u] \in Nat /\ stored'[u] \in Nat
    BY DEF N!RowsTyped
  <2>2. charged'[u] = stored'[u] + Cardinality(N!Paying(u)')
    BY <2>1, ChannelCardinality DEF N!ChargesKept
  <2>3. N!Paying(u)' # {}
    <3>1. Cardinality({}) = 0
      BY FS_EmptySet
    <3>2. Cardinality(N!Paying(u)') # 0
      BY <2>1, <2>2
    <3>3. QED
      BY <3>1, <3>2
  <2>4. QED
    BY <2>3 DEF N!Paying
<1>4. QED
  BY <1>1, <1>2, <1>3 DEF N!ChannelsInv, N!ChannelsSound

(* What the job of a handler says.                                         *)
LEMMA ChannelJob ==
  ASSUME N!ChannelsInv, NEW h \in Handlers
  PROVE  /\ njob[h] \in {N!Idle} \cup N!Jobs
         /\ njob[h] = N!Idle <=> njob[h].at = "idle"
         /\ njob[h].at \in {"member", "role", "charge", "subscribe", "post"} => njob[h].u \in PublicUsers
         /\ njob[h].at = "member" => njob[h].r \in {N!RoleFollower, N!RoleOwner}
         /\ njob[h].at = "role" => njob[h].r \in {N!None, N!RoleFollower, N!RoleAdmin}
         /\ njob[h].at \in {"post", "delete"} => njob[h].p \in Posts
         /\ njob[h].at \in {"tell", "publish"} => njob[h].ps \subseteq Posts
         /\ njob[h].at # "idle" => channel.st # "none"
<1>1. njob[h] \in {N!Idle} \cup N!Jobs
  BY ChannelParts DEF N!RowsTyped
<1>2. njob[h] = N!Idle <=> njob[h].at = "idle"
  BY <1>1 DEF N!Idle, N!Jobs
<1>3. /\ njob[h].at \in {"member", "role", "charge", "subscribe", "post"} => njob[h].u \in PublicUsers
      /\ njob[h].at = "member" => njob[h].r \in {N!RoleFollower, N!RoleOwner}
      /\ njob[h].at = "role" => njob[h].r \in {N!None, N!RoleFollower, N!RoleAdmin}
  BY <1>1 DEF N!Idle, N!Jobs
<1>4. /\ njob[h].at \in {"post", "delete"} => njob[h].p \in Posts
      /\ njob[h].at \in {"tell", "publish"} => njob[h].ps \subseteq Posts
  BY <1>1 DEF N!Idle, N!Jobs
<1>5. njob[h].at # "idle" => channel.st # "none"
  BY <1>2, ChannelParts DEF N!Fresh
<1>6. QED
  BY <1>1, <1>2, <1>3, <1>4, <1>5

(* A step that crowns nobody and changes no role.                          *)
LEMMA ChannelOwners ==
  ASSUME N!ChannelsInv, NEW h \in Handlers, NEW j, \A k \in Handlers : njob'[k] = (IF k = h THEN j ELSE njob[k]),
         UNCHANGED <<nrole, novertaken>>, channel.st # "none",
         ~(j.at = "member" /\ j.r = N!RoleOwner),
         \/ nfaults' = nfaults /\ (\A u \in PublicUsers : ~N!Crowns(h, u))
         \/ nfaults' = nfaults + 1,
         ~novertaken /\ j.at = "role" => nrole[j.u] # N!RoleOwner
  PROVE  N!Crowned' /\ N!OwnerSafe'
<1>1. \A k \in Handlers : \A u : N!Crowns(k, u)' <=> k # h /\ N!Crowns(k, u)
  BY DEF N!Crowns
<1>2. nfaults \in Nat
  BY ChannelParts DEF N!RowsTyped
<1>3. N!Crowned'
  BY <1>1, <1>2, ChannelParts DEF N!Crowned
<1>4. N!OwnerSafe'
  BY <1>1, ChannelParts DEF N!OwnerSafe
<1>5. QED
  BY <1>3, <1>4

(* A step that announces nothing and takes nothing up to announce.         *)
LEMMA ChannelQuiet ==
  ASSUME N!ChannelsInv, NEW h \in Handlers, NEW j, \A k \in Handlers : njob'[k] = (IF k = h THEN j ELSE njob[k]),
         UNCHANGED <<told, crossed>>, \A p \in Posts : post'[p].st = post[p].st,
         j.at \notin {"tell", "publish"}
  PROVE  N!Announced'
<1> SUFFICES ASSUME NEW p \in Posts
             PROVE  /\ post'[p].st = "none" => N!Telling(p)' = {}
                    /\ post'[p].st # "published" => told'[p] = 0 /\ \A k \in N!Telling(p)' : njob'[k].at = "publish"
                    /\ told'[p] + N!Cardinality(N!Telling(p)') <= N!Cardinality(Handlers)
                    /\ p \notin crossed' => /\ told'[p] = 0 => \A k, l \in N!Telling(p)' : k = l
                                            /\ told'[p] > 0 => told'[p] = 1 /\ N!Telling(p)' = {}
  BY DEF N!Announced
<1>1. N!Telling(p)' \subseteq N!Telling(p) /\ N!Telling(p) \subseteq Handlers
  BY DEF N!Telling
<1>2. \A k \in N!Telling(p)' : njob'[k] = njob[k]
  BY DEF N!Telling
<1>3. /\ post[p].st = "none" => N!Telling(p) = {}
      /\ post[p].st # "published" => told[p] = 0 /\ \A k \in N!Telling(p) : njob[k].at = "publish"
      /\ told[p] + Cardinality(N!Telling(p)) <= Cardinality(Handlers)
      /\ p \notin crossed => /\ told[p] = 0 => \A k, l \in N!Telling(p) : k = l
                             /\ told[p] > 0 => told[p] = 1 /\ N!Telling(p) = {}
  BY ChannelParts, ChannelCardinality DEF N!Announced
<1>4. Cardinality(N!Telling(p)') <= Cardinality(N!Telling(p)) /\ Cardinality(N!Telling(p)) \in Nat
      /\ Cardinality(N!Telling(p)') \in Nat /\ Cardinality(Handlers) \in Nat
  BY <1>1, ChannelFinite, FS_Subset
<1>5. told[p] \in Nat
  BY ChannelParts, ChannelFinite, ChannelCardinality DEF N!TypeOK
<1>6. told'[p] + N!Cardinality(N!Telling(p)') <= N!Cardinality(Handlers)
  BY <1>3, <1>4, <1>5, ChannelCardinality
<1>7. QED
  BY <1>1, <1>2, <1>3, <1>6

(* A step that marks nothing, and withdraws no post.                       *)
LEMMA ChannelMarks ==
  ASSUME N!ChannelsInv, NEW h \in Handlers, NEW j, \A k \in Handlers : njob'[k] = (IF k = h THEN j ELSE njob[k]),
         UNCHANGED marks, \A p \in Posts : post[p].st = "published" => post'[p].st = "published",
         j.at = "mark" => post'[j.m[3]].st = "published"
  PROVE  N!MarksArePublic' /\ N!MarkingPublic'
<1>1. \A m \in marks : m[3] \in Posts
  BY ChannelParts DEF N!RowsTyped
<1>2. N!MarksArePublic'
  BY <1>1, ChannelParts DEF N!MarksArePublic
<1>3. \A k \in Handlers : njob[k].at = "mark" => njob[k].m[3] \in Posts
  BY ChannelParts DEF N!RowsTyped, N!Jobs, N!Idle
<1>4. N!MarkingPublic'
  BY <1>3, ChannelParts DEF N!MarkingPublic
<1>5. QED
  BY <1>2, <1>4

(* A step that charges nobody and stores no subscription.                  *)
LEMMA ChannelCharges ==
  ASSUME N!ChannelsInv, NEW h \in Handlers, NEW j, \A k \in Handlers : njob'[k] = (IF k = h THEN j ELSE njob[k]),
         UNCHANGED <<charged, stored>>, j.at # "subscribe",
         \/ nfaults' = nfaults /\ njob[h].at # "subscribe"
         \/ nfaults' = nfaults + 1
  PROVE  N!ChargesKept'
<1>1. CASE nfaults' = nfaults /\ njob[h].at # "subscribe"
  <2>1. \A u : N!Paying(u)' = N!Paying(u)
    BY <1>1 DEF N!Paying
  <2>2. QED
    BY <1>1, <2>1, ChannelParts DEF N!ChargesKept
<1>2. CASE nfaults' = nfaults + 1
  BY <1>2, ChannelParts DEF N!ChargesKept, N!RowsTyped
<1>3. QED
  BY <1>1, <1>2

(* Only the job of h changes, and the row of the channel.                  *)
LEMMA ChannelMove ==
  ASSUME N!ChannelsInv, NEW h \in Handlers, NEW j \in {N!Idle} \cup N!Jobs, njob' = [njob EXCEPT ![h] = j],
         UNCHANGED <<nrole, post, due, told, marks, charged, stored, crossed, novertaken>>,
         channel' \in [st : {"none", "live", "deleted"}, premium : BOOLEAN],
         channel.st # "none", channel'.st # "none",
         j.at \notin {"tell", "publish", "subscribe"}, ~(j.at = "member" /\ j.r = N!RoleOwner),
         ~novertaken /\ j.at = "role" => nrole[j.u] # N!RoleOwner,
         j.at = "mark" => post[j.m[3]].st = "published",
         \/ nfaults' = nfaults /\ njob[h].at \notin {"subscribe", "member"}
         \/ nfaults' = nfaults + 1
  PROVE  N!ChannelsInv'
<1>1. /\ njob' \in [Handlers -> {N!Idle} \cup N!Jobs]
      /\ \A k \in Handlers : njob'[k] = (IF k = h THEN j ELSE njob[k])
  BY ChannelParts DEF N!RowsTyped
<1>2. N!TypeOK' /\ N!Fresh'
  BY ChannelParts DEF N!TypeOK, N!Fresh
<1>3. N!RowsTyped'
  BY <1>1, ChannelParts DEF N!RowsTyped
<1>4. N!Crowned' /\ N!OwnerSafe'
  <2>1. \/ nfaults' = nfaults /\ (\A u \in PublicUsers : ~N!Crowns(h, u))
        \/ nfaults' = nfaults + 1
    BY DEF N!Crowns
  <2>2. QED
    BY <1>1, <2>1, ChannelOwners
<1>5. N!Announced'
  BY <1>1, ChannelQuiet
<1>6. N!MarksArePublic' /\ N!MarkingPublic'
  BY <1>1, ChannelMarks
<1>7. N!ChargesKept'
  BY <1>1, ChannelCharges
<1>8. QED
  BY <1>2, <1>3, <1>4, <1>5, <1>6, <1>7, ChannelWhole

LEMMA ChannelDecide ==
  ASSUME N!ChannelsInv, NEW h \in Handlers, NEW j \in N!Jobs, N!Caller(h), N!Decide(h, j),
         j.at \notin {"tell", "publish", "subscribe"}, ~(j.at = "member" /\ j.r = N!RoleOwner),
         ~novertaken /\ j.at = "role" => nrole[j.u] # N!RoleOwner,
         j.at = "mark" => post[j.m[3]].st = "published"
  PROVE  N!ChannelsInv'
<1>1. njob[h].at = "idle" /\ channel.st = "live"
  BY DEF N!Caller, N!Idle
<1>2. channel' \in [st : {"none", "live", "deleted"}, premium : BOOLEAN] /\ channel'.st = "live"
  BY <1>1, ChannelParts DEF N!Decide, N!TypeOK
<1>3. QED
  BY <1>1, <1>2, ChannelMove DEF N!Decide, N!Become

(* The decisions of one user.                                              *)
LEMMA ChannelDecides ==
  ASSUME N!ChannelsInv, NEW h \in Handlers, NEW u \in PublicUsers,
         \/ N!Follow(h, u) \/ N!Unfollow(h, u) \/ N!Subscribe(h, u) \/ N!Delete(h, u)
         \/ \E t \in PublicUsers, r \in {N!RoleFollower, N!RoleAdmin} : N!SetRole(h, u, t, r)
         \/ \E premium \in BOOLEAN : N!SetPremium(h, u, premium)
  PROVE  N!ChannelsInv'
<1>1. CASE N!Follow(h, u)
  <2> DEFINE j == [at |-> "member", u |-> u, r |-> N!RoleFollower]
  <2>1. j \in N!Jobs /\ j.at = "member" /\ j.r # N!RoleOwner /\ N!Caller(h) /\ N!Decide(h, j)
    BY <1>1 DEF N!Jobs, N!Follow
  <2> HIDE DEF j
  <2>2. QED
    BY <2>1, ChannelDecide
<1>2. CASE N!Unfollow(h, u)
  <2> DEFINE j == [at |-> "role", u |-> u, r |-> N!None]
  <2>1. j \in N!Jobs /\ j.at = "role" /\ j.u = u /\ N!Caller(h) /\ N!Decide(h, j)
    BY <1>2 DEF N!Jobs, N!Unfollow
  <2> HIDE DEF j
  <2>2. nrole[u] # N!RoleOwner /\ nrole[u] # N!None
    BY <1>2 DEF N!Unfollow
  <2>3. QED
    BY <2>1, <2>2, ChannelDecide
<1>3. CASE N!Subscribe(h, u)
  <2> DEFINE j == [at |-> "charge", u |-> u]
  <2>1. j \in N!Jobs /\ j.at = "charge" /\ N!Caller(h) /\ N!Decide(h, j)
    BY <1>3 DEF N!Jobs, N!Subscribe
  <2> HIDE DEF j
  <2>2. QED
    BY <2>1, ChannelDecide
<1>4. CASE N!Delete(h, u)
  <2> DEFINE j == [at |-> "drop"]
  <2>1. j \in N!Jobs /\ j.at = "drop" /\ N!Caller(h) /\ N!Decide(h, j)
    BY <1>4 DEF N!Jobs, N!Delete
  <2> HIDE DEF j
  <2>2. QED
    BY <2>1, ChannelDecide
<1>5. ASSUME NEW t \in PublicUsers, NEW r \in {N!RoleFollower, N!RoleAdmin}, N!SetRole(h, u, t, r)
      PROVE  N!ChannelsInv'
  <2> DEFINE j == [at |-> "role", u |-> t, r |-> r]
  <2>1. j \in N!Jobs /\ j.at = "role" /\ j.u = t /\ N!Caller(h) /\ N!Decide(h, j)
    BY <1>5 DEF N!Jobs, N!SetRole
  <2> HIDE DEF j
  <2>2. nrole[u] = N!RoleOwner /\ t # u
    BY <1>5 DEF N!SetRole
  <2>3. nrole[t] # N!RoleOwner
    BY <2>2, ChannelParts DEF N!Crowned
  <2>4. QED
    BY <2>1, <2>3, ChannelDecide
<1>6. ASSUME NEW premium \in BOOLEAN, N!SetPremium(h, u, premium) PROVE N!ChannelsInv'
  <2> DEFINE j == [at |-> "premium", to |-> premium]
  <2>1. j \in N!Jobs /\ j.at = "premium" /\ N!Caller(h) /\ N!Decide(h, j)
    BY <1>6 DEF N!Jobs, N!SetPremium
  <2> HIDE DEF j
  <2>2. QED
    BY <2>1, ChannelDecide
<1>7. QED
  BY <1>1, <1>2, <1>3, <1>4, <1>5, <1>6

(* The decisions about a post.                                             *)
LEMMA ChannelPosts ==
  ASSUME N!ChannelsInv, NEW h \in Handlers, NEW u \in PublicUsers, NEW p \in Posts,
         \/ \E st \in {"scheduled", "published"} : N!CreatePost(h, u, p, st)
         \/ \E kind \in {"reaction", "comment"} : N!Mark(h, kind, u, p)
         \/ N!DeletePost(h, u, p)
  PROVE  N!ChannelsInv'
<1>1. ASSUME NEW st \in {"scheduled", "published"}, N!CreatePost(h, u, p, st) PROVE N!ChannelsInv'
  <2> DEFINE j == [at |-> "post", u |-> u, p |-> p, st |-> st]
  <2>1. j \in N!Jobs /\ j.at = "post" /\ N!Caller(h) /\ N!Decide(h, j)
    BY <1>1 DEF N!Jobs, N!CreatePost
  <2> HIDE DEF j
  <2>2. QED
    BY <2>1, ChannelDecide
<1>2. ASSUME NEW kind \in {"reaction", "comment"}, N!Mark(h, kind, u, p) PROVE N!ChannelsInv'
  <2> DEFINE j == [at |-> "mark", m |-> <<kind, u, p>>]
  <2>1. j \in N!Jobs /\ j.at = "mark" /\ j.m[3] = p
    BY DEF N!Jobs
  <2>2. N!Caller(h) /\ N!Decide(h, j) /\ post[p].st = "published"
    BY <1>2 DEF N!Mark, N!ViewablePost
  <2> HIDE DEF j
  <2>3. QED
    BY <2>1, <2>2, ChannelDecide
<1>3. CASE N!DeletePost(h, u, p)
  <2> DEFINE j == [at |-> "delete", p |-> p]
  <2>1. j \in N!Jobs /\ j.at = "delete" /\ N!Caller(h) /\ N!Decide(h, j)
    BY <1>3 DEF N!Jobs, N!DeletePost
  <2> HIDE DEF j
  <2>2. QED
    BY <2>1, ChannelDecide
<1>4. QED
  BY <1>1, <1>2, <1>3

(* Writes of the row of the channel, and handlers that die.                *)
LEMMA ChannelRow ==
  ASSUME N!ChannelsInv, NEW h \in Handlers, N!WritePremium(h) \/ N!DeleteChannel(h) \/ N!Abandon(h)
  PROVE  N!ChannelsInv'
<1>1. N!Idle.at = "idle" /\ channel \in [st : {"none", "live", "deleted"}, premium : BOOLEAN]
  BY ChannelParts DEF N!Idle, N!TypeOK
<1>2. CASE N!WritePremium(h)
  <2>1. njob[h].at = "premium" /\ njob[h].to \in BOOLEAN
    BY <1>2, ChannelJob DEF N!WritePremium, N!Jobs, N!Idle
  <2>2. /\ channel.st # "none" /\ channel' \in [st : {"none", "live", "deleted"}, premium : BOOLEAN]
        /\ channel'.st = channel.st
    BY <1>1, <1>2, <2>1, ChannelJob DEF N!WritePremium
  <2>3. /\ njob' = [njob EXCEPT ![h] = N!Idle] /\ nfaults' = nfaults
        /\ UNCHANGED <<nrole, post, due, told, marks, charged, stored, crossed, novertaken>>
    BY <1>2 DEF N!WritePremium, N!Become
  <2>4. QED
    BY <1>1, <2>1, <2>2, <2>3, ChannelMove
<1>3. CASE N!DeleteChannel(h)
  <2>1. njob[h].at = "drop"
    BY <1>3 DEF N!DeleteChannel
  <2>2. /\ channel.st # "none" /\ channel' \in [st : {"none", "live", "deleted"}, premium : BOOLEAN]
        /\ channel'.st = "deleted"
    BY <1>1, <1>3, <2>1, ChannelJob DEF N!DeleteChannel
  <2>3. /\ njob' = [njob EXCEPT ![h] = N!Idle] /\ nfaults' = nfaults
        /\ UNCHANGED <<nrole, post, due, told, marks, charged, stored, crossed, novertaken>>
    BY <1>3 DEF N!DeleteChannel, N!Become
  <2>4. QED
    BY <1>1, <2>1, <2>2, <2>3, ChannelMove
<1>4. CASE N!Abandon(h)
  <2>1. njob[h].at # "idle" /\ channel' = channel
    BY <1>4, ChannelJob DEF N!Abandon
  <2>2. channel.st # "none" /\ nfaults' = nfaults + 1
    BY <1>4, <2>1, ChannelJob DEF N!Abandon
  <2>3. /\ njob' = [njob EXCEPT ![h] = N!Idle]
        /\ UNCHANGED <<nrole, post, due, told, marks, charged, stored, crossed, novertaken>>
    BY <1>4 DEF N!Abandon, N!Become
  <2>4. QED
    BY <1>1, <2>1, <2>2, <2>3, ChannelMove
<1>5. QED
  BY <1>2, <1>3, <1>4

(* The channel is created once.                                            *)
LEMMA ChannelCreate ==
  ASSUME N!ChannelsInv, NEW h \in Handlers, NEW u \in PublicUsers, N!Create(h, u)
  PROVE  N!ChannelsInv'
<1> DEFINE j == [at |-> "member", u |-> u, r |-> N!RoleOwner]
<1>1. /\ channel.st = "none" /\ channel' = [channel EXCEPT !.st = "live"] /\ njob' = [njob EXCEPT ![h] = j]
      /\ UNCHANGED <<nrole, post, due, told, marks, charged, stored, crossed, novertaken, nfaults>>
  BY DEF N!Create, N!CreateChannel, N!Become
<1>2. j \in N!Jobs /\ j.at = "member" /\ j.u = u /\ j.r = N!RoleOwner
  BY DEF N!Jobs
<1> HIDE DEF j
<1>3. /\ njob' \in [Handlers -> {N!Idle} \cup N!Jobs]
      /\ \A k \in Handlers : njob'[k] = (IF k = h THEN j ELSE njob[k])
  BY <1>1, <1>2, ChannelParts DEF N!RowsTyped
<1>4. channel' \in [st : {"none", "live", "deleted"}, premium : BOOLEAN] /\ channel'.st = "live"
  BY <1>1, ChannelParts DEF N!TypeOK
<1>5. N!TypeOK' /\ N!Fresh'
  BY <1>1, <1>4, ChannelParts DEF N!TypeOK, N!Fresh
<1>6. N!RowsTyped'
  BY <1>1, <1>3, ChannelParts DEF N!RowsTyped
<1>7. (\A k \in Handlers : njob[k].at = "idle") /\ (\A v \in PublicUsers : nrole[v] = N!None)
  BY <1>1, ChannelParts DEF N!Fresh, N!Idle
<1>8. \A k \in Handlers : \A v : N!Crowns(k, v)' <=> k = h /\ v = u
  BY <1>2, <1>3, <1>7 DEF N!Crowns
<1>9. N!Crowned'
  BY <1>1, <1>7, <1>8 DEF N!Crowned
<1>10. N!OwnerSafe'
  BY <1>1, <1>2, <1>3, <1>7, <1>8 DEF N!OwnerSafe
<1>11. N!Announced'
  BY <1>1, <1>2, <1>3, ChannelQuiet
<1>12. N!MarksArePublic' /\ N!MarkingPublic'
  BY <1>1, <1>2, <1>3, ChannelMarks
<1>13. N!ChargesKept'
  BY <1>1, <1>2, <1>3, <1>7, ChannelCharges
<1>14. QED
  BY <1>5, <1>6, <1>9, <1>10, <1>11, <1>12, <1>13, ChannelWhole

(* A handler that changes a role and ends: the parts that roles are not in.*)
LEMMA ChannelRoleRest ==
  ASSUME N!ChannelsInv, NEW h \in Handlers, njob[h].at \in {"member", "role"},
         njob' = [njob EXCEPT ![h] = N!Idle], nrole' \in [PublicUsers -> N!None .. N!RoleOwner],
         UNCHANGED <<channel, post, due, told, marks, charged, stored, crossed, nfaults>>, novertaken' \in BOOLEAN
  PROVE  /\ N!TypeOK' /\ N!RowsTyped' /\ N!Fresh' /\ N!Announced' /\ N!MarksArePublic'
         /\ N!MarkingPublic' /\ N!ChargesKept'
<1>1. /\ njob' \in [Handlers -> {N!Idle} \cup N!Jobs] /\ N!Idle.at = "idle"
      /\ \A k \in Handlers : njob'[k] = (IF k = h THEN N!Idle ELSE njob[k])
  BY ChannelParts DEF N!RowsTyped, N!Idle
<1>2. N!TypeOK' /\ N!Fresh'
  <2>1. channel.st # "none"
    BY ChannelJob
  <2>2. QED
    BY <2>1, ChannelParts DEF N!TypeOK, N!Fresh
<1>3. N!RowsTyped'
  BY <1>1, ChannelParts DEF N!RowsTyped
<1>4. N!Announced'
  BY <1>1, ChannelQuiet
<1>5. N!MarksArePublic' /\ N!MarkingPublic'
  BY <1>1, ChannelMarks
<1>6. N!ChargesKept'
  BY <1>1, ChannelCharges
<1>7. QED
  BY <1>2, <1>3, <1>4, <1>5, <1>6

LEMMA ChannelAddMember ==
  ASSUME N!ChannelsInv, NEW h \in Handlers, N!AddMember(h)
  PROVE  N!ChannelsInv'
<1> DEFINE u == njob[h].u
           q == njob[h].r
<1>1. /\ njob[h].at = "member" /\ u \in PublicUsers /\ q \in {N!RoleFollower, N!RoleOwner}
      /\ njob' = [njob EXCEPT ![h] = N!Idle]
      /\ UNCHANGED <<channel, post, due, told, marks, charged, stored, crossed, nfaults>>
      /\ N!TypeOK /\ novertaken \in BOOLEAN
  BY ChannelJob, ChannelParts DEF N!AddMember, N!Become, N!RowsTyped
<1>2. nrole' = [nrole EXCEPT ![u] = IF nrole[u] = N!None THEN q ELSE nrole[u]]
  BY DEF N!AddMember, N!Joined
<1>3. /\ novertaken' = (novertaken \/ (q = N!RoleOwner /\ N!Joining(u)))
      /\ ~N!Joining(u) => nrole[u] = N!None /\ \A k \in Handlers : njob[k].at = "role" => njob[k].u # u
  BY DEF N!AddMember, N!Joining
<1>4. /\ \A k \in Handlers : njob'[k] = (IF k = h THEN N!Idle ELSE njob[k])
      /\ N!Idle.at = "idle"
  BY <1>1, ChannelParts DEF N!Idle, N!RowsTyped
<1>5. \A k \in Handlers : \A v : N!Crowns(k, v)' <=> k # h /\ N!Crowns(k, v)
  BY <1>1, <1>4 DEF N!Crowns
<1>6. \A v : N!Crowns(h, v) <=> q = N!RoleOwner /\ v = u
  BY <1>1 DEF N!Crowns
<1> HIDE DEF u, q
<1>7. /\ nrole' \in [PublicUsers -> N!None .. N!RoleOwner]
      /\ \A v \in PublicUsers : v # u => nrole'[v] = nrole[v]
      /\ nrole[u] # N!None => nrole'[u] = nrole[u]
      /\ nrole[u] = N!None => nrole'[u] = q
  BY <1>1, <1>2 DEF N!TypeOK
<1>8. \A v \in PublicUsers : nrole'[v] = N!RoleOwner => nrole[v] = N!RoleOwner \/ (v = u /\ q = N!RoleOwner)
  BY <1>7
<1>9. q = N!RoleOwner => \A v \in PublicUsers : nrole[v] # N!RoleOwner
  BY <1>1, <1>6, ChannelParts DEF N!Crowned
<1>10. N!OwnerSafe'
  <2> SUFFICES ASSUME ~novertaken', NEW k \in Handlers, njob'[k].at = "role"
               PROVE  nrole'[njob'[k].u] # N!RoleOwner
    BY DEF N!OwnerSafe
  <2>1. ~novertaken /\ ~(q = N!RoleOwner /\ N!Joining(u))
    BY <1>3
  <2>2. njob'[k] = njob[k] /\ njob[k].at = "role" /\ njob[k].u \in PublicUsers
    BY <1>4, ChannelJob
  <2>3. nrole[njob[k].u] # N!RoleOwner
    BY <2>1, <2>2, ChannelParts DEF N!OwnerSafe
  <2>4. QED
    BY <1>3, <1>8, <2>1, <2>2, <2>3
<1>11. N!Crowned'
  <2>1. \A v, w \in PublicUsers : nrole'[v] = N!RoleOwner /\ nrole'[w] = N!RoleOwner => v = w
    BY <1>8, <1>9, ChannelParts DEF N!Crowned
  <2>2. \A k, l \in Handlers, v, w \in PublicUsers : N!Crowns(k, v)' /\ N!Crowns(l, w)' => k = l
    BY <1>5, ChannelParts DEF N!Crowned
  <2>3. ASSUME NEW k \in Handlers, NEW v \in PublicUsers, N!Crowns(k, v)'
        PROVE  \A w \in PublicUsers : nrole'[w] # N!RoleOwner
    <3>1. k # h /\ N!Crowns(k, v)
      BY <1>5, <2>3
    <3>2. q # N!RoleOwner
      BY <1>1, <1>6, <3>1, ChannelParts DEF N!Crowned
    <3>3. QED
      BY <1>8, <3>1, <3>2, ChannelParts DEF N!Crowned
  <2>4. ASSUME channel.st # "none", ~novertaken', ~(nfaults > 0)
        PROVE  \E v \in PublicUsers : nrole'[v] = N!RoleOwner \/ \E k \in Handlers : N!Crowns(k, v)'
    <3>1. ~novertaken
      BY <1>3, <2>4
    <3>2. CASE q = N!RoleOwner
      <4>1. nrole[u] = N!None
        BY <1>3, <2>4, <3>2
      <4>2. QED
        BY <1>1, <1>7, <3>2, <4>1
    <3>3. CASE q # N!RoleOwner
      <4>1. PICK v \in PublicUsers : nrole[v] = N!RoleOwner \/ \E k \in Handlers : N!Crowns(k, v)
        BY <2>4, <3>1, ChannelParts DEF N!Crowned
      <4>2. CASE nrole[v] = N!RoleOwner
        BY <1>7, <4>2
      <4>3. ASSUME NEW k \in Handlers, N!Crowns(k, v) PROVE N!Crowns(k, v)'
        BY <1>5, <1>6, <3>3, <4>3
      <4>4. QED
        BY <4>1, <4>2, <4>3
    <3>4. QED
      BY <3>2, <3>3
  <2>5. QED
    BY <1>1, <2>1, <2>2, <2>3, <2>4 DEF N!Crowned
<1>12. novertaken' \in BOOLEAN
  BY <1>1, <1>3
<1>13. QED
  BY <1>1, <1>7, <1>10, <1>11, <1>12, ChannelRoleRest, ChannelWhole

LEMMA ChannelWriteRole ==
  ASSUME N!ChannelsInv, NEW h \in Handlers, N!WriteRole(h)
  PROVE  N!ChannelsInv'
<1> DEFINE u == njob[h].u
           q == njob[h].r
<1>1. /\ njob[h].at = "role" /\ u \in PublicUsers /\ q \in {N!None, N!RoleFollower, N!RoleAdmin}
      /\ njob' = [njob EXCEPT ![h] = N!Idle]
      /\ UNCHANGED <<channel, post, due, told, marks, charged, stored, crossed, novertaken, nfaults>>
      /\ N!TypeOK /\ novertaken \in BOOLEAN
  BY ChannelJob, ChannelParts DEF N!WriteRole, N!Become, N!RowsTyped
<1>2. nrole' = [nrole EXCEPT ![u] = IF nrole[u] = N!None THEN nrole[u] ELSE q]
  BY DEF N!WriteRole
<1>3. /\ \A k \in Handlers : njob'[k] = (IF k = h THEN N!Idle ELSE njob[k])
      /\ N!Idle.at = "idle"
  BY <1>1, ChannelParts DEF N!Idle, N!RowsTyped
<1>4. \A k \in Handlers : \A v : N!Crowns(k, v)' <=> N!Crowns(k, v)
  BY <1>1, <1>3 DEF N!Crowns
<1>5. ~novertaken => nrole[u] # N!RoleOwner
  BY <1>1, ChannelParts DEF N!OwnerSafe
<1> HIDE DEF u, q
<1>6. /\ nrole' \in [PublicUsers -> N!None .. N!RoleOwner]
      /\ \A v \in PublicUsers : v # u => nrole'[v] = nrole[v]
      /\ nrole[u] = N!None => nrole'[u] = N!None
      /\ nrole'[u] # N!RoleOwner
  BY <1>1, <1>2 DEF N!TypeOK
<1>7. N!Crowned'
  <2>1. /\ \A v, w \in PublicUsers : nrole'[v] = N!RoleOwner /\ nrole'[w] = N!RoleOwner => v = w
        /\ \A k, l \in Handlers, v, w \in PublicUsers : N!Crowns(k, v)' /\ N!Crowns(l, w)' => k = l
        /\ \A k \in Handlers, v \in PublicUsers : N!Crowns(k, v)' => \A w \in PublicUsers : nrole'[w] # N!RoleOwner
    BY <1>4, <1>6, ChannelParts DEF N!Crowned
  <2>2. ASSUME channel.st # "none", ~novertaken, ~(nfaults > 0)
        PROVE  \E v \in PublicUsers : nrole'[v] = N!RoleOwner \/ \E k \in Handlers : N!Crowns(k, v)'
    BY <1>4, <1>5, <1>6, <2>2, ChannelParts DEF N!Crowned
  <2>3. QED
    BY <1>1, <2>1, <2>2 DEF N!Crowned
<1>8. N!OwnerSafe'
  <2>1. \A k \in Handlers : njob'[k].at = "role" => njob'[k] = njob[k] /\ njob[k].u \in PublicUsers
    BY <1>3, ChannelJob
  <2>2. QED
    BY <1>1, <1>4, <1>6, <2>1, ChannelParts DEF N!OwnerSafe
<1>9. QED
  BY <1>1, <1>6, <1>7, <1>8, ChannelRoleRest, ChannelWhole

(* A handler whose step leaves the channel and the roles alone.            *)
LEMMA ChannelApart ==
  ASSUME N!ChannelsInv, NEW h \in Handlers, NEW j \in {N!Idle} \cup N!Jobs, njob' = [njob EXCEPT ![h] = j],
         UNCHANGED <<channel, nrole, novertaken, nfaults>>, channel.st # "none", njob[h].at # "member",
         j.at # "role", ~(j.at = "member" /\ j.r = N!RoleOwner)
  PROVE  /\ njob' \in [Handlers -> {N!Idle} \cup N!Jobs]
         /\ \A k \in Handlers : njob'[k] = (IF k = h THEN j ELSE njob[k])
         /\ N!Fresh' /\ N!Crowned' /\ N!OwnerSafe'
<1>1. /\ njob' \in [Handlers -> {N!Idle} \cup N!Jobs]
      /\ \A k \in Handlers : njob'[k] = (IF k = h THEN j ELSE njob[k])
  BY ChannelParts DEF N!RowsTyped
<1>2. \A u \in PublicUsers : ~N!Crowns(h, u)
  BY DEF N!Crowns
<1>3. N!Crowned' /\ N!OwnerSafe'
  BY <1>1, <1>2, ChannelOwners
<1>4. N!Fresh'
  BY DEF N!Fresh
<1>5. QED
  BY <1>1, <1>3, <1>4

LEMMA ChannelWriteMark ==
  ASSUME N!ChannelsInv, NEW h \in Handlers, N!WriteMark(h)
  PROVE  N!ChannelsInv'
<1>1. /\ njob[h].at = "mark" /\ marks' = marks \cup {njob[h].m} /\ njob' = [njob EXCEPT ![h] = N!Idle]
      /\ UNCHANGED <<channel, nrole, post, due, told, charged, stored, crossed, novertaken, nfaults>>
  BY DEF N!WriteMark, N!Become
<1>2. N!Idle.at = "idle" /\ channel.st # "none" /\ njob[h].m \in {"reaction", "comment"} \X PublicUsers \X Posts
  BY <1>1, ChannelJob DEF N!Idle, N!Jobs
<1>3. /\ njob' \in [Handlers -> {N!Idle} \cup N!Jobs]
      /\ \A k \in Handlers : njob'[k] = (IF k = h THEN N!Idle ELSE njob[k])
      /\ N!Fresh' /\ N!Crowned' /\ N!OwnerSafe'
  BY <1>1, <1>2, ChannelApart
<1>4. N!TypeOK' /\ N!RowsTyped'
  BY <1>1, <1>2, <1>3, ChannelParts DEF N!TypeOK, N!RowsTyped
<1>5. N!Announced'
  BY <1>1, <1>2, <1>3, ChannelQuiet
<1>6. N!MarksArePublic' /\ N!MarkingPublic'
  BY <1>1, <1>2, <1>3, ChannelParts DEF N!MarksArePublic, N!MarkingPublic
<1>7. N!ChargesKept'
  BY <1>1, <1>2, <1>3, ChannelCharges
<1>8. QED
  BY <1>3, <1>4, <1>5, <1>6, <1>7, ChannelWhole

LEMMA ChannelTombstone ==
  ASSUME N!ChannelsInv, NEW h \in Handlers, N!TombstonePost(h)
  PROVE  N!ChannelsInv'
<1> DEFINE p == njob[h].p
<1>1. /\ njob[h].at = "delete" /\ post' = [post EXCEPT ![p].deleted = TRUE] /\ njob' = [njob EXCEPT ![h] = N!Idle]
      /\ UNCHANGED <<channel, nrole, due, told, marks, charged, stored, crossed, novertaken, nfaults>>
  BY DEF N!TombstonePost, N!Become
<1>2. N!Idle.at = "idle" /\ channel.st # "none" /\ p \in Posts
  BY <1>1, ChannelJob DEF N!Idle
<1>3. /\ njob' \in [Handlers -> {N!Idle} \cup N!Jobs]
      /\ \A k \in Handlers : njob'[k] = (IF k = h THEN N!Idle ELSE njob[k])
      /\ N!Fresh' /\ N!Crowned' /\ N!OwnerSafe'
  BY <1>1, <1>2, ChannelApart
<1>4. /\ post' \in [Posts -> N!PostRows]
      /\ \A q \in Posts : post'[q].st = post[q].st
  <2>1. post \in [Posts -> N!PostRows]
    BY ChannelParts DEF N!RowsTyped
  <2>2. QED
    BY <1>1, <1>2, <2>1 DEF N!PostRows
<1>5. N!TypeOK' /\ N!RowsTyped'
  BY <1>1, <1>3, <1>4, ChannelParts DEF N!TypeOK, N!RowsTyped
<1>6. N!Announced'
  BY <1>1, <1>2, <1>3, <1>4, ChannelQuiet
<1>7. N!MarksArePublic' /\ N!MarkingPublic'
  BY <1>1, <1>2, <1>3, <1>4, ChannelMarks
<1>8. N!ChargesKept'
  BY <1>1, <1>2, <1>3, ChannelCharges
<1>9. QED
  BY <1>3, <1>5, <1>6, <1>7, <1>8, ChannelWhole

(* The charge is taken by a handler that will store the subscription.      *)
LEMMA ChannelCharge ==
  ASSUME N!ChannelsInv, NEW h \in Handlers, N!Charge(h)
  PROVE  N!ChannelsInv'
<1>0. njob[h].at = "charge"
  BY DEF N!Charge
<1>2. PICK u \in PublicUsers : u = njob[h].u /\ channel.st # "none"
  BY <1>0, ChannelJob
<1> DEFINE j == [at |-> "subscribe", u |-> u]
<1>1. /\ njob[h].at = "charge" /\ charged' = [charged EXCEPT ![u] = @ + 1] /\ njob' = [njob EXCEPT ![h] = j]
      /\ UNCHANGED <<channel, nrole, post, due, told, marks, stored, crossed, novertaken, nfaults>>
  BY <1>0, <1>2 DEF N!Charge, N!Become
<1>3. j \in N!Jobs /\ j.at = "subscribe" /\ j.u = u
  BY <1>2 DEF N!Jobs
<1> HIDE DEF j
<1>4. /\ njob' \in [Handlers -> {N!Idle} \cup N!Jobs]
      /\ \A k \in Handlers : njob'[k] = (IF k = h THEN j ELSE njob[k])
      /\ N!Fresh' /\ N!Crowned' /\ N!OwnerSafe'
  BY <1>1, <1>2, <1>3, ChannelApart
<1>5. /\ charged' \in [PublicUsers -> Nat] /\ charged'[u] = charged[u] + 1
      /\ \A v \in PublicUsers : v # u => charged'[v] = charged[v]
  BY <1>1, <1>2, ChannelParts DEF N!RowsTyped
<1>6. N!TypeOK' /\ N!RowsTyped'
  BY <1>1, <1>4, <1>5, ChannelParts DEF N!TypeOK, N!RowsTyped
<1>7. N!Announced'
  BY <1>1, <1>3, <1>4, ChannelQuiet
<1>8. N!MarksArePublic' /\ N!MarkingPublic'
  BY <1>1, <1>3, <1>4, ChannelMarks
<1>9. N!ChargesKept'
  <2>1. N!Paying(u)' = N!Paying(u) \cup {h} /\ h \notin N!Paying(u) /\ N!Paying(u) \subseteq Handlers
    BY <1>1, <1>2, <1>3, <1>4 DEF N!Paying
  <2>2. \A v \in PublicUsers : v # u => N!Paying(v)' = N!Paying(v)
    BY <1>1, <1>2, <1>3, <1>4 DEF N!Paying
  <2>3. Cardinality(N!Paying(u) \cup {h}) = Cardinality(N!Paying(u)) + 1 /\ Cardinality(N!Paying(u)) \in Nat
    BY <2>1, ChannelFinite, FS_AddElement
  <2>4. nfaults = 0 => charged'[u] = stored[u] + Cardinality(N!Paying(u)')
    <3>1. nfaults = 0 => charged[u] = stored[u] + Cardinality(N!Paying(u))
      BY <1>2, ChannelParts, ChannelCardinality DEF N!ChargesKept
    <3>2. stored[u] \in Nat
      BY <1>2, ChannelParts DEF N!RowsTyped
    <3>3. QED
      BY <1>5, <2>1, <2>3, <3>1, <3>2
  <2>5. \A v \in PublicUsers : v # u => (nfaults = 0 => charged'[v] = stored[v] + Cardinality(N!Paying(v)'))
    BY <1>5, <2>2, ChannelParts, ChannelCardinality DEF N!ChargesKept
  <2>6. QED
    BY <1>1, <2>4, <2>5, ChannelCardinality DEF N!ChargesKept
<1>10. QED
  BY <1>4, <1>6, <1>7, <1>8, <1>9, ChannelWhole

LEMMA ChannelStore ==
  ASSUME N!ChannelsInv, NEW h \in Handlers, N!StoreSubscription(h)
  PROVE  N!ChannelsInv'
<1>0. njob[h].at = "subscribe"
  BY DEF N!StoreSubscription
<1>2. PICK u \in PublicUsers : u = njob[h].u /\ channel.st # "none"
  BY <1>0, ChannelJob
<1> DEFINE j == [at |-> "member", u |-> u, r |-> N!RoleFollower]
<1>1. /\ njob[h].at = "subscribe" /\ stored' = [stored EXCEPT ![u] = @ + 1] /\ njob' = [njob EXCEPT ![h] = j]
      /\ UNCHANGED <<channel, nrole, post, due, told, marks, charged, crossed, novertaken, nfaults>>
  BY <1>0, <1>2 DEF N!StoreSubscription, N!Become
<1>3. j \in N!Jobs /\ j.at = "member" /\ j.r # N!RoleOwner
  BY <1>2 DEF N!Jobs
<1> HIDE DEF j
<1>4. /\ njob' \in [Handlers -> {N!Idle} \cup N!Jobs]
      /\ \A k \in Handlers : njob'[k] = (IF k = h THEN j ELSE njob[k])
      /\ N!Fresh' /\ N!Crowned' /\ N!OwnerSafe'
  BY <1>1, <1>2, <1>3, ChannelApart
<1>5. /\ stored' \in [PublicUsers -> Nat] /\ stored'[u] = stored[u] + 1
      /\ \A v \in PublicUsers : v # u => stored'[v] = stored[v]
  BY <1>1, <1>2, ChannelParts DEF N!RowsTyped
<1>6. N!TypeOK' /\ N!RowsTyped'
  BY <1>1, <1>4, <1>5, ChannelParts DEF N!TypeOK, N!RowsTyped
<1>7. N!Announced'
  BY <1>1, <1>3, <1>4, ChannelQuiet
<1>8. N!MarksArePublic' /\ N!MarkingPublic'
  BY <1>1, <1>3, <1>4, ChannelMarks
<1>9. N!ChargesKept'
  <2>1. N!Paying(u)' = N!Paying(u) \ {h} /\ h \in N!Paying(u) /\ N!Paying(u) \subseteq Handlers
    BY <1>1, <1>2, <1>3, <1>4 DEF N!Paying
  <2>2. \A v \in PublicUsers : v # u => N!Paying(v)' = N!Paying(v)
    BY <1>1, <1>2, <1>3, <1>4 DEF N!Paying
  <2>3. Cardinality(N!Paying(u) \ {h}) = Cardinality(N!Paying(u)) - 1 /\ Cardinality(N!Paying(u)) \in Nat
    BY <2>1, ChannelFinite, FS_RemoveElement
  <2>4. nfaults = 0 => charged[u] = stored'[u] + Cardinality(N!Paying(u)')
    <3>1. nfaults = 0 => charged[u] = stored[u] + Cardinality(N!Paying(u))
      BY <1>2, ChannelParts, ChannelCardinality DEF N!ChargesKept
    <3>2. stored[u] \in Nat
      BY <1>2, ChannelParts DEF N!RowsTyped
    <3>3. QED
      BY <1>5, <2>1, <2>3, <3>1, <3>2
  <2>5. \A v \in PublicUsers : v # u => (nfaults = 0 => charged[v] = stored'[v] + Cardinality(N!Paying(v)'))
    BY <1>5, <2>2, ChannelParts, ChannelCardinality DEF N!ChargesKept
  <2>6. QED
    BY <1>1, <2>4, <2>5, ChannelCardinality DEF N!ChargesKept
<1>10. QED
  BY <1>4, <1>6, <1>7, <1>8, <1>9, ChannelWhole

(* What Announced says of one post.                                        *)
LEMMA ChannelPost ==
  ASSUME N!ChannelsInv, NEW p \in Posts
  PROVE  /\ post[p].st = "none" => N!Telling(p) = {}
         /\ post[p].st # "published" => told[p] = 0 /\ \A k \in N!Telling(p) : njob[k].at = "publish"
         /\ told[p] + Cardinality(N!Telling(p)) <= Cardinality(Handlers)
         /\ p \notin crossed => /\ told[p] = 0 => \A k, l \in N!Telling(p) : k = l
                                /\ told[p] > 0 => told[p] = 1 /\ N!Telling(p) = {}
         /\ told[p] \in Nat /\ N!Telling(p) \subseteq Handlers /\ Cardinality(N!Telling(p)) \in Nat
         /\ post[p].st \in {"none", "scheduled", "published"}
<1>1. told[p] \in Nat
  BY ChannelParts, ChannelFinite, ChannelCardinality DEF N!TypeOK
<1>2. N!Telling(p) \subseteq Handlers
  BY DEF N!Telling
<1>3. Cardinality(N!Telling(p)) \in Nat
  BY <1>2, ChannelFinite
<1>4. post[p].st \in {"none", "scheduled", "published"}
  BY ChannelParts DEF N!RowsTyped, N!PostRows
<1>5. QED
  BY <1>1, <1>2, <1>3, <1>4, ChannelParts, ChannelCardinality DEF N!Announced

(* A post that is new has one handler to announce it, or none.             *)
LEMMA ChannelInsertPost ==
  ASSUME N!ChannelsInv, NEW h \in Handlers, N!InsertPost(h)
  PROVE  N!ChannelsInv'
<1> DEFINE p == njob[h].p
           tell == [at |-> "tell", ps |-> {p}]
           j == IF post[p].st = "none" /\ njob[h].st = "published" THEN tell ELSE N!Idle
<1>1. /\ njob[h].at = "post" /\ njob' = [njob EXCEPT ![h] = j]
      /\ IF post[p].st = "none" THEN post' = [post EXCEPT ![p].st = njob[h].st, ![p].by = njob[h].u] ELSE post' = post
      /\ UNCHANGED <<channel, nrole, due, told, marks, charged, stored, crossed, novertaken, nfaults>>
  BY DEF N!InsertPost, N!Become
<1>2. channel.st # "none" /\ p \in Posts /\ njob[h].u \in PublicUsers /\ njob[h].st \in {"scheduled", "published"}
  BY <1>1, ChannelJob DEF N!Jobs, N!Idle
<1>3. /\ j \in {N!Idle} \cup N!Jobs /\ j.at \in {"idle", "tell"}
      /\ j.at = "tell" <=> post[p].st = "none" /\ njob[h].st = "published"
      /\ j.at = "tell" => j.ps = {p}
  <2>1. tell \in N!Jobs /\ tell.at = "tell" /\ tell.ps = {p} /\ N!Idle.at = "idle"
    BY <1>2 DEF N!Jobs, N!Idle
  <2> HIDE DEF tell
  <2>2. QED
    BY <2>1
<1> HIDE DEF j
<1>4. /\ njob' \in [Handlers -> {N!Idle} \cup N!Jobs]
      /\ \A k \in Handlers : njob'[k] = (IF k = h THEN j ELSE njob[k])
      /\ N!Fresh' /\ N!Crowned' /\ N!OwnerSafe'
  BY <1>1, <1>2, <1>3, ChannelApart
<1>5. post \in [Posts -> N!PostRows]
  BY ChannelParts DEF N!RowsTyped
<1>6. /\ post' \in [Posts -> N!PostRows] /\ (\A r \in Posts : r # p => post'[r] = post[r])
      /\ post[p].st = "none" => post'[p].st = njob[h].st
      /\ post[p].st # "none" => post'[p] = post[p]
  <2>1. CASE post[p].st = "none"
    <3>1. post'[p] \in N!PostRows /\ post'[p].st = njob[h].st
      BY <1>1, <1>2, <1>5, <2>1 DEF N!PostRows
    <3>2. QED
      BY <1>1, <1>2, <1>5, <2>1, <3>1
  <2>2. CASE post[p].st # "none"
    BY <1>1, <1>5, <2>2
  <2>3. QED
    BY <2>1, <2>2
<1>7. N!TypeOK' /\ N!RowsTyped'
  BY <1>1, <1>4, <1>6, ChannelParts DEF N!TypeOK, N!RowsTyped
<1>8. N!MarksArePublic' /\ N!MarkingPublic'
  BY <1>1, <1>3, <1>4, <1>6, ChannelMarks
<1>9. N!ChargesKept'
  BY <1>1, <1>3, <1>4, ChannelCharges
<1>10. N!Announced'
  <2> SUFFICES ASSUME NEW r \in Posts
               PROVE  /\ post'[r].st = "none" => N!Telling(r)' = {}
                      /\ post'[r].st # "published" => told'[r] = 0 /\ \A k \in N!Telling(r)' : njob'[k].at = "publish"
                      /\ told'[r] + N!Cardinality(N!Telling(r)') <= N!Cardinality(Handlers)
                      /\ r \notin crossed' => /\ told'[r] = 0 => \A k, l \in N!Telling(r)' : k = l
                                              /\ told'[r] > 0 => told'[r] = 1 /\ N!Telling(r)' = {}
    BY DEF N!Announced
  <2>1. CASE r = p /\ j.at = "tell"
    <3>1. N!Telling(r) = {} /\ told[r] = 0 /\ post'[r].st = "published"
      BY <1>2, <1>3, <1>6, <2>1, ChannelPost
    <3>2. N!Telling(r)' = {h}
      BY <1>3, <1>4, <2>1, <3>1 DEF N!Telling
    <3>3. Cardinality({h}) = 1 /\ Cardinality({h}) <= Cardinality(Handlers) /\ Cardinality(Handlers) \in Nat
      BY FS_Singleton, ChannelFinite
    <3>4. told'[r] + N!Cardinality(N!Telling(r)') <= N!Cardinality(Handlers)
      BY <1>1, <3>1, <3>2, <3>3, ChannelCardinality
    <3>5. QED
      BY <1>1, <3>1, <3>2, <3>4
  <2>2. CASE ~(r = p /\ j.at = "tell")
    <3>1. N!Telling(r)' = N!Telling(r) /\ h \notin N!Telling(r)
      BY <1>1, <1>3, <1>4, <2>2 DEF N!Telling
    <3>2. \A k \in N!Telling(r) : njob'[k] = njob[k]
      BY <1>4, <3>1 DEF N!Telling
    <3>3. post'[r].st = "none" => post[r].st = "none"
      BY <1>2, <1>6
    <3>4. post'[r].st # "published" => post[r].st # "published"
      BY <1>2, <1>6
    <3>5. QED
      BY <1>1, <3>1, <3>2, <3>3, <3>4, ChannelPost, ChannelCardinality
  <2>3. QED
    BY <2>1, <2>2
<1>11. QED
  BY <1>4, <1>7, <1>8, <1>9, <1>10, ChannelWhole

(* Each handler that took the post up announces it once.                   *)
LEMMA ChannelBroadcast ==
  ASSUME N!ChannelsInv, NEW h \in Handlers, N!Broadcast(h)
  PROVE  N!ChannelsInv'
<1>1. /\ njob[h].at = "tell" /\ told' = [p \in Posts |-> IF p \in njob[h].ps THEN told[p] + 1 ELSE told[p]]
      /\ njob' = [njob EXCEPT ![h] = N!Idle]
      /\ UNCHANGED <<channel, nrole, post, due, marks, charged, stored, crossed, novertaken, nfaults>>
  BY DEF N!Broadcast, N!Become
<1>2. N!Idle.at = "idle" /\ channel.st # "none" /\ njob[h].ps \subseteq Posts
  BY <1>1, ChannelJob DEF N!Idle
<1>3. /\ njob' \in [Handlers -> {N!Idle} \cup N!Jobs]
      /\ \A k \in Handlers : njob'[k] = (IF k = h THEN N!Idle ELSE njob[k])
      /\ N!Fresh' /\ N!Crowned' /\ N!OwnerSafe'
  BY <1>1, <1>2, ChannelApart
<1>4. \A p \in Posts : N!Telling(p)' = N!Telling(p) \ {h} /\ (h \in N!Telling(p) <=> p \in njob[h].ps)
  BY <1>1, <1>2, <1>3 DEF N!Telling
<1>5. ASSUME NEW p \in Posts
      PROVE  /\ told'[p] \in Nat /\ told'[p] + Cardinality(N!Telling(p)') <= Cardinality(Handlers)
             /\ Cardinality(N!Telling(p)') \in Nat
  <2>1. CASE p \in njob[h].ps
    <3>1. h \in N!Telling(p) /\ N!Telling(p)' = N!Telling(p) \ {h} /\ told'[p] = told[p] + 1
      BY <1>1, <1>4, <2>1
    <3>2. Cardinality(N!Telling(p) \ {h}) = Cardinality(N!Telling(p)) - 1
      BY <3>1, ChannelPost, ChannelFinite, FS_RemoveElement
    <3>3. Cardinality(N!Telling(p) \ {h}) \in Nat
      BY ChannelPost, ChannelFinite, FS_Subset
    <3>4. QED
      BY <3>1, <3>2, <3>3, ChannelPost, ChannelFinite
  <2>2. CASE p \notin njob[h].ps
    <3>1. N!Telling(p)' = N!Telling(p) /\ told'[p] = told[p]
      BY <1>1, <1>4, <2>2
    <3>2. QED
      BY <3>1, ChannelPost
  <2>3. QED
    BY <2>1, <2>2
<1>6. told' \in [Posts -> 0 .. Cardinality(Handlers)]
  BY <1>1, <1>5, ChannelFinite
<1>7. N!TypeOK' /\ N!RowsTyped'
  BY <1>1, <1>3, <1>6, ChannelParts, ChannelCardinality DEF N!TypeOK, N!RowsTyped
<1>8. N!MarksArePublic' /\ N!MarkingPublic'
  BY <1>1, <1>2, <1>3, ChannelMarks
<1>9. N!ChargesKept'
  BY <1>1, <1>2, <1>3, ChannelCharges
<1>10. N!Announced'
  <2> SUFFICES ASSUME NEW r \in Posts
               PROVE  /\ post'[r].st = "none" => N!Telling(r)' = {}
                      /\ post'[r].st # "published" => told'[r] = 0 /\ \A k \in N!Telling(r)' : njob'[k].at = "publish"
                      /\ told'[r] + N!Cardinality(N!Telling(r)') <= N!Cardinality(Handlers)
                      /\ r \notin crossed' => /\ told'[r] = 0 => \A k, l \in N!Telling(r)' : k = l
                                              /\ told'[r] > 0 => told'[r] = 1 /\ N!Telling(r)' = {}
    BY DEF N!Announced
  <2>1. told'[r] + N!Cardinality(N!Telling(r)') <= N!Cardinality(Handlers)
    BY <1>5, ChannelCardinality
  <2>2. \A k \in N!Telling(r)' : njob'[k] = njob[k] /\ k \in N!Telling(r)
    BY <1>3, <1>4 DEF N!Telling
  <2>3. CASE r \in njob[h].ps
    <3>1. h \in N!Telling(r) /\ told'[r] = told[r] + 1
      BY <1>1, <1>4, <2>3
    <3>2. post[r].st = "published"
      BY <1>1, <3>1, ChannelPost
    <3>3. r \notin crossed => told[r] = 0 /\ N!Telling(r)' = {}
      BY <1>4, <3>1, ChannelPost
    <3>4. told'[r] > 0
      BY <3>1, ChannelPost
    <3>5. QED
      BY <1>1, <2>1, <3>1, <3>2, <3>3, <3>4
  <2>4. CASE r \notin njob[h].ps
    <3>1. N!Telling(r)' = N!Telling(r) /\ told'[r] = told[r]
      BY <1>1, <1>4, <2>4
    <3>2. QED
      BY <1>1, <2>1, <2>2, <3>1, ChannelPost
  <2>5. QED
    BY <2>3, <2>4
<1>11. QED
  BY <1>3, <1>7, <1>8, <1>9, <1>10, ChannelWhole

(* A sweep picks only posts that are not out: none of them was announced,  *)
(* and one that another sweep holds is crossed from then on.               *)
LEMMA ChannelPublishDue ==
  ASSUME N!ChannelsInv, NEW h \in Handlers, N!PublishDue(h)
  PROVE  N!ChannelsInv'
<1> DEFINE j == [at |-> "publish", ps |-> N!Due]
<1>1. /\ njob[h] = N!Idle /\ N!Due # {} /\ njob' = [njob EXCEPT ![h] = j]
      /\ crossed' = crossed \cup {p \in N!Due : \E g \in Handlers : njob[g].at = "publish" /\ p \in njob[g].ps}
      /\ UNCHANGED <<channel, nrole, post, due, told, marks, charged, stored, novertaken, nfaults>>
  BY DEF N!PublishDue, N!Become
<1>2. N!Due \subseteq Posts /\ (\A p \in N!Due : post[p].st = "scheduled")
  BY ChannelParts DEF N!Due, N!RowsTyped
<1>3. channel.st # "none" /\ njob[h].at = "idle"
  BY <1>1, <1>2, ChannelParts DEF N!Fresh, N!Idle
<1>4. j \in N!Jobs /\ j.at = "publish" /\ j.ps = N!Due
  BY <1>2 DEF N!Jobs
<1> HIDE DEF j
<1>5. /\ njob' \in [Handlers -> {N!Idle} \cup N!Jobs]
      /\ \A k \in Handlers : njob'[k] = (IF k = h THEN j ELSE njob[k])
      /\ N!Fresh' /\ N!Crowned' /\ N!OwnerSafe'
  BY <1>1, <1>3, <1>4, ChannelApart
<1>6. crossed' \subseteq Posts
  BY <1>1, <1>2, ChannelParts DEF N!RowsTyped
<1>7. N!TypeOK' /\ N!RowsTyped'
  BY <1>1, <1>5, <1>6, ChannelParts DEF N!TypeOK, N!RowsTyped
<1>8. N!MarksArePublic' /\ N!MarkingPublic'
  BY <1>1, <1>4, <1>5, ChannelMarks
<1>9. N!ChargesKept'
  BY <1>1, <1>3, <1>4, <1>5, ChannelCharges
<1>10. N!Announced'
  <2> SUFFICES ASSUME NEW r \in Posts
               PROVE  /\ post'[r].st = "none" => N!Telling(r)' = {}
                      /\ post'[r].st # "published" => told'[r] = 0 /\ \A k \in N!Telling(r)' : njob'[k].at = "publish"
                      /\ told'[r] + N!Cardinality(N!Telling(r)') <= N!Cardinality(Handlers)
                      /\ r \notin crossed' => /\ told'[r] = 0 => \A k, l \in N!Telling(r)' : k = l
                                              /\ told'[r] > 0 => told'[r] = 1 /\ N!Telling(r)' = {}
    BY DEF N!Announced
  <2>1. CASE r \in N!Due
    <3>1. post[r].st = "scheduled" /\ told[r] = 0 /\ \A k \in N!Telling(r) : njob[k].at = "publish"
      BY <1>2, <2>1, ChannelPost
    <3>2. N!Telling(r)' = N!Telling(r) \cup {h}
      BY <1>4, <1>5, <2>1 DEF N!Telling
    <3>3. \A k \in N!Telling(r)' : njob'[k].at = "publish"
      BY <1>4, <1>5, <3>1, <3>2, ChannelPost
    <3>4. N!Telling(r)' \subseteq Handlers
      BY DEF N!Telling
    <3>5. told'[r] + N!Cardinality(N!Telling(r)') <= N!Cardinality(Handlers)
      BY <1>1, <3>1, <3>4, ChannelFinite, ChannelCardinality
    <3>6. r \notin crossed' => N!Telling(r) = {}
      BY <1>1, <2>1, <3>1 DEF N!Telling
    <3>7. QED
      BY <1>1, <3>1, <3>2, <3>3, <3>5, <3>6
  <2>2. CASE r \notin N!Due
    <3>1. N!Telling(r)' = N!Telling(r) /\ h \notin N!Telling(r)
      BY <1>3, <1>4, <1>5, <2>2 DEF N!Telling
    <3>2. \A k \in N!Telling(r) : njob'[k] = njob[k]
      BY <1>5, <3>1 DEF N!Telling
    <3>3. QED
      BY <1>1, <3>1, <3>2, ChannelPost, ChannelCardinality
  <2>3. QED
    BY <2>1, <2>2
<1>11. QED
  BY <1>5, <1>7, <1>8, <1>9, <1>10, ChannelWhole

(* The rows a sweep picked are out, and the sweep will announce them.      *)
LEMMA ChannelPublishRows ==
  ASSUME N!ChannelsInv, NEW h \in Handlers, N!PublishRows(h)
  PROVE  N!ChannelsInv'
<1> DEFINE ps == njob[h].ps
           j == [at |-> "tell", ps |-> ps]
<1>1. /\ njob[h].at = "publish" /\ njob' = [njob EXCEPT ![h] = j]
      /\ post' = [p \in Posts |-> IF p \in ps THEN [post[p] EXCEPT !.st = "published"] ELSE post[p]]
      /\ UNCHANGED <<channel, nrole, due, told, marks, charged, stored, crossed, novertaken, nfaults>>
  BY DEF N!PublishRows, N!Become
<1>2. channel.st # "none" /\ ps \subseteq Posts
  BY <1>1, ChannelJob
<1>3. j \in N!Jobs /\ j.at = "tell" /\ j.ps = ps
  BY <1>2 DEF N!Jobs
<1> HIDE DEF j
<1>4. /\ njob' \in [Handlers -> {N!Idle} \cup N!Jobs]
      /\ \A k \in Handlers : njob'[k] = (IF k = h THEN j ELSE njob[k])
      /\ N!Fresh' /\ N!Crowned' /\ N!OwnerSafe'
  BY <1>1, <1>2, <1>3, ChannelApart
<1>5. /\ post' \in [Posts -> N!PostRows]
      /\ \A p \in Posts : post'[p].st = (IF p \in ps THEN "published" ELSE post[p].st)
  <2>1. post \in [Posts -> N!PostRows]
    BY ChannelParts DEF N!RowsTyped
  <2>2. \A p \in Posts : post'[p] \in N!PostRows /\ post'[p].st = (IF p \in ps THEN "published" ELSE post[p].st)
    BY <1>1, <2>1 DEF N!PostRows
  <2>3. QED
    BY <1>1, <2>2
<1>6. N!TypeOK' /\ N!RowsTyped'
  BY <1>1, <1>4, <1>5, ChannelParts DEF N!TypeOK, N!RowsTyped
<1>7. N!MarksArePublic' /\ N!MarkingPublic'
  BY <1>1, <1>3, <1>4, <1>5, ChannelMarks
<1>8. N!ChargesKept'
  BY <1>1, <1>3, <1>4, ChannelCharges
<1>9. \A p : N!Telling(p)' = N!Telling(p)
  BY <1>1, <1>3, <1>4 DEF N!Telling
<1>10. N!Announced'
  <2> SUFFICES ASSUME NEW r \in Posts
               PROVE  /\ post'[r].st = "none" => N!Telling(r)' = {}
                      /\ post'[r].st # "published" => told'[r] = 0 /\ \A k \in N!Telling(r)' : njob'[k].at = "publish"
                      /\ told'[r] + N!Cardinality(N!Telling(r)') <= N!Cardinality(Handlers)
                      /\ r \notin crossed' => /\ told'[r] = 0 => \A k, l \in N!Telling(r)' : k = l
                                              /\ told'[r] > 0 => told'[r] = 1 /\ N!Telling(r)' = {}
    BY DEF N!Announced
  <2>1. CASE r \in ps
    BY <1>1, <1>5, <1>9, <2>1, ChannelPost, ChannelCardinality
  <2>2. CASE r \notin ps
    <3>1. h \notin N!Telling(r)
      BY <2>2 DEF N!Telling
    <3>2. \A k \in N!Telling(r) : njob'[k] = njob[k]
      BY <1>4, <3>1 DEF N!Telling
    <3>3. QED
      BY <1>1, <1>5, <1>9, <2>2, <3>2, ChannelPost, ChannelCardinality
  <2>3. QED
    BY <2>1, <2>2
<1>11. QED
  BY <1>4, <1>6, <1>7, <1>8, <1>10, ChannelWhole

(* Time passes, marks are taken back, or nothing happens.                  *)
LEMMA ChannelStill ==
  ASSUME N!ChannelsInv, due' \subseteq Posts, marks' \subseteq marks,
         UNCHANGED <<channel, nrole, post, told, charged, stored, njob, crossed, novertaken, nfaults>>
  PROVE  N!ChannelsInv'
<1>1. N!TypeOK' /\ N!RowsTyped' /\ N!Fresh' /\ N!Crowned' /\ N!OwnerSafe'
  BY ChannelParts DEF N!TypeOK, N!RowsTyped, N!Fresh, N!Crowned, N!OwnerSafe, N!Crowns
<1>2. N!Announced' /\ N!MarksArePublic' /\ N!MarkingPublic' /\ N!ChargesKept'
  <2>1. (\A p : N!Telling(p)' = N!Telling(p)) /\ (\A u : N!Paying(u)' = N!Paying(u))
    BY DEF N!Telling, N!Paying
  <2>2. N!MarksArePublic' /\ N!MarkingPublic'
    BY ChannelParts DEF N!MarksArePublic, N!MarkingPublic
  <2>3. N!Announced'
    BY <2>1, ChannelParts DEF N!Announced
  <2>4. N!ChargesKept'
    BY <2>1, ChannelParts DEF N!ChargesKept
  <2>5. QED
    BY <2>2, <2>3, <2>4
<1>3. QED
  BY <1>1, <1>2, ChannelWhole

LEMMA ChannelStep == N!ChannelsInv /\ [N!Next]_NVars => N!ChannelsInv'
<1> SUFFICES ASSUME N!ChannelsInv, [N!Next]_NVars PROVE N!ChannelsInv'
  OBVIOUS
<1>0. due \subseteq Posts
  BY ChannelParts DEF N!RowsTyped
<1>1. CASE UNCHANGED NVars
  BY <1>0, <1>1, ChannelStill DEF NVars
<1>2. ASSUME NEW p \in Posts, N!TimeComes(p) PROVE N!ChannelsInv'
  BY <1>0, <1>2, ChannelStill DEF N!TimeComes
<1>3. ASSUME NEW u \in PublicUsers, NEW m \in marks, N!Unmark(u, m) PROVE N!ChannelsInv'
  BY <1>0, <1>3, ChannelStill DEF N!Unmark
<1>4. ASSUME NEW h \in Handlers, NEW u \in PublicUsers,
             \/ N!Create(h, u) \/ N!Follow(h, u) \/ N!Unfollow(h, u) \/ N!Subscribe(h, u)
             \/ \E t \in PublicUsers, r \in {N!RoleFollower, N!RoleAdmin} : N!SetRole(h, u, t, r)
             \/ N!Delete(h, u) \/ \E premium \in BOOLEAN : N!SetPremium(h, u, premium)
             \/ \E p \in Posts :
                 \/ \E st \in {"scheduled", "published"} : N!CreatePost(h, u, p, st)
                 \/ \E kind \in {"reaction", "comment"} : N!Mark(h, kind, u, p)
                 \/ N!DeletePost(h, u, p)
      PROVE  N!ChannelsInv'
  BY <1>4, ChannelCreate, ChannelDecides, ChannelPosts
<1>5. ASSUME NEW h \in Handlers,
             \/ N!AddMember(h) \/ N!WriteRole(h) \/ N!WritePremium(h) \/ N!InsertPost(h)
             \/ N!DeleteChannel(h) \/ N!Broadcast(h) \/ N!PublishDue(h) \/ N!PublishRows(h) \/ N!TombstonePost(h)
             \/ N!WriteMark(h) \/ N!Charge(h) \/ N!StoreSubscription(h) \/ N!Abandon(h)
      PROVE  N!ChannelsInv'
  BY <1>5, ChannelAddMember, ChannelWriteRole, ChannelRow, ChannelInsertPost, ChannelBroadcast, ChannelPublishDue,
     ChannelPublishRows, ChannelTombstone, ChannelWriteMark, ChannelCharge, ChannelStore
<1>6. CASE N!Next
  BY <1>2, <1>3, <1>4, <1>5, <1>6 DEF N!Next
<1>7. QED
  BY <1>1, <1>6

-----------------------------------------------------------------------------
(* Payments.                                                               *)

LEMMA PaymentInit == P!Init => P!PaymentsInv
<1> SUFFICES ASSUME P!Init PROVE P!PaymentsInv
  OBVIOUS
<1>1. P!TypeOK /\ P!MoneyRecorded /\ P!AuditIsTrue /\ P!EventsAreTrue
  BY PaymentConstants DEF P!Init, P!TypeOK, P!MoneyRecorded, P!AuditIsTrue, P!EventsAreTrue
<1>2. P!GrantsArePaid /\ P!StuckNeedsFault /\ pgrants \in [Payments -> Nat]
  BY PaymentConstants DEF P!Init, P!GrantsArePaid, P!StuckNeedsFault, P!Handled
<1>3. P!HeldOnce /\ P!CheckedOutOnce /\ P!WritesAreDue /\ pjob \in [Handlers -> {P!Idle} \cup P!Jobs]
  BY DEF P!Init, P!HeldOnce, P!CheckedOutOnce, P!WritesAreDue, P!Holds, P!Idle
<1>4. QED
  BY <1>1, <1>2, <1>3 DEF P!PaymentsInv, P!PaymentsSound

LEMMA PaymentParts ==
  ASSUME P!PaymentsInv
  PROVE  /\ P!TypeOK /\ P!MoneyRecorded /\ P!GrantsArePaid /\ P!StuckNeedsFault /\ P!AuditIsTrue
         /\ pjob \in [Handlers -> {P!Idle} \cup P!Jobs] /\ pgrants \in [Payments -> Nat]
         /\ P!EventsAreTrue /\ P!HeldOnce /\ P!CheckedOutOnce /\ P!WritesAreDue
  BY DEF P!PaymentsInv, P!PaymentsSound

(* Every job is one of these.                                              *)
LEMMA PaymentJob ==
  ASSUME P!PaymentsInv, NEW h \in Handlers
  PROVE  /\ pjob[h] = P!Idle <=> pjob[h].at = "idle"
         /\ pjob[h].at \in {"lookup", "update"} =>
                /\ pjob[h].e \in P!Events /\ P!Holds(h, pjob[h].e)
                /\ pjob[h].e[1] \in Payments /\ pjob[h].e[2] \in {"succeeded", "failed", "refunded"}
                /\ pjob[h].e = <<pjob[h].e[1], pjob[h].e[2]>>
                /\ pjob[h].e \in processed /\ pjob[h].e \in pevents
         /\ pjob[h].at \in {"checkout", "refund", "settle", "audit"} => pjob[h].p \in Payments
<1>1. pjob[h] \in {P!Idle} \cup P!Jobs
  BY PaymentParts
<1>2. pjob[h] = P!Idle <=> pjob[h].at = "idle"
  BY <1>1 DEF P!Idle, P!Jobs
<1>3. pjob[h].at \in {"checkout", "refund", "settle", "audit"} => pjob[h].p \in Payments
  BY <1>1 DEF P!Idle, P!Jobs
<1>4. ASSUME pjob[h].at \in {"lookup", "update"}
      PROVE  pjob[h].e \in P!Events /\ P!Holds(h, pjob[h].e)
  BY <1>1, <1>4 DEF P!Idle, P!Jobs, P!Holds
<1>5. \A e \in P!Events : e[1] \in Payments /\ e[2] \in {"succeeded", "failed", "refunded"} /\ e = <<e[1], e[2]>>
  BY DEF P!Events
<1>6. \A e \in P!Events : P!Holds(h, e) => e \in processed /\ e \in pevents
  BY PaymentParts DEF P!HeldOnce, P!TypeOK
<1>7. QED
  BY <1>2, <1>3, <1>4, <1>5, <1>6

(* Only the job of h changes, and the audit log.                           *)
LEMMA PaymentMove ==
  ASSUME P!PaymentsInv, NEW h \in Handlers, NEW j \in {P!Idle} \cup P!Jobs,
         pjob' = [pjob EXCEPT ![h] = j], UNCHANGED <<status, psp, pevents, processed, pgrants>>,
         j.at # "checkout",
         j.at \in {"lookup", "update"} => P!Holds(h, j.e),
         j.at = "update" => status[j.e[1]] \in IF j.e[2] = "refunded" THEN {"succeeded", "refunded"} ELSE {"pending"},
         j.at = "refund" => status[j.p] \in {"succeeded", "refunded"},
         j.at \notin {"settle", "audit"},
         P!AuditIsTrue', audited' \subseteq Payments,
         \/ pfaults' = pfaults + 1 /\ pfaults < MaxFaults
         \/ /\ pfaults' = pfaults
            /\ \A p \in Linked : P!Holds(h, <<p, "succeeded">>) /\ status[p] = "pending" => j.at \in {"lookup", "update"}
  PROVE  P!PaymentsInv'
<1>1. /\ pjob' \in [Handlers -> {P!Idle} \cup P!Jobs]
      /\ \A k \in Handlers : pjob'[k] = (IF k = h THEN j ELSE pjob[k])
  BY PaymentParts
<1>2. \A k \in Handlers : \A e : P!Holds(k, e)' => P!Holds(k, e)
  BY <1>1 DEF P!Holds
<1>3. P!TypeOK' /\ P!MoneyRecorded' /\ P!EventsAreTrue'
  <2>1. pfaults' \in 0 .. MaxFaults
    <3>1. pfaults \in 0 .. MaxFaults
      BY PaymentParts DEF P!TypeOK
    <3>2. QED
      BY <3>1, PaymentConstants
  <2>2. P!MoneyRecorded' /\ P!EventsAreTrue'
    BY PaymentParts DEF P!MoneyRecorded, P!EventsAreTrue
  <2>3. QED
    BY <2>1, <2>2, PaymentParts DEF P!TypeOK
<1>4. P!GrantsArePaid' /\ pgrants' \in [Payments -> Nat]
  BY PaymentParts DEF P!GrantsArePaid
<1>5. P!HeldOnce'
  BY <1>2, PaymentParts DEF P!HeldOnce, P!Handled
<1>6. P!CheckedOutOnce'
  BY <1>1, PaymentParts DEF P!CheckedOutOnce
<1>7. P!WritesAreDue'
  BY <1>1, PaymentParts DEF P!WritesAreDue
<1>8. P!StuckNeedsFault'
  <2>1. CASE pfaults' = pfaults + 1
    BY <2>1, PaymentParts, PaymentConstants DEF P!StuckNeedsFault, P!TypeOK
  <2>2. CASE pfaults' = pfaults
    <3> SUFFICES ASSUME NEW p \in Linked, P!Handled(<<p, "succeeded">>)', status[p] = "pending" PROVE pfaults > 0
      BY <2>2 DEF P!StuckNeedsFault
    <3>1. ~P!Holds(h, <<p, "succeeded">>)
      <4>1. SUFFICES ASSUME P!Holds(h, <<p, "succeeded">>) PROVE FALSE
        OBVIOUS
      <4>2. j.at \in {"lookup", "update"}
        BY <2>2, <4>1, PaymentParts, PaymentConstants DEF P!TypeOK
      <4>3. j.e = <<p, "succeeded">>
        BY <4>1, <4>2 DEF P!Holds
      <4>4. P!Holds(h, <<p, "succeeded">>)'
        BY <1>1, <4>2, <4>3 DEF P!Holds
      <4>5. QED
        BY <4>4 DEF P!Handled
    <3>2. \A k \in Handlers : ~P!Holds(k, <<p, "succeeded">>)
      BY <1>1, <3>1 DEF P!Handled, P!Holds
    <3>3. QED
      BY <3>2, PaymentParts DEF P!StuckNeedsFault, P!Handled
  <2>3. QED
    BY <2>1, <2>2
<1>9. QED
  BY <1>1, <1>3, <1>4, <1>5, <1>6, <1>7, <1>8 DEF P!PaymentsInv, P!PaymentsSound

(* The handler h ends, and loses no event but by a fault.                  *)
LEMMA PaymentEnd ==
  ASSUME P!PaymentsInv, NEW h \in Handlers,
         pjob' = [pjob EXCEPT ![h] = P!Idle], UNCHANGED <<status, psp, pevents, processed, pgrants>>,
         P!AuditIsTrue', audited' \subseteq Payments,
         \/ pfaults' = pfaults + 1 /\ pfaults < MaxFaults
         \/ /\ pfaults' = pfaults
            /\ \A p \in Linked : P!Holds(h, <<p, "succeeded">>) => status[p] # "pending"
  PROVE  P!PaymentsInv'
<1>1. P!Idle.at = "idle"
  BY DEF P!Idle
<1>2. QED
  BY <1>1, PaymentMove

LEMMA PaymentLookUp ==
  ASSUME P!PaymentsInv, NEW h \in Handlers, P!LookUp(h)
  PROVE  P!PaymentsInv'
<1> DEFINE e == pjob[h].e
           j == [at |-> "update", e |-> e]
<1>1. /\ pjob[h].at = "lookup" /\ UNCHANGED <<status, psp, pevents, processed, pgrants, audited, pfaults>>
      /\ IF P!FoundByPSPRef(e[1]) /\ P!CanTransition(status[e[1]], e[2])
         THEN pjob' = [pjob EXCEPT ![h] = j] ELSE pjob' = [pjob EXCEPT ![h] = P!Idle]
  BY DEF P!LookUp, P!Become
<1>2. /\ e \in P!Events /\ P!Holds(h, e) /\ e[1] \in Payments /\ e[2] \in {"succeeded", "failed", "refunded"}
      /\ e = <<e[1], e[2]>> /\ e \in pevents
  BY <1>1, PaymentJob
<1>3. P!AuditIsTrue' /\ audited' \subseteq Payments
  BY <1>1, PaymentParts DEF P!AuditIsTrue, P!TypeOK
<1>4. CASE P!FoundByPSPRef(e[1]) /\ P!CanTransition(status[e[1]], e[2])
  <2>1. j \in P!Jobs /\ j.at = "update" /\ j.e = e
    BY <1>2 DEF P!Jobs
  <2>2. status[e[1]] \in IF e[2] = "refunded" THEN {"succeeded", "refunded"} ELSE {"pending"}
    BY <1>2, <1>4 DEF P!CanTransition
  <2>3. pjob' = [pjob EXCEPT ![h] = j]
    BY <1>1, <1>4
  <2> HIDE DEF j
  <2>4. QED
    BY <1>1, <1>2, <1>3, <2>1, <2>2, <2>3, PaymentMove
<1>5. CASE ~(P!FoundByPSPRef(e[1]) /\ P!CanTransition(status[e[1]], e[2]))
  <2>1. ASSUME NEW p \in Linked, P!Holds(h, <<p, "succeeded">>), status[p] = "pending" PROVE FALSE
    <3>1. e[1] = p /\ e[2] = "succeeded"
      BY <2>1 DEF P!Holds
    <3>2. QED
      BY <1>5, <2>1, <3>1 DEF P!FoundByPSPRef, P!CanTransition
  <2>2. QED
    BY <1>1, <1>3, <1>5, <2>1, PaymentEnd
<1>6. QED
  BY <1>4, <1>5

LEMMA PaymentEnds ==
  ASSUME P!PaymentsInv, NEW h \in Handlers,
         P!Abandon(h) \/ P!AppendAudit(h) \/ (\E p \in Payments : P!AdminRefund(h, p))
  PROVE  P!PaymentsInv'
<1>1. CASE P!Abandon(h)
  <2>1. P!AuditIsTrue' /\ audited' \subseteq Payments
    BY <1>1, PaymentParts DEF P!Abandon, P!AuditIsTrue, P!TypeOK
  <2>2. QED
    BY <1>1, <2>1, PaymentEnd DEF P!Abandon, P!Become
<1>2. CASE P!AppendAudit(h)
  <2>1. P!AuditIsTrue' /\ audited' \subseteq Payments
    BY <1>2, PaymentParts, PaymentJob DEF P!AppendAudit, P!AuditIsTrue, P!TypeOK, P!WritesAreDue
  <2>2. \A p \in Linked : ~P!Holds(h, <<p, "succeeded">>)
    BY <1>2 DEF P!AppendAudit, P!Holds
  <2>3. QED
    BY <1>2, <2>1, <2>2, PaymentEnd DEF P!AppendAudit, P!Become
<1>3. ASSUME NEW p \in Payments, P!AdminRefund(h, p) PROVE P!PaymentsInv'
  <2> DEFINE j == [at |-> "refund", p |-> p]
  <2>1. j \in P!Jobs /\ j.at = "refund" /\ j.p = p
    BY DEF P!Jobs
  <2>2. /\ pjob[h] = P!Idle /\ pjob' = [pjob EXCEPT ![h] = j] /\ status[p] = "succeeded"
        /\ UNCHANGED <<status, psp, pevents, processed, pgrants, audited, pfaults>>
    BY <1>3 DEF P!AdminRefund, P!Become, P!CanTransition
  <2>3. P!AuditIsTrue' /\ audited' \subseteq Payments
    BY <2>2, PaymentParts DEF P!AuditIsTrue, P!TypeOK
  <2>4. \A q \in Linked : ~P!Holds(h, <<q, "succeeded">>)
    BY <2>2 DEF P!Holds, P!Idle
  <2> HIDE DEF j
  <2>5. QED
    BY <2>1, <2>2, <2>3, <2>4, PaymentMove
<1>4. QED
  BY <1>1, <1>2, <1>3

(* The rows of a payment the processor moves on.                           *)
LEMMA PaymentSettled ==
  ASSUME P!PaymentsInv, NEW p \in Payments, NEW to, NEW ev,
         \/ psp[p] = "open" /\ to = "paid" /\ ev = "succeeded"
         \/ psp[p] = "open" /\ to = "failed" /\ ev = "failed"
         \/ psp[p] = "paid" /\ to = "refunded" /\ ev = "refunded",
         psp' = [psp EXCEPT ![p] = to], pevents' = pevents \cup {<<p, ev>>},
         UNCHANGED <<status, processed, pgrants, audited, pfaults>>
  PROVE  /\ P!TypeOK' /\ P!MoneyRecorded' /\ P!GrantsArePaid' /\ P!AuditIsTrue' /\ P!EventsAreTrue'
         /\ psp' \in [Payments -> {"none", "open", "paid", "failed", "refunded"}]
         /\ \A q \in Payments : psp[q] \in {"none", "refunded", "failed"} => psp'[q] = psp[q]
<1>1. /\ psp' \in [Payments -> {"none", "open", "paid", "failed", "refunded"}] /\ psp'[p] = to
      /\ \A q \in Payments : q # p => psp'[q] = psp[q]
  BY PaymentParts DEF P!TypeOK
<1>2. P!TypeOK'
  BY <1>1, PaymentParts DEF P!TypeOK
<1>3. P!MoneyRecorded' /\ P!GrantsArePaid'
  BY <1>1, PaymentParts DEF P!MoneyRecorded, P!GrantsArePaid
<1>4. P!AuditIsTrue'
  BY <1>1, PaymentParts DEF P!AuditIsTrue, P!TypeOK
<1>5. P!EventsAreTrue'
  <2> SUFFICES ASSUME NEW e \in pevents'
               PROVE  e \in P!Events /\ psp'[e[1]] \in IF e[2] = "succeeded" THEN {"paid", "refunded"} ELSE {e[2]}
    BY DEF P!EventsAreTrue
  <2>1. CASE e = <<p, ev>>
    BY <1>1, <2>1 DEF P!Events
  <2>2. CASE e \in pevents
    <3>1. e \in P!Events /\ psp[e[1]] \in IF e[2] = "succeeded" THEN {"paid", "refunded"} ELSE {e[2]}
      BY <2>2, PaymentParts DEF P!EventsAreTrue
    <3>2. e[1] \in Payments /\ e[2] \in {"succeeded", "failed", "refunded"}
      BY <3>1 DEF P!Events
    <3>3. QED
      BY <1>1, <3>1, <3>2
  <2>3. QED
    BY <2>1, <2>2
<1>6. QED
  BY <1>1, <1>2, <1>3, <1>4, <1>5

LEMMA PaymentProcessor ==
  ASSUME P!PaymentsInv, NEW p \in Payments, P!Processor(p)
  PROVE  P!PaymentsInv'
<1>1. PICK to, ev :
         /\ \/ psp[p] = "open" /\ to = "paid" /\ ev = "succeeded"
            \/ psp[p] = "open" /\ to = "failed" /\ ev = "failed"
            \/ psp[p] = "paid" /\ to = "refunded" /\ ev = "refunded"
         /\ psp' = [psp EXCEPT ![p] = to] /\ pevents' = pevents \cup {<<p, ev>>}
         /\ UNCHANGED <<status, processed, pgrants, audited, pjob, pfaults>>
  BY DEF P!Processor, P!Settle
<1>2. /\ P!TypeOK' /\ P!MoneyRecorded' /\ P!GrantsArePaid' /\ P!AuditIsTrue' /\ P!EventsAreTrue'
      /\ psp' \in [Payments -> {"none", "open", "paid", "failed", "refunded"}]
      /\ \A q \in Payments : psp[q] \in {"none", "refunded", "failed"} => psp'[q] = psp[q]
  BY <1>1, PaymentSettled
<1>3. P!HeldOnce' /\ P!StuckNeedsFault'
  BY <1>1, PaymentParts DEF P!HeldOnce, P!StuckNeedsFault, P!Handled, P!Holds
<1>4. P!CheckedOutOnce' /\ P!WritesAreDue'
  BY <1>1, <1>2, PaymentParts, PaymentJob DEF P!CheckedOutOnce, P!WritesAreDue
<1>5. QED
  BY <1>1, <1>2, <1>3, <1>4, PaymentParts DEF P!PaymentsInv, P!PaymentsSound

LEMMA PaymentPspRefund ==
  ASSUME P!PaymentsInv, NEW h \in Handlers, P!PspRefund(h)
  PROVE  P!PaymentsInv'
<1> DEFINE p == pjob[h].p
           j == [at |-> "settle", p |-> p]
<1>1. /\ pjob[h].at = "refund" /\ UNCHANGED <<status, processed, pgrants, audited, pfaults>> /\ p \in Payments
      /\ IF psp[p] = "paid"
         THEN /\ psp' = [psp EXCEPT ![p] = "refunded"] /\ pevents' = pevents \cup {<<p, "refunded">>}
              /\ pjob' = [pjob EXCEPT ![h] = j]
         ELSE UNCHANGED <<psp, pevents>> /\ pjob' = [pjob EXCEPT ![h] = P!Idle]
  BY PaymentJob DEF P!PspRefund, P!Become
<1>2. \A e : ~P!Holds(h, e)
  BY <1>1 DEF P!Holds
<1>3. CASE psp[p] = "paid"
  <2>1. j \in P!Jobs /\ j.at = "settle" /\ j.p = p
    BY <1>1 DEF P!Jobs
  <2>2. pjob' = [pjob EXCEPT ![h] = j]
    BY <1>1, <1>3
  <2>3. psp' = [psp EXCEPT ![p] = "refunded"] /\ pevents' = pevents \cup {<<p, "refunded">>}
    BY <1>1, <1>3
  <2> HIDE DEF j
  <2>4. /\ pjob' \in [Handlers -> {P!Idle} \cup P!Jobs]
        /\ \A k \in Handlers : pjob'[k] = (IF k = h THEN j ELSE pjob[k])
    BY <2>1, <2>2, PaymentParts
  <2>5. /\ P!TypeOK' /\ P!MoneyRecorded' /\ P!GrantsArePaid' /\ P!AuditIsTrue' /\ P!EventsAreTrue'
        /\ psp' \in [Payments -> {"none", "open", "paid", "failed", "refunded"}]
        /\ \A q \in Payments : psp[q] \in {"none", "refunded", "failed"} => psp'[q] = psp[q]
    BY <1>1, <1>3, <2>3, PaymentSettled
  <2>6. \A k \in Handlers : \A e : P!Holds(k, e)' <=> P!Holds(k, e)
    BY <1>2, <2>1, <2>4 DEF P!Holds
  <2>7. P!HeldOnce' /\ P!StuckNeedsFault'
    BY <1>1, <2>6, PaymentParts DEF P!HeldOnce, P!StuckNeedsFault, P!Handled
  <2>8. P!CheckedOutOnce'
    BY <1>1, <2>1, <2>4, <2>5, PaymentParts, PaymentJob DEF P!CheckedOutOnce
  <2>9. psp'[p] = "refunded" /\ status[p] \in {"succeeded", "refunded"}
    BY <1>1, <2>3, PaymentParts DEF P!WritesAreDue, P!TypeOK
  <2>10. P!WritesAreDue'
    <3> SUFFICES ASSUME NEW k \in Handlers
                 PROVE  /\ pjob'[k].at = "update" =>
                             status'[pjob'[k].e[1]] \in
                               IF pjob'[k].e[2] = "refunded" THEN {"succeeded", "refunded"} ELSE {"pending"}
                        /\ pjob'[k].at \in {"refund", "settle"} => status'[pjob'[k].p] \in {"succeeded", "refunded"}
                        /\ pjob'[k].at \in {"settle", "audit"} => psp'[pjob'[k].p] = "refunded"
                        /\ pjob'[k].at = "audit" => status'[pjob'[k].p] = "refunded"
      BY DEF P!WritesAreDue
    <3>1. CASE k = h
      BY <1>1, <2>1, <2>4, <2>9, <3>1
    <3>2. CASE k # h
      BY <1>1, <2>4, <2>5, <3>2, PaymentParts, PaymentJob DEF P!WritesAreDue
    <3>3. QED
      BY <3>1, <3>2
  <2>11. QED
    BY <1>1, <2>4, <2>5, <2>7, <2>8, <2>10, PaymentParts DEF P!PaymentsInv, P!PaymentsSound
<1>4. CASE psp[p] # "paid"
  <2>1. P!AuditIsTrue' /\ audited' \subseteq Payments
    BY <1>1, <1>4, PaymentParts DEF P!AuditIsTrue, P!TypeOK
  <2>2. QED
    BY <1>1, <1>2, <1>4, <2>1, PaymentEnd
<1>5. QED
  BY <1>3, <1>4

LEMMA PaymentCreate ==
  ASSUME P!PaymentsInv, NEW h \in Handlers, NEW p \in Payments, P!CreatePayment(h, p)
  PROVE  P!PaymentsInv'
<1> DEFINE j == [at |-> "checkout", p |-> p]
<1>1. /\ pjob[h] = P!Idle /\ status[p] = "none" /\ status' = [status EXCEPT ![p] = "pending"]
      /\ pjob' = [pjob EXCEPT ![h] = j] /\ UNCHANGED <<psp, pevents, processed, pgrants, audited, pfaults>>
  BY DEF P!CreatePayment, P!Inserted, P!Become
<1>2. j \in P!Jobs /\ j.at = "checkout" /\ j.p = p
  BY DEF P!Jobs
<1> HIDE DEF j
<1>3. /\ pjob' \in [Handlers -> {P!Idle} \cup P!Jobs]
      /\ \A k \in Handlers : pjob'[k] = (IF k = h THEN j ELSE pjob[k])
  BY <1>1, <1>2, PaymentParts
<1>4. /\ status' \in [Payments -> {"none", "pending", "succeeded", "failed", "refunded"}] /\ status'[p] = "pending"
      /\ \A q \in Payments : q # p => status'[q] = status[q]
  BY <1>1, PaymentParts DEF P!TypeOK
<1>5. psp[p] = "none"
  BY <1>1, PaymentParts DEF P!MoneyRecorded
<1>6. \A ev \in {"succeeded", "failed", "refunded"} : <<p, ev>> \notin pevents
  BY <1>5, PaymentParts DEF P!EventsAreTrue
<1>7. \A k \in Handlers : \A e : P!Holds(k, e)' <=> P!Holds(k, e)
  BY <1>1, <1>2, <1>3 DEF P!Holds, P!Idle
<1>8. P!TypeOK' /\ P!MoneyRecorded' /\ P!GrantsArePaid' /\ P!EventsAreTrue'
  BY <1>1, <1>4, <1>5, PaymentParts DEF P!TypeOK, P!MoneyRecorded, P!GrantsArePaid, P!EventsAreTrue
<1>9. P!AuditIsTrue'
  BY <1>1, <1>4, <1>5, PaymentParts DEF P!AuditIsTrue, P!TypeOK
<1>10. P!StuckNeedsFault'
  <2>1. \A q \in Linked : P!Handled(<<q, "succeeded">>)' => q # p /\ P!Handled(<<q, "succeeded">>)
    BY <1>1, <1>6, <1>7, PaymentParts DEF P!Handled, P!TypeOK
  <2>2. QED
    BY <1>1, <1>4, <2>1, PaymentParts, PaymentConstants DEF P!StuckNeedsFault
<1>11. P!HeldOnce'
  BY <1>1, <1>7, PaymentParts DEF P!HeldOnce, P!Handled
<1>12. P!CheckedOutOnce'
  BY <1>1, <1>2, <1>3, <1>4, <1>5, PaymentParts, PaymentJob DEF P!CheckedOutOnce
<1>13. P!WritesAreDue'
  <2> SUFFICES ASSUME NEW k \in Handlers
               PROVE  /\ pjob'[k].at = "update" =>
                           status'[pjob'[k].e[1]] \in
                             IF pjob'[k].e[2] = "refunded" THEN {"succeeded", "refunded"} ELSE {"pending"}
                      /\ pjob'[k].at \in {"refund", "settle"} => status'[pjob'[k].p] \in {"succeeded", "refunded"}
                      /\ pjob'[k].at \in {"settle", "audit"} => psp'[pjob'[k].p] = "refunded"
                      /\ pjob'[k].at = "audit" => status'[pjob'[k].p] = "refunded"
    BY DEF P!WritesAreDue
  <2>1. CASE k = h
    BY <1>2, <1>3, <2>1
  <2>2. CASE k # h
    BY <1>1, <1>3, <1>4, <2>2, PaymentParts, PaymentJob DEF P!WritesAreDue
  <2>3. QED
    BY <2>1, <2>2
<1>14. QED
  BY <1>1, <1>3, <1>8, <1>9, <1>10, <1>11, <1>12, <1>13, PaymentParts DEF P!PaymentsInv, P!PaymentsSound

LEMMA PaymentCheckout ==
  ASSUME P!PaymentsInv, NEW h \in Handlers, P!CreateCheckout(h)
  PROVE  P!PaymentsInv'
<1> DEFINE p == pjob[h].p
<1>1. /\ pjob[h].at = "checkout" /\ p \in Payments /\ pjob' = [pjob EXCEPT ![h] = P!Idle]
      /\ UNCHANGED <<status, pevents, processed, pgrants, audited, pfaults>>
      /\ psp' = [psp EXCEPT ![p] = "open"] \/ psp' = psp
  BY PaymentJob DEF P!CreateCheckout, P!Become
<1>2. psp[p] = "none" /\ status[p] # "none"
  BY <1>1, PaymentParts DEF P!CheckedOutOnce
<1>3. /\ pjob' \in [Handlers -> {P!Idle} \cup P!Jobs] /\ P!Idle.at = "idle"
      /\ \A k \in Handlers : pjob'[k] = (IF k = h THEN P!Idle ELSE pjob[k])
  BY <1>1, PaymentParts DEF P!Idle
<1>4. /\ psp' \in [Payments -> {"none", "open", "paid", "failed", "refunded"}] /\ psp'[p] \in {"none", "open"}
      /\ \A q \in Payments : q # p => psp'[q] = psp[q]
  BY <1>1, <1>2, PaymentParts DEF P!TypeOK
<1>5. \A k \in Handlers : \A e : P!Holds(k, e)' <=> P!Holds(k, e)
  BY <1>1, <1>3 DEF P!Holds
<1>6. P!TypeOK' /\ P!MoneyRecorded' /\ P!GrantsArePaid'
  BY <1>1, <1>2, <1>4, PaymentParts DEF P!TypeOK, P!MoneyRecorded, P!GrantsArePaid
<1>7. P!AuditIsTrue'
  BY <1>1, <1>2, <1>4, PaymentParts DEF P!AuditIsTrue, P!TypeOK
<1>8. P!EventsAreTrue'
  <2>1. \A e \in pevents : e \in P!Events /\ e[1] \in Payments /\ e[2] \in {"succeeded", "failed", "refunded"}
    BY PaymentParts DEF P!EventsAreTrue, P!Events
  <2>2. \A e \in pevents : e[1] # p
    BY <1>2, <2>1, PaymentParts DEF P!EventsAreTrue
  <2>3. QED
    BY <1>1, <1>4, <2>1, <2>2, PaymentParts DEF P!EventsAreTrue
<1>9. P!HeldOnce' /\ P!StuckNeedsFault'
  BY <1>1, <1>5, PaymentParts DEF P!HeldOnce, P!StuckNeedsFault, P!Handled
<1>10. P!CheckedOutOnce'
  BY <1>1, <1>2, <1>3, <1>4, PaymentParts, PaymentJob DEF P!CheckedOutOnce
<1>11. P!WritesAreDue'
  BY <1>1, <1>2, <1>3, <1>4, PaymentParts, PaymentJob DEF P!WritesAreDue
<1>12. QED
  BY <1>1, <1>3, <1>6, <1>7, <1>8, <1>9, <1>10, <1>11, PaymentParts DEF P!PaymentsInv, P!PaymentsSound

LEMMA PaymentWebhook ==
  ASSUME P!PaymentsInv, NEW h \in Handlers, NEW e \in pevents, P!HandleWebhook(h, e)
  PROVE  P!PaymentsInv'
<1> DEFINE j == [at |-> "lookup", e |-> e]
<1>1. /\ pjob[h] = P!Idle /\ e \notin processed /\ processed' = processed \cup {e}
      /\ pjob' = [pjob EXCEPT ![h] = j] /\ UNCHANGED <<status, psp, pevents, pgrants, audited, pfaults>>
  BY DEF P!HandleWebhook, P!Marks, P!Become
<1>2. e \in P!Events
  BY PaymentParts DEF P!EventsAreTrue
<1>3. j \in P!Jobs /\ j.at = "lookup" /\ j.e = e
  BY <1>2 DEF P!Jobs
<1> HIDE DEF j
<1>4. /\ pjob' \in [Handlers -> {P!Idle} \cup P!Jobs]
      /\ \A k \in Handlers : pjob'[k] = (IF k = h THEN j ELSE pjob[k])
  BY <1>1, <1>3, PaymentParts
<1>5. \A k \in Handlers : \A f : P!Holds(k, f)' <=> (IF k = h THEN f = e ELSE P!Holds(k, f))
  BY <1>3, <1>4 DEF P!Holds
<1>6. \A f : ~P!Holds(h, f)
  BY <1>1 DEF P!Holds, P!Idle
<1>7. P!TypeOK' /\ P!MoneyRecorded' /\ P!GrantsArePaid' /\ P!EventsAreTrue' /\ P!AuditIsTrue'
  BY <1>1, PaymentParts DEF P!TypeOK, P!MoneyRecorded, P!GrantsArePaid, P!EventsAreTrue, P!AuditIsTrue
<1>8. \A f : P!Handled(f)' <=> P!Handled(f)
  BY <1>1, <1>5, <1>6 DEF P!Handled
<1>9. P!StuckNeedsFault'
  BY <1>1, <1>8, PaymentParts DEF P!StuckNeedsFault
<1>10. P!HeldOnce'
  <2>1. \A k \in Handlers, f \in P!Events : P!Holds(k, f)' => f \in processed'
    BY <1>1, <1>5, PaymentParts DEF P!HeldOnce
  <2>2. \A k \in Handlers : ~P!Holds(k, e)
    BY <1>1, <1>2, PaymentParts DEF P!HeldOnce
  <2>3. \A k, l \in Handlers, f \in P!Events : P!Holds(k, f)' /\ P!Holds(l, f)' => k = l
    BY <1>5, <2>2, PaymentParts DEF P!HeldOnce
  <2>4. QED
    BY <1>1, <1>8, <2>1, <2>3, PaymentParts DEF P!HeldOnce
<1>11. P!CheckedOutOnce' /\ P!WritesAreDue'
  BY <1>1, <1>3, <1>4, PaymentParts DEF P!CheckedOutOnce, P!WritesAreDue
<1>12. QED
  BY <1>1, <1>4, <1>7, <1>9, <1>10, <1>11, PaymentParts DEF P!PaymentsInv, P!PaymentsSound

(* A status is written by the handler h, which goes on to j.               *)
LEMMA PaymentWrite ==
  ASSUME P!PaymentsInv, NEW h \in Handlers, NEW p \in Payments, NEW to \in {"succeeded", "failed", "refunded"},
         NEW j \in {P!Idle} \cup P!Jobs, pjob' = [pjob EXCEPT ![h] = j], j.at \in {"idle", "audit"},
         j.at = "audit" => j.p = p /\ to = "refunded",
         status' = [status EXCEPT ![p] = to], UNCHANGED <<psp, pevents, processed, audited, pfaults>>,
         IF to = "refunded" THEN status[p] \in {"succeeded", "refunded"} ELSE status[p] = "pending",
         to \in {"failed", "refunded"} => psp[p] = to,
         \A q \in Linked : P!Holds(h, <<q, "succeeded">>) => q = p,
         to # "succeeded" => pgrants' = pgrants,
         to = "succeeded" => /\ pgrants' = [pgrants EXCEPT ![p] = @ + 1]
                             /\ P!Holds(h, <<p, "succeeded">>) /\ psp[p] \in {"paid", "refunded"},
         \A k \in Handlers : pjob[k].at = "update" /\ pjob[k].e[1] = p /\ pjob[k].e[2] # "refunded" => k = h
  PROVE  P!PaymentsInv'
<1>1. /\ pjob' \in [Handlers -> {P!Idle} \cup P!Jobs]
      /\ \A k \in Handlers : pjob'[k] = (IF k = h THEN j ELSE pjob[k])
  BY PaymentParts
<1>2. /\ status' \in [Payments -> {"none", "pending", "succeeded", "failed", "refunded"}] /\ status'[p] = to
      /\ \A q \in Payments : q # p => status'[q] = status[q]
  BY PaymentParts DEF P!TypeOK
<1>3. \A k \in Handlers : \A e : P!Holds(k, e)' <=> k # h /\ P!Holds(k, e)
  BY <1>1 DEF P!Holds
<1>4. P!TypeOK' /\ P!MoneyRecorded' /\ P!EventsAreTrue'
  BY <1>2, PaymentParts DEF P!TypeOK, P!MoneyRecorded, P!EventsAreTrue
<1>5. /\ pgrants' \in [Payments -> Nat]
      /\ \A q \in Payments : pgrants'[q] = (IF q = p /\ to = "succeeded" THEN pgrants[q] + 1 ELSE pgrants[q])
  BY PaymentParts
<1>6. to = "succeeded" => pgrants[p] = 0 /\ <<p, "succeeded">> \in processed
  <2> SUFFICES ASSUME to = "succeeded" PROVE pgrants[p] = 0 /\ <<p, "succeeded">> \in processed
    OBVIOUS
  <2>1. P!Holds(h, <<p, "succeeded">>) /\ <<p, "succeeded">> \in P!Events
    BY DEF P!Events
  <2>2. ~P!Handled(<<p, "succeeded">>) /\ <<p, "succeeded">> \in processed
    BY <2>1, PaymentParts DEF P!Handled, P!HeldOnce
  <2>3. ~(pgrants[p] > 0) /\ pgrants[p] \in Nat
    BY <2>2, PaymentParts DEF P!HeldOnce
  <2>4. QED
    BY <2>2, <2>3
<1>7. P!GrantsArePaid'
  BY <1>2, <1>5, <1>6, PaymentParts DEF P!GrantsArePaid
<1>8. P!AuditIsTrue'
  BY <1>2, PaymentParts DEF P!AuditIsTrue, P!TypeOK
<1>9. P!HeldOnce'
  <2>1. \A k \in Handlers, e \in P!Events : P!Holds(k, e)' => e \in processed'
    BY <1>3, PaymentParts DEF P!HeldOnce
  <2>2. \A k, l \in Handlers, e \in P!Events : P!Holds(k, e)' /\ P!Holds(l, e)' => k = l
    BY <1>3, PaymentParts DEF P!HeldOnce
  <2>3. ASSUME NEW q \in Payments, pgrants'[q] > 0 PROVE P!Handled(<<q, "succeeded">>)'
    <3>1. CASE q = p /\ to = "succeeded"
      <4>1. <<p, "succeeded">> \in P!Events
        BY DEF P!Events
      <4>2. \A k \in Handlers : P!Holds(k, <<p, "succeeded">>) => k = h
        BY <3>1, <4>1, PaymentParts DEF P!HeldOnce
      <4>3. QED
        BY <1>3, <1>6, <3>1, <4>2 DEF P!Handled
    <3>2. CASE ~(q = p /\ to = "succeeded")
      BY <1>3, <1>5, <2>3, <3>2, PaymentParts DEF P!HeldOnce, P!Handled
    <3>3. QED
      BY <3>1, <3>2
  <2>4. QED
    BY <2>1, <2>2, <2>3 DEF P!HeldOnce
<1>10. P!StuckNeedsFault'
  <2> SUFFICES ASSUME NEW q \in Linked, P!Handled(<<q, "succeeded">>)', status'[q] = "pending" PROVE pfaults > 0
    BY DEF P!StuckNeedsFault
  <2>1. q # p /\ status[q] = "pending"
    BY <1>2, PaymentConstants
  <2>2. P!Handled(<<q, "succeeded">>)
    BY <1>3, <2>1 DEF P!Handled
  <2>3. QED
    BY <2>1, <2>2, PaymentParts DEF P!StuckNeedsFault
<1>11. P!CheckedOutOnce'
  BY <1>1, <1>2, PaymentParts, PaymentJob DEF P!CheckedOutOnce
<1>12. P!WritesAreDue'
  <2> SUFFICES ASSUME NEW k \in Handlers
               PROVE  /\ pjob'[k].at = "update" =>
                           status'[pjob'[k].e[1]] \in
                             IF pjob'[k].e[2] = "refunded" THEN {"succeeded", "refunded"} ELSE {"pending"}
                      /\ pjob'[k].at \in {"refund", "settle"} => status'[pjob'[k].p] \in {"succeeded", "refunded"}
                      /\ pjob'[k].at \in {"settle", "audit"} => psp'[pjob'[k].p] = "refunded"
                      /\ pjob'[k].at = "audit" => status'[pjob'[k].p] = "refunded"
    BY DEF P!WritesAreDue
  <2>1. CASE k = h
    BY <1>1, <1>2, <2>1
  <2>2. CASE k # h
    <3>1. pjob'[k] = pjob[k]
      BY <1>1, <2>2
    <3>2. pjob[k].at = "update" => status'[pjob[k].e[1]] \in
             IF pjob[k].e[2] = "refunded" THEN {"succeeded", "refunded"} ELSE {"pending"}
      BY <1>2, <2>2, PaymentParts, PaymentJob DEF P!WritesAreDue
    <3>3. QED
      BY <1>2, <3>1, <3>2, PaymentParts, PaymentJob DEF P!WritesAreDue
  <2>3. QED
    BY <2>1, <2>2
<1>13. QED
  BY <1>1, <1>4, <1>5, <1>7, <1>8, <1>9, <1>10, <1>11, <1>12 DEF P!PaymentsInv, P!PaymentsSound

LEMMA PaymentUpdate ==
  ASSUME P!PaymentsInv, NEW h \in Handlers, P!UpdateStatus(h)
  PROVE  P!PaymentsInv'
<1> DEFINE e == pjob[h].e
<1>1. /\ pjob[h].at = "update" /\ status' = [status EXCEPT ![e[1]] = e[2]] /\ pjob' = [pjob EXCEPT ![h] = P!Idle]
      /\ UNCHANGED <<psp, pevents, processed, audited, pfaults>>
      /\ e[2] = "succeeded" => pgrants' = [pgrants EXCEPT ![e[1]] = @ + 1]
      /\ e[2] # "succeeded" => pgrants' = pgrants
  BY DEF P!UpdateStatus, P!Become
<1>2. /\ e \in P!Events /\ P!Holds(h, e) /\ e[1] \in Payments /\ e[2] \in {"succeeded", "failed", "refunded"}
      /\ e = <<e[1], e[2]>> /\ e \in pevents
  BY <1>1, PaymentJob
<1>3. status[e[1]] \in IF e[2] = "refunded" THEN {"succeeded", "refunded"} ELSE {"pending"}
  BY <1>1, PaymentParts DEF P!WritesAreDue
<1>4. psp[e[1]] \in IF e[2] = "succeeded" THEN {"paid", "refunded"} ELSE {e[2]}
  BY <1>2, PaymentParts DEF P!EventsAreTrue
<1>5. \A q \in Linked : P!Holds(h, <<q, "succeeded">>) => q = e[1]
  BY DEF P!Holds
<1>6. ASSUME NEW k \in Handlers, pjob[k].at = "update", pjob[k].e[1] = e[1], pjob[k].e[2] # "refunded"
      PROVE  k = h
  <2>1. /\ pjob[k].e \in P!Events /\ P!Holds(k, pjob[k].e) /\ pjob[k].e \in pevents
        /\ pjob[k].e[2] \in {"succeeded", "failed"} /\ pjob[k].e = <<pjob[k].e[1], pjob[k].e[2]>>
    BY <1>6, PaymentJob
  <2>2. psp[e[1]] \in IF pjob[k].e[2] = "succeeded" THEN {"paid", "refunded"} ELSE {"failed"}
    BY <1>6, <2>1, PaymentParts DEF P!EventsAreTrue
  <2>3. status[e[1]] = "pending"
    BY <1>6, PaymentParts DEF P!WritesAreDue
  <2>4. e[2] = pjob[k].e[2]
    BY <1>2, <1>3, <1>4, <2>1, <2>2, <2>3
  <2>5. pjob[k].e = e
    BY <1>2, <1>6, <2>1, <2>4
  <2>6. QED
    BY <1>2, <2>1, <2>5, PaymentParts DEF P!HeldOnce
<1>7. P!Idle.at = "idle"
  BY DEF P!Idle
<1>8. e[2] = "succeeded" => P!Holds(h, <<e[1], "succeeded">>)
  BY <1>2
<1> DEFINE p == e[1]
           to == e[2]
<1>9. /\ p \in Payments /\ to \in {"succeeded", "failed", "refunded"}
      /\ status' = [status EXCEPT ![p] = to]
      /\ IF to = "refunded" THEN status[p] \in {"succeeded", "refunded"} ELSE status[p] = "pending"
      /\ to \in {"failed", "refunded"} => psp[p] = to
      /\ \A q \in Linked : P!Holds(h, <<q, "succeeded">>) => q = p
      /\ to # "succeeded" => pgrants' = pgrants
      /\ to = "succeeded" => /\ pgrants' = [pgrants EXCEPT ![p] = @ + 1]
                             /\ P!Holds(h, <<p, "succeeded">>) /\ psp[p] \in {"paid", "refunded"}
      /\ \A k \in Handlers : pjob[k].at = "update" /\ pjob[k].e[1] = p /\ pjob[k].e[2] # "refunded" => k = h
  BY <1>1, <1>2, <1>3, <1>4, <1>5, <1>6, <1>8
<1>10. /\ P!Idle \in {P!Idle} \cup P!Jobs /\ P!Idle.at \in {"idle", "audit"}
       /\ P!Idle.at = "audit" => P!Idle.p = p /\ to = "refunded"
  BY <1>7
<1>11. pjob' = [pjob EXCEPT ![h] = P!Idle] /\ UNCHANGED <<psp, pevents, processed, audited, pfaults>>
  BY <1>1
<1> HIDE DEF p, to
<1>12. QED
  BY <1>9, <1>10, <1>11, PaymentWrite, ZenonT(60)

LEMMA PaymentSettleRefund ==
  ASSUME P!PaymentsInv, NEW h \in Handlers, P!SettleRefund(h)
  PROVE  P!PaymentsInv'
<1> DEFINE p == pjob[h].p
           j == [at |-> "audit", p |-> p]
<1>1. /\ pjob[h].at = "settle" /\ status' = [status EXCEPT ![p] = "refunded"] /\ pjob' = [pjob EXCEPT ![h] = j]
      /\ UNCHANGED <<psp, pevents, processed, audited, pfaults, pgrants>>
  BY DEF P!SettleRefund, P!Become
<1>2. p \in Payments /\ status[p] \in {"succeeded", "refunded"} /\ psp[p] = "refunded"
  BY <1>1, PaymentJob, PaymentParts DEF P!WritesAreDue
<1>3. j \in P!Jobs /\ j.at = "audit" /\ j.p = p
  BY <1>2 DEF P!Jobs
<1>4. \A q \in Linked : ~P!Holds(h, <<q, "succeeded">>)
  BY <1>1 DEF P!Holds
<1>5. \A k \in Handlers : ~(pjob[k].at = "update" /\ pjob[k].e[1] = p /\ pjob[k].e[2] # "refunded")
  BY <1>2, PaymentParts DEF P!WritesAreDue
<1> HIDE DEF j, p
<1>6. PICK to : to = "refunded"
  OBVIOUS
<1>7. QED
  BY <1>1, <1>2, <1>3, <1>4, <1>5, <1>6, PaymentWrite, ZenonT(60)

LEMMA PaymentStill ==
  ASSUME P!PaymentsInv, UNCHANGED <<status, psp, pevents, processed, pgrants, audited, pjob, pfaults>>
  PROVE  P!PaymentsInv'
<1>1. /\ P!TypeOK' /\ P!MoneyRecorded' /\ P!GrantsArePaid' /\ P!StuckNeedsFault' /\ P!AuditIsTrue'
  BY PaymentParts DEF P!TypeOK, P!MoneyRecorded, P!GrantsArePaid, P!StuckNeedsFault, P!AuditIsTrue, P!Handled, P!Holds
<1>2. P!EventsAreTrue' /\ P!HeldOnce' /\ P!CheckedOutOnce' /\ P!WritesAreDue'
  BY PaymentParts DEF P!EventsAreTrue, P!HeldOnce, P!CheckedOutOnce, P!WritesAreDue, P!Handled, P!Holds
<1>3. QED
  BY <1>1, <1>2, PaymentParts DEF P!PaymentsInv, P!PaymentsSound

LEMMA PaymentStep == P!PaymentsInv /\ [P!Next]_PVars => P!PaymentsInv'
<1> SUFFICES ASSUME P!PaymentsInv, [P!Next]_PVars PROVE P!PaymentsInv'
  OBVIOUS
<1>1. CASE UNCHANGED PVars
  BY <1>1, PaymentStill DEF PVars
<1>2. CASE P!CancelSubscription \/ P!PeriodEnds
  BY <1>2, PaymentStill DEF P!CancelSubscription, P!PeriodEnds
<1>3. CASE P!Next /\ ~(P!CancelSubscription \/ P!PeriodEnds)
  BY <1>3, PaymentProcessor, PaymentCreate, PaymentEnds, PaymentWebhook, PaymentCheckout, PaymentLookUp,
     PaymentUpdate, PaymentPspRefund, PaymentSettleRefund DEF P!Next
<1>4. QED
  BY <1>1, <1>2, <1>3

-----------------------------------------------------------------------------
(* A behaviour exercises one part: its first state is one of that part's,  *)
(* and each of its steps is a step of it or leaves its variables alone.    *)
LEMMA PartInit ==
  ASSUME Init
  PROVE  /\ part = "login" => L!Init
         /\ part = "devices" => A!Init
         /\ part = "prekeys" => K!Init
         /\ part = "passkeys" => Y!Init
         /\ part = "groups" => G!Init
         /\ part = "communities" => C!Init
         /\ part = "channels" => N!Init
         /\ part = "payments" => P!Init
  BY DEF Init

LEMMA PartStep ==
  ASSUME [Next]_vars
  PROVE  /\ part' = part
         /\ part = "login" => [L!Next]_LVars
         /\ part = "devices" => [A!Next]_AVars
         /\ part = "prekeys" => [K!Next]_KVars
         /\ part = "passkeys" => [Y!Next]_YVars
         /\ part = "groups" => [G!Next]_GVars
         /\ part = "communities" => [C!Next]_CVars
         /\ part = "channels" => [N!Next]_NVars
         /\ part = "payments" => [P!Next]_PVars
<1>1. CASE UNCHANGED vars
  BY <1>1 DEF vars
<1>2. CASE Next
  BY <1>2 DEF Next
<1>3. QED
  BY <1>1, <1>2

(* However many handlers check codes and PINs at the same time, wrong      *)
(* codes are counted up to the limit and one more for each handler that    *)
(* overlapped, and a challenge grants once unless handlers overlapped      *)
(* (Login).                                                                *)
THEOREM LoginIsSound == Spec => []LoginSound
<1>1. Init => LoginSound
  BY PartInit, LoginInit DEF LoginSound
<1>2. LoginSound /\ [Next]_vars => LoginSound'
  BY PartStep, LoginStep DEF LoginSound
<1>3. QED
  BY <1>1, <1>2, PTL DEF Spec

(* A user has one primary device, at most the cap of active ones and one   *)
(* for each handler that approves at the same time, no session outlives    *)
(* its device, and no refresh token has two successors (Account).          *)
THEOREM AccountIsSound == Spec => []AccountSound
<1>1. Init => AccountSound
  BY PartInit, AccountInit DEF AccountSound
<1>2. AccountSound /\ [Next]_vars => AccountSound'
  BY PartStep, AccountStep DEF AccountSound
<1>3. QED
  BY <1>1, <1>2, PTL DEF Spec

(* A one-time prekey is handed to one fetcher, a passkey challenge serves  *)
(* one ceremony, and an assertion is accepted twice only after a counter   *)
(* was lost (Prekeys, Passkeys).                                           *)
THEOREM KeysAreSound == Spec => []KeysSound
<1>1. Init => KeysSound
  BY PartInit, PrekeyInit, PasskeyInit DEF KeysSound
<1>2. KeysSound /\ [Next]_vars => KeysSound'
  BY PartStep, PrekeyStep, PasskeyStep DEF KeysSound
<1>3. QED
  BY <1>1, <1>2, PTL DEF Spec

(* The recipients of a group are its members, it has one owner, and        *)
(* invitations hold, for any number of users and handlers (Groups).        *)
THEOREM GroupsAreSound == Spec => []GroupsSound
<1>1. Init => GroupsSound
  BY PartInit, GroupInit DEF GroupsSound
<1>2. GroupsSound /\ [Next]_vars => GroupsSound'
  BY PartStep, GroupStep DEF GroupsSound
<1>3. QED
  BY <1>1, <1>2, PTL DEF Spec

(* A live community has its owner unless creation failed or the creator    *)
(* joined early, and nothing is left of a deleted one (Communities).       *)
THEOREM CommunitiesAreSound == Spec => []CommunitiesSound
<1>1. Init => CommunitiesSound
  BY PartInit, CommunityInit DEF CommunitiesSound
<1>2. CommunitiesSound /\ [Next]_vars => CommunitiesSound'
  BY PartStep, CommunityStep DEF CommunitiesSound
<1>3. QED
  BY <1>1, <1>2, PTL DEF Spec

(* A post is announced once unless two sweeps picked it, the owner stays,  *)
(* nobody marks a post that is not out, and who was charged is subscribed  *)
(* (Channels).                                                             *)
THEOREM ChannelsAreSound == Spec => []ChannelsSound
<1>1. Init => ChannelsSound
  BY PartInit, ChannelInit DEF ChannelsSound
<1>2. ChannelsSound /\ [Next]_vars => ChannelsSound'
  BY PartStep, ChannelStep DEF ChannelsSound
<1>3. QED
  BY <1>1, <1>2, PTL DEF Spec

(* However webhooks are repeated and reordered, a payment grants once and  *)
(* only if it was paid, and what was acknowledged is applied unless a      *)
(* handler died (Payments).                                                *)
THEOREM PaymentsAreSound == Spec => []PaymentsSound
<1>1. Init => PaymentsSound
  BY PartInit, PaymentInit DEF PaymentsSound
<1>2. PaymentsSound /\ [Next]_vars => PaymentsSound'
  BY PartStep, PaymentStep DEF PaymentsSound
<1>3. QED
  BY <1>1, <1>2, PTL DEF Spec
=============================================================================
