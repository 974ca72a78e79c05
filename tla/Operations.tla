----------------------------- MODULE Operations -----------------------------
(***************************************************************************)
(* The services the product is operated with, side by side, and the proofs *)
(* that each keeps its invariant: media, backups, push, reminders and      *)
(* quiet hours, feature flags, the rate limiter, the admin console and     *)
(* analytics. MCServices adds the others and says what a behaviour is.     *)
(*                                                                         *)
(* Each proof has the same shape: the invariant in parts, its initial      *)
(* states, one lemma per action, and the step. What is proved holds for    *)
(* every value of the constants that the assumptions allow.                *)
(***************************************************************************)
EXTENDS Integers, Sequences, FiniteSets, FiniteSetTheorems, WellFoundedInduction, TLAPS

CONSTANTS Handlers, Users, MaxFaults,
          Messages,                                     \* media
          MaxBackups,                                   \* backups
          Threshold, MaxDeliveries,                     \* push
          Reminders, Cap, Day,                          \* reminders and quiet hours
          Subjects, Bucket, MaxWrites,                  \* feature flags
          Emission, Burst, Second, MaxTime,             \* the rate limiter
          MaxActions,                                   \* the admin console
          Counted, MaxDay, MAUWindow, Slack, Retention, MaxEvents   \* analytics

ASSUME MediaConstants == IsFiniteSet(Messages)

ASSUME BackupConstants == MaxBackups \in Nat

ASSUME PushConstants == Threshold \in Nat /\ MaxDeliveries \in Nat

ASSUME PrefsConstants ==
    IsFiniteSet(Reminders) /\ Cap \in Nat /\ Day \in Nat \ {0}

ASSUME FlagConstants == "nobody" \notin Subjects

ASSUME LimiterConstants ==
    Emission \in Nat \ {0} /\ Burst \in Nat \ {0} /\ Second \in Nat \ {0} /\ MaxTime \in Nat

ASSUME AnalyticsConstants ==
    /\ IsFiniteSet(Counted)
    /\ MaxDay \in Nat /\ MAUWindow \in Nat /\ Slack \in Nat /\ Retention \in Nat

VARIABLES
    mrow, mblob, msession, good, mjob, gc, holds, dropped, seen, mcrossed, mfaults,
    krow, kblob, made, kjob, kept, kcrossed, kfaults,
    push, utoken, breaker, ujob, blocked, wedger, ufaults,
    reminder, prefs, snoozed, njob, fired, ncrossed, over, nfaults,
    rule, cache, reader, writer, answer, written, fcrossed, unbusted, writes, ffaults,
    now, tat, key, lexpires, admitted,
    report, status, refunded, audit, ojob, unlogged, fate, ofaults,
    today, wire, sketch, yexpires, yrow, yjob, active, signups, behind, events, yfaults

Off == 0

M == INSTANCE Media WITH row <- mrow, blob <- mblob, session <- msession, job <- mjob,
        crossed <- mcrossed, faults <- mfaults

K == INSTANCE Backups WITH row <- krow, blob <- kblob, job <- kjob, crossed <- kcrossed,
        faults <- kfaults

U == INSTANCE Push WITH token <- utoken, job <- ujob, faults <- ufaults,
        Pods <- Handlers, Pushes <- Users

N == INSTANCE NotifyPrefs WITH job <- njob, crossed <- ncrossed, faults <- nfaults

F == INSTANCE Flags WITH crossed <- fcrossed, faults <- ffaults, Readers <- Handlers,
        Writers <- Users

L == INSTANCE Limiter WITH expires <- lexpires

O == INSTANCE Admin WITH job <- ojob, faults <- ofaults

Y == INSTANCE Analytics WITH expires <- yexpires, row <- yrow, job <- yjob,
        faults <- yfaults, Users <- Counted, Pods <- Handlers

MVars == <<mrow, mblob, msession, good, mjob, gc, holds, dropped, seen, mcrossed,
           mfaults>>
KVars == <<krow, kblob, made, kjob, kept, kcrossed, kfaults>>
UVars == <<push, utoken, breaker, ujob, blocked, wedger, ufaults>>
NVars == <<reminder, prefs, snoozed, njob, fired, ncrossed, over, nfaults>>
FVars == <<rule, cache, reader, writer, answer, written, fcrossed, unbusted, writes,
           ffaults>>
LVars == <<now, tat, key, lexpires, admitted>>
OVars == <<report, status, refunded, audit, ojob, unlogged, fate, ofaults>>
YVars == <<today, wire, sketch, yexpires, yrow, yjob, active, signups, behind, events,
           yfaults>>

MOff == /\ mrow = Off /\ mblob = Off /\ msession = Off /\ good = Off /\ mjob = Off
        /\ gc = Off /\ holds = Off /\ dropped = Off /\ seen = Off /\ mcrossed = Off
        /\ mfaults = Off
KOff == /\ krow = Off /\ kblob = Off /\ made = Off /\ kjob = Off /\ kept = Off
        /\ kcrossed = Off /\ kfaults = Off
UOff == /\ push = Off /\ utoken = Off /\ breaker = Off /\ ujob = Off /\ blocked = Off
        /\ wedger = Off /\ ufaults = Off
NOff == /\ reminder = Off /\ prefs = Off /\ snoozed = Off /\ njob = Off /\ fired = Off
        /\ ncrossed = Off /\ over = Off /\ nfaults = Off
FOff == /\ rule = Off /\ cache = Off /\ reader = Off /\ writer = Off /\ answer = Off
        /\ written = Off /\ fcrossed = Off /\ unbusted = Off /\ writes = Off
        /\ ffaults = Off
LOff == /\ now = Off /\ tat = Off /\ key = Off /\ lexpires = Off /\ admitted = Off
OOff == /\ report = Off /\ status = Off /\ refunded = Off /\ audit = Off /\ ojob = Off
        /\ unlogged = Off /\ fate = Off /\ ofaults = Off
YOff == /\ today = Off /\ wire = Off /\ sketch = Off /\ yexpires = Off /\ yrow = Off
        /\ yjob = Off /\ active = Off /\ signups = Off /\ behind = Off /\ events = Off
        /\ yfaults = Off

-----------------------------------------------------------------------------
(* Least and greatest elements.                                            *)

LEMMA LeastNat ==
  ASSUME NEW T \in SUBSET Nat, T # {}
  PROVE  \E m \in T : \A n \in T : m <= n
<1> DEFINE Less == {ss \in Nat \X Nat : ss[1] < ss[2]}
<1>1. IsWellFoundedOn(Less, Nat)
  BY NatLessThanWellFounded, Zenon DEF OpToRel
<1> HIDE DEF Less
<1>2. PICK m \in T : \A n \in T : ~(<<n, m>> \in Less)
  BY <1>1, WFMin
<1>3. ASSUME NEW n \in T PROVE m <= n
  <2>1. ~(n < m)
    BY <1>2 DEF Less
  <2>2. QED
    BY <2>1
<1>4. QED
  BY <1>3

LEMMA GreatestNat ==
  ASSUME NEW top \in Nat, NEW T \in SUBSET (0..top), T # {}
  PROVE  \E m \in T : \A n \in T : n <= m
<1> DEFINE down == {top - i : i \in T}
<1>1. down \in SUBSET Nat /\ down # {}
  <2>1. \A i \in T : top - i \in Nat
    OBVIOUS
  <2>2. QED
    BY <2>1
<1>2. PICK k \in down : \A n \in down : k <= n
  BY <1>1, LeastNat
<1>3. PICK m \in T : k = top - m
  BY <1>2
<1>4. ASSUME NEW n \in T PROVE n <= m
  <2>1. top - n \in down
    OBVIOUS
  <2>2. k <= top - n
    BY <1>2, <2>1
  <2>3. QED
    BY <1>3, <2>2
<1>5. QED
  BY <1>4

-----------------------------------------------------------------------------
(* Media.                                                                  *)

LEMMA MediaCardinality ==
  ASSUME NEW X PROVE M!Cardinality(X) = Cardinality(X) /\ (M!IsFiniteSet(X) <=> IsFiniteSet(X))
  BY DEF M!Cardinality, Cardinality, M!IsFiniteSet, IsFiniteSet

\* The parts of the invariant.
LEMMA MediaParts ==
  ASSUME M!MediaInv
  PROVE  /\ M!TypeOK /\ mjob = [h \in Handlers |-> mjob[h]] /\ \A h \in Handlers : M!JobFits(h)
         /\ M!SweepFits /\ M!SessionFits /\ M!RefsFit /\ M!ObjectMarked /\ good \in BOOLEAN /\ mfaults \in Nat
         /\ M!LinksWork /\ M!HeldMediaIsThere
  BY DEF M!MediaInv, M!MediaSound

\* Facts about any state that the steps need.
LEMMA MediaAny ==
  ASSUME M!MediaInv
  PROVE  /\ mrow \in M!Rows /\ mrow.state \in {"none", "pending", "complete"} /\ mrow.refs \in Nat
         /\ mrow = M!NoRow <=> mrow.state = "none"
         /\ mblob \in {"none", "multipart", "object"} /\ msession \in {"none", "live", "gone"}
         /\ holds \in SUBSET Messages /\ seen \in SUBSET Messages /\ dropped \in SUBSET Messages
         /\ gc.at \in {"idle", "delete", "reclaim"} /\ (gc = M!Idle <=> gc.at = "idle")
         /\ gc.at = "reclaim" => gc.state \in {"pending", "complete"}
         /\ M!Idle.at = "idle" /\ M!NoRow.state = "none" /\ M!NoRow.refs = 0 /\ M!NoRow \in M!Rows
         /\ mrow.state = "complete" => good /\ (~mcrossed => mblob = "object" \/ gc.at = "delete")
         /\ holds # {} /\ good /\ ~mcrossed => mrow # M!NoRow
         /\ good \in BOOLEAN /\ mfaults \in Nat
<1>1. IsFiniteSet(Messages) /\ M!Cardinality(Messages) \in Nat
  BY MediaConstants, MediaCardinality, FS_CardinalityType
<1>2. mrow \in M!Rows /\ mrow.state \in {"none", "pending", "complete"} /\ mrow.refs \in Nat
  BY <1>1, MediaParts DEF M!TypeOK, M!Rows
<1>3. M!NoRow.state = "none" /\ M!NoRow.refs = 0 /\ M!NoRow \in M!Rows /\ M!Idle.at = "idle"
  BY <1>1 DEF M!NoRow, M!Rows, M!Idle
<1>4. mrow = M!NoRow <=> mrow.state = "none"
  BY <1>3, MediaParts DEF M!RefsFit
<1>5. /\ gc.at \in {"idle", "delete", "reclaim"} /\ (gc = M!Idle <=> gc.at = "idle")
      /\ gc.at = "reclaim" => gc.state \in {"pending", "complete"}
  BY <1>3, MediaParts DEF M!SweepFits
<1>6. mrow.state = "complete" => good /\ (~mcrossed => mblob = "object" \/ gc.at = "delete")
  BY MediaParts DEF M!LinksWork, M!Downloadable, M!GetByKey
<1>7. holds # {} /\ good /\ ~mcrossed => mrow # M!NoRow
  BY MediaParts DEF M!HeldMediaIsThere
<1>8. QED
  BY <1>2, <1>3, <1>4, <1>5, <1>6, <1>7, MediaParts DEF M!TypeOK, M!RefsFit

\* The count covers the holders, a held object is there, a link works and
\* no bytes leak, by the rest.
LEMMA MediaWhole ==
  ASSUME M!TypeOK', (mjob = [h \in Handlers |-> mjob[h]])', \A h \in Handlers : M!JobFits(h)',
         M!SweepFits', M!SessionFits', M!RefsFit', M!ObjectMarked', good' \in BOOLEAN, mfaults' \in Nat,
         mrow'.state = "complete" => good' /\ (~mcrossed' => mblob' = "object" \/ gc'.at = "delete"),
         holds' # {} /\ good' /\ ~mcrossed' => mrow' # M!NoRow
  PROVE  M!MediaInv'
<1>0. M!NoRow.state = "none" /\ M!Idle.at = "idle" /\ IsFiniteSet(Messages)
  BY MediaConstants DEF M!NoRow, M!Idle
<1>1. M!LinksWork'
  BY DEF M!LinksWork, M!Downloadable, M!GetByKey
<1>2. M!HeldMediaIsThere'
  <2>1. ASSUME holds' # {}, good', ~mcrossed', mrow'.state = "complete"
        PROVE  mblob' = "object"
    <3>1. gc' = M!Idle
      BY <2>1 DEF M!SweepFits
    <3>2. QED
      BY <1>0, <2>1, <3>1
  <2>2. QED
    BY <2>1 DEF M!HeldMediaIsThere
<1>3. M!LeakNeedsFault'
  <2>1. SUFFICES ASSUME mblob' = "object", mrow' = M!NoRow, ~mcrossed', ~(mfaults' > 0)
        PROVE  M!Uploading'
    BY DEF M!LeakNeedsFault
  <2>2. PICK h \in Handlers : mjob'[h].at \in {"mark", "remove"}
    BY <1>0, <2>1 DEF M!ObjectMarked
  <2>3. QED
    BY <2>2 DEF M!Uploading
<1>4. M!RefsCoverHolders'
  <2>1. SUFFICES ASSUME mrow' # M!NoRow PROVE mrow'.refs >= M!Cardinality(holds')
    BY DEF M!RefsCoverHolders
  <2>2. /\ IsFiniteSet(holds') /\ IsFiniteSet(dropped' \ seen') /\ IsFiniteSet(M!Decrefs')
    BY <1>0, FS_Subset, MediaCardinality DEF M!TypeOK, M!RefsFit
  <2>3. /\ M!Cardinality(holds') \in Nat /\ M!Cardinality(dropped' \ seen') \in Nat
        /\ M!Cardinality(M!Decrefs') \in Nat
    BY <2>2, FS_CardinalityType, MediaCardinality
  <2>4. M!Cardinality(Messages) \in Nat /\ mrow'.refs \in Int
    BY <1>0, FS_CardinalityType, MediaCardinality DEF M!TypeOK, M!Rows
  <2>5. QED
    BY <2>1, <2>3, <2>4 DEF M!RefsFit
<1>5. QED
  BY <1>1, <1>2, <1>3, <1>4 DEF M!MediaInv, M!MediaSound

LEMMA MediaInit == M!Init => M!MediaInv
<1> SUFFICES ASSUME M!Init PROVE M!MediaInv
  OBVIOUS
<1>1. /\ mrow = M!NoRow /\ gc = M!Idle /\ holds = {} /\ dropped = {} /\ seen = {}
      /\ mblob = "none" /\ msession = "none" /\ good \in BOOLEAN /\ ~mcrossed /\ mfaults = 0
      /\ mjob = [h \in Handlers |-> M!Idle]
  BY DEF M!Init
<1>2. /\ M!NoRow = [state |-> "none", refs |-> 0, age |-> "fresh"] /\ M!NoRow.state = "none" /\ M!NoRow.refs = 0
      /\ M!Idle.at = "idle" /\ \A h \in Handlers : mjob[h].at = "idle"
  BY <1>1 DEF M!NoRow, M!Idle
<1>3. /\ M!Cardinality(Messages) \in Nat /\ M!Cardinality({}) = 0 /\ M!IsFiniteSet({})
      /\ holds \cup dropped = {} /\ dropped \ seen = {}
  BY <1>1, MediaConstants, MediaCardinality, FS_CardinalityType, FS_EmptySet
<1>4. M!TypeOK
  BY <1>1, <1>2, <1>3 DEF M!TypeOK, M!Rows
<1>5. M!Decrefs = {}
  BY <1>2 DEF M!Decrefs
<1>6. M!Unopened
  BY <1>1, <1>5 DEF M!Unopened
<1>7. \A h \in Handlers : M!JobFits(h)
  BY <1>2 DEF M!JobFits, M!Opening
<1>8. M!SweepFits /\ M!SessionFits /\ M!ObjectMarked
  BY <1>1, <1>2, <1>6 DEF M!SweepFits, M!SessionFits, M!ObjectMarked, M!Load
<1>9. M!RefsFit
  BY <1>1, <1>2, <1>3, <1>5 DEF M!RefsFit
<1>10. M!LinksWork /\ M!HeldMediaIsThere /\ M!RefsCoverHolders /\ M!LeakNeedsFault
  BY <1>1, <1>2 DEF M!LinksWork, M!Downloadable, M!GetByKey, M!HeldMediaIsThere, M!RefsCoverHolders, M!LeakNeedsFault
<1>11. QED
  BY <1>1, <1>2, <1>4, <1>7, <1>8, <1>9, <1>10 DEF M!MediaInv, M!MediaSound

\* A handler goes on to `next': the others stay.
LEMMA MediaJob ==
  ASSUME M!MediaInv, NEW h \in Handlers, NEW next, mjob' = [mjob EXCEPT ![h] = next]
  PROVE  /\ (mjob = [g \in Handlers |-> mjob[g]])'
         /\ \A g \in Handlers : mjob'[g] = IF g = h THEN next ELSE mjob[g]
  BY MediaParts

\* The count stays as it was.
LEMMA RefsKept ==
  ASSUME M!MediaInv, mrow' = mrow, holds' = holds, dropped' = dropped, seen' = seen, M!Decrefs' = M!Decrefs
  PROVE  M!RefsFit'
  BY MediaParts DEF M!RefsFit

\* The sets that are counted are finite.
LEMMA MediaCounts ==
  ASSUME M!MediaInv
  PROVE  /\ \A X \in SUBSET Messages : IsFiniteSet(X) /\ Cardinality(X) \in Nat /\ Cardinality(X) <= Cardinality(Messages)
         /\ IsFiniteSet(M!Decrefs) /\ Cardinality(M!Decrefs) \in Nat /\ Cardinality(Messages) \in Nat
         /\ mrow # M!NoRow => mrow.refs >= Cardinality(holds) + Cardinality(dropped \ seen) + Cardinality(M!Decrefs)
         /\ mrow.refs <= Cardinality(holds \cup dropped)
<1>1. \A X \in SUBSET Messages : IsFiniteSet(X) /\ Cardinality(X) \in Nat /\ Cardinality(X) <= Cardinality(Messages)
  BY MediaConstants, FS_Subset, FS_CardinalityType
<1>2. IsFiniteSet(M!Decrefs)
  BY MediaParts, MediaCardinality DEF M!RefsFit
<1>3. Cardinality(M!Decrefs) \in Nat /\ Cardinality(Messages) \in Nat
  BY <1>2, MediaConstants, FS_CardinalityType
<1>4. mrow # M!NoRow => mrow.refs >= Cardinality(holds) + Cardinality(dropped \ seen) + Cardinality(M!Decrefs)
  BY MediaParts, MediaCardinality DEF M!RefsFit
<1>5. mrow.refs <= Cardinality(holds \cup dropped)
  BY MediaParts, MediaCardinality DEF M!RefsFit
<1>6. QED
  BY <1>1, <1>2, <1>3, <1>4, <1>5

LEMMA RefsWhole ==
  ASSUME mrow'.state = "none" => mrow' = M!NoRow, dropped' \subseteq Messages, IsFiniteSet(M!Decrefs'),
         mrow' # M!NoRow => mrow'.refs >= Cardinality(holds') + Cardinality(dropped' \ seen') + Cardinality(M!Decrefs'),
         mrow'.refs <= Cardinality(holds' \cup dropped')
  PROVE  M!RefsFit'
  BY MediaCardinality DEF M!RefsFit

\* Without a row nothing is counted.
LEMMA MediaNoRow ==
  ASSUME M!MediaInv, mrow' = M!NoRow, UNCHANGED <<holds, dropped, seen>>, M!Decrefs' = M!Decrefs
  PROVE  M!RefsFit'
<1>1. holds \cup dropped \in SUBSET Messages /\ M!NoRow.refs = 0
  BY MediaAny
<1>2. Cardinality(holds' \cup dropped') >= 0
  BY <1>1, MediaCounts
<1>3. mrow'.refs <= Cardinality(holds' \cup dropped')
  BY <1>1, <1>2
<1>4. IsFiniteSet(M!Decrefs') /\ dropped' \subseteq Messages
  BY MediaCounts, MediaAny
<1>5. QED
  BY <1>3, <1>4, RefsWhole

\* A command that is not applied leaves the count too high.
LEMMA FewerDecrefs ==
  ASSUME M!MediaInv, NEW h \in Handlers, UNCHANGED <<mrow, holds, dropped, seen>>, M!Decrefs' = M!Decrefs \ {h}
  PROVE  M!RefsFit'
<1>1. IsFiniteSet(M!Decrefs \ {h}) /\ Cardinality(M!Decrefs \ {h}) \in Nat /\ Cardinality(M!Decrefs \ {h}) <= Cardinality(M!Decrefs)
  BY MediaCounts, FS_Subset, FS_CardinalityType
<1>2. /\ Cardinality(holds) \in Nat /\ Cardinality(dropped \ seen) \in Nat /\ Cardinality(M!Decrefs) \in Nat
      /\ mrow.refs \in Nat
  BY MediaCounts, MediaAny
<1>3. mrow # M!NoRow => mrow.refs >= Cardinality(holds) + Cardinality(dropped \ seen) + Cardinality(M!Decrefs \ {h})
  BY <1>1, <1>2, MediaCounts
<1>4. mrow'.state = "none" => mrow' = M!NoRow
  BY MediaAny
<1>5. mrow'.refs <= Cardinality(holds' \cup dropped') /\ dropped' \subseteq Messages
  BY MediaCounts, MediaAny
<1>6. QED
  BY <1>1, <1>3, <1>4, <1>5, RefsWhole

LEMMA DecrefsKept ==
  ASSUME M!MediaInv, NEW h \in Handlers, NEW next, mjob' = [mjob EXCEPT ![h] = next],
         mjob[h].at # "decref", next.at # "decref"
  PROVE  M!Decrefs' = M!Decrefs
<1>1. \A g \in Handlers : mjob'[g] = IF g = h THEN next ELSE mjob[g]
  BY MediaJob
<1>2. QED
  BY <1>1 DEF M!Decrefs

(* CreateUpload: nothing is there yet.                                     *)
LEMMA MediaCreate ==
  ASSUME M!MediaInv, NEW h \in Handlers, M!CreateUpload(h)
  PROVE  M!MediaInv'
<1>0. PICK next : next = [at |-> "pending"]
  OBVIOUS
<1>1. next = [at |-> "pending"] /\ next.at = "pending"
  BY <1>0
<1>2. /\ mjob[h] = M!Idle /\ mblob = "none" /\ msession = "none" /\ mblob' = "multipart"
      /\ mjob' = [mjob EXCEPT ![h] = next]
      /\ UNCHANGED <<mrow, msession, good, gc, holds, dropped, seen, mcrossed, mfaults>>
  BY <1>1 DEF M!CreateUpload, M!StartUpload, M!Become
<1>3. M!Unopened /\ mrow = M!NoRow /\ gc = M!Idle /\ holds = {} /\ mjob[h].at = "idle" /\ mrow.state = "none"
  BY <1>2, MediaParts, MediaAny DEF M!SessionFits, M!Unopened
<1>4. M!Decrefs' = M!Decrefs
  BY <1>1, <1>2, <1>3, DecrefsKept
<1>5. M!Unopened' /\ M!RefsFit' /\ M!TypeOK'
  BY <1>2, <1>3, <1>4, MediaParts, RefsKept DEF M!Unopened, M!TypeOK
<1>6. \A g \in Handlers : mjob[g].at \in {"idle", "decref"}
  BY <1>2, MediaParts DEF M!JobFits, M!Opening
<1>7. \A g \in Handlers : mjob'[g] = IF g = h THEN next ELSE mjob[g]
  BY <1>2, MediaJob
<1>8. ASSUME NEW g \in Handlers PROVE M!JobFits(g)'
  BY <1>1, <1>2, <1>5, <1>6, <1>7 DEF M!JobFits, M!Opening
<1>9. M!SweepFits' /\ M!SessionFits' /\ M!ObjectMarked'
  BY <1>2, <1>3, MediaAny DEF M!SweepFits, M!SessionFits, M!ObjectMarked, M!Load
<1>10. QED
  BY <1>2, <1>3, <1>5, <1>8, <1>9, MediaAny, MediaJob, MediaWhole

(* CreatePending: the row comes, or the upload is aborted.                 *)
LEMMA MediaPending ==
  ASSUME M!MediaInv, NEW h \in Handlers, M!CreatePending(h)
  PROVE  M!MediaInv'
<1>0. PICK next : next = [at |-> "save"]
  OBVIOUS
<1>1. /\ mjob[h].at = "pending" /\ next.at = "save" /\ UNCHANGED <<msession, good, gc, holds, dropped, seen, mcrossed>>
      /\ \/ /\ mrow' = [mrow EXCEPT !.state = "pending"] /\ mjob' = [mjob EXCEPT ![h] = next]
            /\ UNCHANGED <<mblob, mfaults>>
         \/ /\ mfaults' = mfaults + 1 /\ mblob' = "none" /\ mjob' = [mjob EXCEPT ![h] = M!Idle]
            /\ UNCHANGED mrow
  BY <1>0 DEF M!CreatePending, M!Fault, M!Become
<1>2. /\ M!Unopened /\ mrow = M!NoRow /\ gc = M!Idle /\ holds = {} /\ dropped = {} /\ M!Decrefs = {}
      /\ msession = "none" /\ mblob = "multipart"
      /\ \A g \in Handlers : M!Opening(g) => g = h
  BY <1>1, MediaParts DEF M!JobFits, M!Opening, M!Unopened
<1>3. \A g \in Handlers : g # h => mjob[g].at = "idle"
  BY <1>2, MediaParts DEF M!JobFits, M!Opening, M!Decrefs
<1>4. CASE mjob' = [mjob EXCEPT ![h] = M!Idle] /\ mfaults' = mfaults + 1 /\ mblob' = "none" /\ UNCHANGED mrow
  <2>1. M!Decrefs' = M!Decrefs
    BY <1>1, <1>4, DecrefsKept, MediaAny
  <2>2. M!Unopened' /\ M!RefsFit' /\ M!TypeOK'
    BY <1>1, <1>2, <1>4, <2>1, MediaParts, RefsKept DEF M!Unopened, M!TypeOK
  <2>3. \A g \in Handlers : mjob'[g].at = "idle"
    BY <1>3, <1>4, MediaJob, MediaAny
  <2>4. ASSUME NEW g \in Handlers PROVE M!JobFits(g)'
    BY <2>3 DEF M!JobFits, M!Opening
  <2>5. M!SweepFits' /\ M!SessionFits' /\ M!ObjectMarked'
    BY <1>1, <1>2, <1>4, <2>2, MediaAny DEF M!SweepFits, M!SessionFits, M!ObjectMarked, M!Load
  <2>6. /\ mfaults' \in Nat /\ good' \in BOOLEAN /\ mrow'.state # "complete" /\ holds' = {}
    BY <1>1, <1>2, <1>4, MediaAny
  <2>7. (mjob = [g \in Handlers |-> mjob[g]])'
    BY <1>4, MediaJob
  <2>8. QED
    BY <2>2, <2>4, <2>5, <2>6, <2>7, MediaWhole
<1>5. CASE /\ mrow' = [mrow EXCEPT !.state = "pending"] /\ mjob' = [mjob EXCEPT ![h] = next]
           /\ UNCHANGED <<mblob, mfaults>>
  <2>1. mrow' \in M!Rows /\ mrow'.state = "pending" /\ mrow'.refs = 0 /\ mrow' # M!NoRow
    BY <1>2, <1>5, MediaAny DEF M!Rows
  <2>2. M!Decrefs' = M!Decrefs
    BY <1>1, <1>5, DecrefsKept
  <2>3. M!TypeOK'
    BY <1>1, <1>5, <2>1, MediaParts DEF M!TypeOK
  <2>4. M!RefsFit'
    <3>1. holds' = {} /\ dropped' \ seen' = {} /\ M!Decrefs' = {} /\ holds' \cup dropped' = {} /\ dropped' = {}
      BY <1>1, <1>2, <2>2
    <3>2. M!Cardinality({}) = 0 /\ M!IsFiniteSet({})
      BY MediaCardinality, FS_EmptySet
    <3>3. QED
      BY <2>1, <3>1, <3>2 DEF M!RefsFit
  <2>5. \A g \in Handlers : mjob'[g].at = IF g = h THEN "save" ELSE "idle"
    BY <1>1, <1>3, <1>5, MediaJob
  <2>6. ASSUME NEW g \in Handlers PROVE M!JobFits(g)'
    BY <1>1, <1>2, <1>5, <2>1, <2>5 DEF M!JobFits, M!Opening
  <2>7. M!SweepFits' /\ M!SessionFits' /\ M!ObjectMarked'
    BY <1>1, <1>2, <1>5, <2>1, MediaAny DEF M!SweepFits, M!SessionFits, M!ObjectMarked, M!Load
  <2>8. /\ mfaults' \in Nat /\ good' \in BOOLEAN /\ mrow'.state # "complete" /\ holds' = {}
    BY <1>1, <1>2, <1>5, <2>1, MediaAny
  <2>9. (mjob = [g \in Handlers |-> mjob[g]])'
    BY <1>5, MediaJob
  <2>10. QED
    BY <2>3, <2>4, <2>6, <2>7, <2>8, <2>9, MediaWhole
<1>6. QED
  BY <1>1, <1>4, <1>5

(* SaveSession: there is a row, or it was swept.                           *)
LEMMA MediaSave ==
  ASSUME M!MediaInv, NEW h \in Handlers, M!SaveSession(h)
  PROVE  M!MediaInv'
<1>1. /\ mjob[h].at = "save" /\ msession' = "live" /\ mjob' = [mjob EXCEPT ![h] = M!Idle]
      /\ UNCHANGED <<mrow, mblob, good, gc, holds, dropped, seen, mcrossed, mfaults>>
  BY DEF M!SaveSession, M!Save, M!Become
<1>2. /\ msession = "none" /\ mblob = "multipart" /\ (~mcrossed => mrow # M!NoRow /\ gc = M!Idle)
      /\ \A g \in Handlers : M!Opening(g) => g = h
  BY <1>1, MediaParts DEF M!JobFits, M!Opening, M!SweepFits
<1>3. \A g \in Handlers : mjob[g].at \in {"idle", "decref"} \/ g = h
  BY <1>2, MediaParts DEF M!JobFits, M!Opening
<1>4. M!Decrefs' = M!Decrefs
  BY <1>1, DecrefsKept, MediaAny
<1>5. M!RefsFit' /\ M!TypeOK'
  BY <1>1, <1>4, MediaParts, RefsKept DEF M!TypeOK
<1>6. \A g \in Handlers : mjob'[g].at \in {"idle", "decref"}
  BY <1>1, <1>3, MediaJob, MediaAny
<1>7. ASSUME NEW g \in Handlers PROVE M!JobFits(g)'
  BY <1>6 DEF M!JobFits, M!Opening
<1>8. M!SweepFits' /\ M!SessionFits' /\ M!ObjectMarked'
  <2>1. M!SweepFits'
    BY <1>1, <1>2, <1>6, MediaParts, MediaAny DEF M!SweepFits
  <2>2. M!SessionFits' /\ M!ObjectMarked'
    BY <1>1, <1>2 DEF M!SessionFits, M!ObjectMarked, M!Load
  <2>3. QED
    BY <2>1, <2>2
<1>9. (mjob = [g \in Handlers |-> mjob[g]])'
  BY <1>1, MediaJob
<1>10. /\ mrow'.state = "complete" => good' /\ (~mcrossed' => mblob' = "object" \/ gc'.at = "delete")
       /\ holds' # {} /\ good' /\ ~mcrossed' => mrow' # M!NoRow
       /\ good' \in BOOLEAN /\ mfaults' \in Nat
  BY <1>1, MediaAny
<1>11. QED
  BY <1>5, <1>7, <1>8, <1>9, <1>10, MediaWhole

(* CompleteUpload: the bytes are there, verified or not.                   *)
LEMMA MediaComplete ==
  ASSUME M!MediaInv, NEW h \in Handlers, M!CompleteUpload(h)
  PROVE  M!MediaInv'
<1>0. PICK next : next = IF good THEN [at |-> "mark"] ELSE [at |-> "remove"]
  OBVIOUS
<1>1. /\ mjob[h] = M!Idle /\ msession = "live" /\ mblob = "multipart" /\ mblob' = "object"
      /\ ~mcrossed' => ~mcrossed /\ gc = M!Idle
      /\ mjob' = [mjob EXCEPT ![h] = next]
      /\ UNCHANGED <<mrow, msession, good, gc, holds, dropped, seen, mfaults>>
  BY <1>0 DEF M!CompleteUpload, M!Load, M!Complete, M!Swept, M!Become, M!Verified
<1>2. next.at \in {"mark", "remove"} /\ (next.at = "mark" => good) /\ (next.at = "remove" => ~good)
  BY <1>0
<1>3. \A g \in Handlers : mjob[g].at \in {"idle", "decref"}
  BY <1>1, MediaParts DEF M!JobFits, M!Opening
<1>4. ~mcrossed' => mrow # M!NoRow
  BY <1>1, MediaParts DEF M!SessionFits, M!Load
<1>5. M!Decrefs' = M!Decrefs
  BY <1>1, <1>2, DecrefsKept, MediaAny
<1>6. M!RefsFit' /\ M!TypeOK'
  BY <1>1, <1>5, MediaParts, RefsKept DEF M!TypeOK
<1>7. \A g \in Handlers : mjob'[g] = IF g = h THEN next ELSE mjob[g]
  BY <1>1, MediaJob
<1>8. ASSUME NEW g \in Handlers PROVE M!JobFits(g)'
  BY <1>1, <1>2, <1>3, <1>4, <1>7 DEF M!JobFits, M!Opening
<1>9. M!SweepFits' /\ M!SessionFits' /\ M!ObjectMarked'
  <2>1. M!SweepFits'
    BY <1>1, MediaParts, MediaAny DEF M!SweepFits
  <2>2. M!SessionFits' /\ M!ObjectMarked'
    BY <1>1, <1>2, <1>7 DEF M!SessionFits, M!ObjectMarked, M!Load
  <2>3. QED
    BY <2>1, <2>2
<1>10. (mjob = [g \in Handlers |-> mjob[g]])'
  BY <1>1, MediaJob
<1>11. /\ mrow'.state = "complete" => good' /\ (~mcrossed' => mblob' = "object" \/ gc'.at = "delete")
       /\ holds' # {} /\ good' /\ ~mcrossed' => mrow' # M!NoRow
       /\ good' \in BOOLEAN /\ mfaults' \in Nat
  BY <1>1, MediaAny
<1>12. QED
  BY <1>6, <1>8, <1>9, <1>10, <1>11, MediaWhole

(* MarkComplete: a row that is gone was swept.                             *)
LEMMA MediaMark ==
  ASSUME M!MediaInv, NEW h \in Handlers, M!MarkComplete(h)
  PROVE  M!MediaInv'
<1>0. PICK next : next = IF mrow = M!NoRow THEN M!Idle ELSE [at |-> "drop"]
  OBVIOUS
<1>1. /\ mjob[h].at = "mark" /\ mjob' = [mjob EXCEPT ![h] = next]
      /\ mrow' = IF mrow = M!NoRow THEN mrow ELSE [mrow EXCEPT !.state = "complete", !.age = "fresh"]
      /\ ~mcrossed' => ~mcrossed /\ gc = M!Idle
      /\ UNCHANGED <<mblob, msession, good, gc, holds, dropped, seen, mfaults>>
  BY <1>0 DEF M!MarkComplete, M!Swept, M!Become
<1>2. next.at \in {"idle", "drop"}
  BY <1>0 DEF M!Idle
<1>3. /\ msession # "none" /\ mblob # "multipart" /\ good
      /\ ~mcrossed' => mblob = "object" /\ mrow # M!NoRow
  BY <1>1, MediaParts DEF M!JobFits
<1>4. /\ mrow' \in M!Rows /\ mrow'.refs = mrow.refs /\ (mrow' = M!NoRow <=> mrow = M!NoRow)
      /\ mrow # M!NoRow => mrow'.state = "complete" /\ mrow' # M!NoRow
      /\ mrow'.state = "none" => mrow' = M!NoRow
  BY <1>1, MediaAny DEF M!Rows
<1>5. M!Decrefs' = M!Decrefs
  BY <1>1, <1>2, DecrefsKept
<1>6. M!RefsFit'
  BY <1>1, <1>4, <1>5, MediaParts DEF M!RefsFit
<1>7. M!TypeOK'
  BY <1>1, <1>4, MediaParts DEF M!TypeOK
<1>8. \A g \in Handlers : mjob'[g] = IF g = h THEN next ELSE mjob[g]
  BY <1>1, MediaJob
<1>9. ASSUME NEW g \in Handlers PROVE M!JobFits(g)'
  <2>1. M!JobFits(g) /\ ~M!Opening(g)
    BY <1>3, MediaParts DEF M!JobFits
  <2>2. QED
    BY <1>1, <1>2, <1>3, <1>4, <1>8, <2>1 DEF M!JobFits, M!Opening
<1>10. M!SweepFits' /\ M!SessionFits' /\ M!ObjectMarked'
  <2>1. M!SweepFits'
    BY <1>1, MediaParts, MediaAny DEF M!SweepFits
  <2>2. M!SessionFits' /\ M!ObjectMarked'
    BY <1>1, <1>3, <1>4 DEF M!SessionFits, M!ObjectMarked, M!Load
  <2>3. QED
    BY <2>1, <2>2
<1>11. (mjob = [g \in Handlers |-> mjob[g]])'
  BY <1>1, MediaJob
<1>12. /\ mrow'.state = "complete" => good' /\ (~mcrossed' => mblob' = "object" \/ gc'.at = "delete")
       /\ holds' # {} /\ good' /\ ~mcrossed' => mrow' # M!NoRow
       /\ good' \in BOOLEAN /\ mfaults' \in Nat
  BY <1>1, <1>3, <1>4, MediaAny
<1>13. QED
  BY <1>6, <1>7, <1>9, <1>10, <1>11, <1>12, MediaWhole

LEMMA MediaDrop ==
  ASSUME M!MediaInv, NEW h \in Handlers, M!DropSession(h)
  PROVE  M!MediaInv'
<1>1. /\ mjob[h].at = "drop" /\ msession' = "gone" /\ mjob' = [mjob EXCEPT ![h] = M!Idle]
      /\ UNCHANGED <<mrow, mblob, good, gc, holds, dropped, seen, mcrossed, mfaults>>
  BY DEF M!DropSession, M!Become
<1>2. msession # "none" /\ M!Idle.at = "idle"
  BY <1>1, MediaParts, MediaAny DEF M!JobFits
<1>3. M!Decrefs' = M!Decrefs
  BY <1>1, <1>2, DecrefsKept
<1>4. M!RefsFit' /\ M!TypeOK'
  BY <1>1, <1>3, MediaParts, RefsKept DEF M!TypeOK
<1>5. \A g \in Handlers : mjob'[g] = IF g = h THEN M!Idle ELSE mjob[g]
  BY <1>1, MediaJob
<1>6. ASSUME NEW g \in Handlers PROVE M!JobFits(g)'
  <2>1. M!JobFits(g) /\ ~M!Opening(g)
    BY <1>2, MediaParts DEF M!JobFits
  <2>2. QED
    BY <1>1, <1>2, <1>5, <2>1 DEF M!JobFits, M!Opening
<1>7. M!SweepFits'
  BY <1>1, <1>2, <1>5, MediaParts, MediaAny DEF M!SweepFits, M!Load
<1>8. M!SessionFits' /\ M!ObjectMarked'
  BY <1>1, <1>2, <1>5, MediaParts DEF M!SessionFits, M!ObjectMarked, M!Load
<1>9. (mjob = [g \in Handlers |-> mjob[g]])'
  BY <1>1, MediaJob
<1>10. /\ mrow'.state = "complete" => good' /\ (~mcrossed' => mblob' = "object" \/ gc'.at = "delete")
       /\ holds' # {} /\ good' /\ ~mcrossed' => mrow' # M!NoRow
       /\ good' \in BOOLEAN /\ mfaults' \in Nat
  BY <1>1, MediaAny
<1>11. QED
  BY <1>4, <1>6, <1>7, <1>8, <1>9, <1>10, MediaWhole

(* rejectAndCleanup: the bytes go, then the row.                           *)
LEMMA MediaRemoveBlob ==
  ASSUME M!MediaInv, NEW h \in Handlers, M!RemoveBlob(h)
  PROVE  M!MediaInv'
<1>0. PICK next : next = [at |-> "unrow"]
  OBVIOUS
<1>1. /\ mjob[h].at = "remove" /\ next.at = "unrow" /\ mblob' = "none" /\ mjob' = [mjob EXCEPT ![h] = next]
      /\ UNCHANGED <<mrow, msession, good, gc, holds, dropped, seen, mcrossed, mfaults>>
  BY <1>0 DEF M!RemoveBlob, M!Become
<1>2. msession # "none" /\ ~good
  BY <1>1, MediaParts DEF M!JobFits
<1>3. M!Decrefs' = M!Decrefs
  BY <1>1, <1>2, DecrefsKept
<1>4. M!RefsFit' /\ M!TypeOK'
  BY <1>1, <1>3, MediaParts, RefsKept DEF M!TypeOK
<1>5. \A g \in Handlers : mjob'[g] = IF g = h THEN next ELSE mjob[g]
  BY <1>1, MediaJob
<1>6. ASSUME NEW g \in Handlers PROVE M!JobFits(g)'
  <2>1. M!JobFits(g) /\ ~M!Opening(g)
    BY <1>2, MediaParts DEF M!JobFits
  <2>2. QED
    BY <1>1, <1>2, <1>5, <2>1 DEF M!JobFits, M!Opening
<1>7. M!SweepFits'
  <2>1. ~(gc # M!Idle /\ ~mcrossed)
    BY <1>1, MediaParts DEF M!SweepFits
  <2>2. QED
    BY <1>1, <2>1, MediaParts, MediaAny DEF M!SweepFits
<1>8. M!SessionFits' /\ M!ObjectMarked'
  BY <1>1, <1>2 DEF M!SessionFits, M!ObjectMarked, M!Load
<1>9. (mjob = [g \in Handlers |-> mjob[g]])'
  BY <1>1, MediaJob
<1>10. /\ mrow'.state = "complete" => good' /\ (~mcrossed' => mblob' = "object" \/ gc'.at = "delete")
       /\ holds' # {} /\ good' /\ ~mcrossed' => mrow' # M!NoRow
       /\ good' \in BOOLEAN /\ mfaults' \in Nat
  BY <1>1, <1>2, MediaAny
<1>11. QED
  BY <1>4, <1>6, <1>7, <1>8, <1>9, <1>10, MediaWhole

LEMMA MediaDeleteRow ==
  ASSUME M!MediaInv, NEW h \in Handlers, M!DeleteRow(h)
  PROVE  M!MediaInv'
<1>0. PICK next : next = [at |-> "drop"]
  OBVIOUS
<1>1. /\ mjob[h].at = "unrow" /\ next.at = "drop" /\ mrow' = M!NoRow /\ mjob' = [mjob EXCEPT ![h] = next]
      /\ ~mcrossed' => ~mcrossed /\ gc = M!Idle
      /\ UNCHANGED <<mblob, msession, good, gc, holds, dropped, seen, mfaults>>
  BY <1>0 DEF M!DeleteRow, M!Swept, M!Become
<1>2. msession # "none" /\ ~good /\ mblob = "none"
  BY <1>1, MediaParts DEF M!JobFits
<1>3. M!Decrefs' = M!Decrefs
  BY <1>1, <1>2, DecrefsKept
<1>4. M!TypeOK'
  BY <1>1, <1>3, MediaParts, MediaAny DEF M!TypeOK
<1>5. M!RefsFit'
  BY <1>1, <1>3, MediaNoRow
<1>6. \A g \in Handlers : mjob'[g] = IF g = h THEN next ELSE mjob[g]
  BY <1>1, MediaJob
<1>7. ASSUME NEW g \in Handlers PROVE M!JobFits(g)'
  <2>1. M!JobFits(g) /\ ~M!Opening(g)
    BY <1>2, MediaParts DEF M!JobFits
  <2>2. QED
    BY <1>1, <1>2, <1>6, <2>1 DEF M!JobFits, M!Opening
<1>8. M!SweepFits'
  BY <1>1, MediaParts, MediaAny DEF M!SweepFits
<1>9. M!SessionFits' /\ M!ObjectMarked'
  BY <1>1, <1>2 DEF M!SessionFits, M!ObjectMarked, M!Load
<1>10. (mjob = [g \in Handlers |-> mjob[g]])'
  BY <1>1, MediaJob
<1>11. /\ mrow'.state = "complete" => good' /\ (~mcrossed' => mblob' = "object" \/ gc'.at = "delete")
       /\ holds' # {} /\ good' /\ ~mcrossed' => mrow' # M!NoRow
       /\ good' \in BOOLEAN /\ mfaults' \in Nat
  BY <1>1, <1>2, MediaAny
<1>12. QED
  BY <1>4, <1>5, <1>7, <1>8, <1>9, <1>10, <1>11, MediaWhole

LEMMA MediaAbandon ==
  ASSUME M!MediaInv, NEW h \in Handlers, M!Abandon(h)
  PROVE  M!MediaInv'
<1>1. /\ mjob' = [mjob EXCEPT ![h] = M!Idle] /\ mfaults' = mfaults + 1
      /\ UNCHANGED <<mrow, mblob, msession, good, gc, holds, dropped, seen, mcrossed>>
  BY DEF M!Abandon, M!Fault, M!Become
<1>2. mfaults' \in Nat /\ mfaults' # 0 /\ M!Idle.at = "idle"
  BY <1>1, MediaAny
<1>3. \A g \in Handlers : mjob'[g] = IF g = h THEN M!Idle ELSE mjob[g]
  BY <1>1, MediaJob
<1>4. M!Decrefs' = M!Decrefs \ {h}
  BY <1>2, <1>3 DEF M!Decrefs
<1>5. M!RefsFit'
  BY <1>1, <1>4, FewerDecrefs
<1>6. M!TypeOK'
  BY <1>1, MediaParts DEF M!TypeOK
<1>7. M!Unopened => M!Unopened'
  BY <1>1, <1>4 DEF M!Unopened
<1>8. ASSUME NEW g \in Handlers PROVE M!JobFits(g)'
  <2>1. M!JobFits(g) /\ \A f \in Handlers : M!Opening(f)' => M!Opening(f)
    BY <1>2, <1>3, MediaParts DEF M!Opening
  <2>2. CASE g = h
    BY <1>2, <1>3, <2>2 DEF M!JobFits, M!Opening
  <2>3. CASE g # h
    BY <1>1, <1>3, <1>7, <2>1, <2>3 DEF M!JobFits, M!Opening
  <2>4. QED
    BY <2>2, <2>3
<1>9. M!SweepFits'
  BY <1>1, <1>2, <1>3, MediaParts DEF M!SweepFits, M!Load
<1>10. M!SessionFits' /\ M!ObjectMarked'
  BY <1>1, <1>2, <1>7, MediaParts DEF M!SessionFits, M!ObjectMarked, M!Load
<1>11. (mjob = [g \in Handlers |-> mjob[g]])'
  BY <1>1, MediaJob
<1>12. /\ mrow'.state = "complete" => good' /\ (~mcrossed' => mblob' = "object" \/ gc'.at = "delete")
       /\ holds' # {} /\ good' /\ ~mcrossed' => mrow' # M!NoRow
       /\ good' \in BOOLEAN /\ mfaults' \in Nat
  BY <1>1, <1>2, MediaAny
<1>13. QED
  BY <1>5, <1>6, <1>8, <1>9, <1>10, <1>11, <1>12, MediaWhole

(* AddRef: one holder and one reference more.                              *)
LEMMA MediaAddRef ==
  ASSUME M!MediaInv, NEW m \in Messages, M!AddRef(m)
  PROVE  M!MediaInv'
<1>1. /\ m \notin holds /\ m \notin dropped /\ mrow # M!NoRow /\ mrow' = [mrow EXCEPT !.refs = @ + 1]
      /\ holds' = holds \cup {m} /\ (~mcrossed' => ~mcrossed /\ gc = M!Idle)
      /\ UNCHANGED <<mblob, msession, good, mjob, gc, dropped, seen, mfaults>>
  BY DEF M!AddRef, M!Referenced, M!Swept
<1>2. M!Decrefs' = M!Decrefs
  BY <1>1 DEF M!Decrefs
<1>3. PICK all : all = holds \cup dropped
  OBVIOUS
<1>4. /\ m \notin all /\ all \in SUBSET Messages /\ all \cup {m} \in SUBSET Messages
      /\ holds' \cup dropped' = all \cup {m}
  BY <1>1, <1>3, MediaAny
<1>5. Cardinality(all \cup {m}) = Cardinality(all) + 1 /\ Cardinality(holds \cup {m}) = Cardinality(holds) + 1
  BY <1>1, <1>4, MediaCounts, MediaAny, FS_AddElement
<1>6. /\ Cardinality(all) \in Nat /\ Cardinality(all) + 1 <= Cardinality(Messages) /\ mrow.refs \in Nat
      /\ Cardinality(holds) \in Nat /\ Cardinality(dropped \ seen) \in Nat /\ Cardinality(M!Decrefs) \in Nat
      /\ mrow.refs <= Cardinality(all) /\ Cardinality(Messages) \in Nat
      /\ mrow.refs >= Cardinality(holds) + Cardinality(dropped \ seen) + Cardinality(M!Decrefs)
  BY <1>1, <1>3, <1>4, <1>5, MediaCounts, MediaAny
<1>7. mrow.refs + 1 \in 0..M!Cardinality(Messages)
  BY <1>6, MediaCardinality
<1>8. /\ mrow' \in M!Rows /\ mrow'.refs = mrow.refs + 1 /\ mrow'.state = mrow.state /\ mrow' # M!NoRow
      /\ mrow'.state # "none"
  BY <1>1, <1>7, MediaAny DEF M!Rows
<1>9. M!RefsFit'
  <2>1. mrow'.refs >= Cardinality(holds') + Cardinality(dropped' \ seen') + Cardinality(M!Decrefs')
    BY <1>1, <1>2, <1>5, <1>6, <1>8
  <2>2. mrow'.refs <= Cardinality(holds' \cup dropped')
    <3>1. Cardinality(holds' \cup dropped') = Cardinality(all \cup {m})
      BY <1>4, Zenon
    <3>2. QED
      BY <1>5, <1>6, <1>8, <3>1
  <2>3. IsFiniteSet(M!Decrefs') /\ dropped' \subseteq Messages
    BY <1>1, <1>2, MediaCounts, MediaAny
  <2>4. QED
    BY <1>8, <2>1, <2>2, <2>3, RefsWhole
<1>10. M!TypeOK'
  BY <1>1, <1>8, MediaParts DEF M!TypeOK
<1>11. ASSUME NEW g \in Handlers PROVE M!JobFits(g)'
  <2>1. M!JobFits(g) /\ mjob[g].at # "pending"
    BY <1>1, MediaParts DEF M!JobFits, M!Unopened
  <2>2. QED
    BY <1>1, <1>8, <2>1 DEF M!JobFits, M!Opening
<1>12. M!SweepFits'
  BY <1>1, MediaParts, MediaAny DEF M!SweepFits
<1>13. M!SessionFits'
  BY <1>1, <1>8, MediaParts DEF M!SessionFits, M!Load, M!Unopened
<1>14. M!ObjectMarked'
  BY <1>1, <1>8, MediaParts DEF M!ObjectMarked
<1>15. /\ mrow'.state = "complete" => good' /\ (~mcrossed' => mblob' = "object" \/ gc'.at = "delete")
       /\ holds' # {} /\ good' /\ ~mcrossed' => mrow' # M!NoRow
       /\ good' \in BOOLEAN /\ mfaults' \in Nat
  BY <1>1, <1>8, MediaAny
<1>16. (mjob = [g \in Handlers |-> mjob[g]])'
  BY <1>1, MediaParts
<1>17. QED
  BY <1>9, <1>10, <1>11, <1>12, <1>13, <1>14, <1>15, <1>16, MediaWhole

(* A message goes: its reference is to be dropped.                         *)
LEMMA MediaDeleteMessage ==
  ASSUME M!MediaInv, NEW m \in Messages, M!DeleteMessage(m)
  PROVE  M!MediaInv'
<1>1. /\ m \in holds /\ holds' = holds \ {m} /\ dropped' = dropped \cup {m}
      /\ UNCHANGED <<mrow, mblob, msession, good, mjob, gc, seen, mcrossed, mfaults>>
  BY DEF M!DeleteMessage
<1>2. M!Decrefs' = M!Decrefs
  BY <1>1 DEF M!Decrefs
<1>3. PICK owed : owed = dropped \ seen
  OBVIOUS
<1>4. /\ owed \in SUBSET Messages /\ owed \cup {m} \in SUBSET Messages /\ dropped' \ seen' \subseteq owed \cup {m}
      /\ holds' \cup dropped' = holds \cup dropped /\ dropped' \in SUBSET Messages /\ holds' \in SUBSET Messages
  BY <1>1, <1>3, MediaAny
<1>5. Cardinality(owed \cup {m}) <= Cardinality(owed) + 1 /\ Cardinality(holds') = Cardinality(holds) - 1
  <2>1. IsFiniteSet(owed) /\ IsFiniteSet(holds) /\ Cardinality(owed) \in Nat
    BY <1>4, MediaCounts, MediaAny
  <2>2. Cardinality(owed \cup {m}) = IF m \in owed THEN Cardinality(owed) ELSE Cardinality(owed) + 1
    BY <2>1, FS_AddElement
  <2>3. Cardinality(holds \ {m}) = Cardinality(holds) - 1
    BY <1>1, <2>1, FS_RemoveElement
  <2>4. QED
    BY <1>1, <2>1, <2>2, <2>3
<1>6. Cardinality(dropped' \ seen') <= Cardinality(owed \cup {m})
  BY <1>4, MediaCounts, FS_Subset
<1>7. /\ Cardinality(owed) \in Nat /\ Cardinality(holds) \in Nat /\ Cardinality(M!Decrefs) \in Nat /\ mrow.refs \in Nat
      /\ Cardinality(owed \cup {m}) \in Nat /\ Cardinality(dropped' \ seen') \in Nat
  BY <1>1, <1>3, <1>4, MediaCounts, MediaAny
<1>8. mrow # M!NoRow => mrow.refs >= Cardinality(holds) + Cardinality(owed) + Cardinality(M!Decrefs)
  BY <1>3, MediaCounts
<1>9. M!RefsFit'
  <2>1. mrow' # M!NoRow => mrow'.refs >= Cardinality(holds') + Cardinality(dropped' \ seen') + Cardinality(M!Decrefs')
    BY <1>1, <1>2, <1>5, <1>6, <1>7, <1>8
  <2>2. mrow'.refs <= Cardinality(holds' \cup dropped')
    BY <1>1, <1>4, MediaCounts
  <2>3. IsFiniteSet(M!Decrefs') /\ dropped' \subseteq Messages /\ (mrow'.state = "none" => mrow' = M!NoRow)
    BY <1>1, <1>2, <1>4, MediaCounts, MediaAny
  <2>4. QED
    BY <2>1, <2>2, <2>3, RefsWhole
<1>10. M!TypeOK'
  BY <1>1, MediaParts DEF M!TypeOK
<1>11. ASSUME NEW g \in Handlers PROVE M!JobFits(g)'
  <2>1. M!JobFits(g) /\ mjob[g].at # "pending"
    BY <1>1, MediaParts DEF M!JobFits, M!Unopened
  <2>2. QED
    BY <1>1, <2>1 DEF M!JobFits, M!Opening
<1>12. M!SweepFits'
  BY <1>1, MediaParts DEF M!SweepFits, M!Load
<1>13. M!SessionFits'
  BY <1>1, MediaParts DEF M!SessionFits, M!Load, M!Unopened
<1>14. M!ObjectMarked'
  BY <1>1, MediaParts DEF M!ObjectMarked
<1>15. /\ mrow'.state = "complete" => good' /\ (~mcrossed' => mblob' = "object" \/ gc'.at = "delete")
       /\ holds' # {} /\ good' /\ ~mcrossed' => mrow' # M!NoRow
       /\ good' \in BOOLEAN /\ mfaults' \in Nat
  BY <1>1, MediaAny
<1>16. (mjob = [g \in Handlers |-> mjob[g]])'
  BY <1>1, MediaParts
<1>17. QED
  BY <1>9, <1>10, <1>11, <1>12, <1>13, <1>14, <1>15, <1>16, MediaWhole

(* The consumer marks the command and has the reference to take off.       *)
LEMMA MediaDereference ==
  ASSUME M!MediaInv, NEW h \in Handlers, NEW m \in Messages, M!Dereference(h, m)
  PROVE  M!MediaInv'
<1>0. PICK next : next = [at |-> "decref"]
  OBVIOUS
<1>1. /\ mjob[h] = M!Idle /\ m \in dropped /\ m \notin seen /\ seen' = seen \cup {m} /\ next.at = "decref"
      /\ mjob' = [mjob EXCEPT ![h] = next]
      /\ UNCHANGED <<mrow, mblob, msession, good, gc, holds, dropped, mcrossed, mfaults>>
  BY <1>0 DEF M!Dereference, M!Fresh, M!Become
<1>2. mjob[h].at = "idle" /\ h \notin M!Decrefs
  BY <1>1, MediaAny DEF M!Decrefs
<1>3. \A g \in Handlers : mjob'[g] = IF g = h THEN next ELSE mjob[g]
  BY <1>1, MediaJob
<1>4. M!Decrefs' = M!Decrefs \cup {h}
  BY <1>1, <1>3 DEF M!Decrefs
<1>5. PICK owed : owed = dropped \ seen
  OBVIOUS
<1>6. m \in owed /\ owed \in SUBSET Messages /\ dropped' \ seen' = owed \ {m}
  BY <1>1, <1>5, MediaAny
<1>7. /\ Cardinality(owed \ {m}) = Cardinality(owed) - 1
      /\ Cardinality(M!Decrefs \cup {h}) = Cardinality(M!Decrefs) + 1 /\ IsFiniteSet(M!Decrefs \cup {h})
  BY <1>2, <1>6, MediaCounts, FS_AddElement, FS_RemoveElement
<1>8. /\ Cardinality(owed) \in Nat /\ Cardinality(holds) \in Nat /\ Cardinality(M!Decrefs) \in Nat /\ mrow.refs \in Nat
  BY <1>6, MediaCounts, MediaAny
<1>9. mrow # M!NoRow => mrow.refs >= Cardinality(holds) + Cardinality(owed) + Cardinality(M!Decrefs)
  BY <1>5, MediaCounts
<1>10. M!RefsFit'
  <2>1. mrow' # M!NoRow => mrow'.refs >= Cardinality(holds') + Cardinality(dropped' \ seen') + Cardinality(M!Decrefs')
    <3>1. Cardinality(dropped' \ seen') = Cardinality(owed \ {m}) /\ Cardinality(M!Decrefs') = Cardinality(M!Decrefs \cup {h})
      BY <1>4, <1>6, Zenon
    <3>2. QED
      BY <1>1, <1>7, <1>8, <1>9, <3>1
  <2>2. mrow'.refs <= Cardinality(holds' \cup dropped')
    BY <1>1, MediaCounts
  <2>3. IsFiniteSet(M!Decrefs') /\ dropped' \subseteq Messages /\ (mrow'.state = "none" => mrow' = M!NoRow)
    BY <1>1, <1>4, <1>7, MediaAny
  <2>4. QED
    BY <2>1, <2>2, <2>3, RefsWhole
<1>11. M!TypeOK'
  BY <1>1, MediaParts DEF M!TypeOK
<1>12. ASSUME NEW g \in Handlers PROVE M!JobFits(g)'
  <2>1. M!JobFits(g) /\ mjob[g].at # "pending" /\ \A f \in Handlers : M!Opening(f)' => M!Opening(f)
    BY <1>1, <1>3, MediaParts DEF M!JobFits, M!Unopened, M!Opening
  <2>2. CASE g = h
    BY <1>1, <1>3, <2>2 DEF M!JobFits, M!Opening
  <2>3. CASE g # h
    BY <1>1, <1>3, <2>1, <2>3 DEF M!JobFits, M!Opening
  <2>4. QED
    BY <2>2, <2>3
<1>13. M!SweepFits'
  BY <1>1, <1>3, MediaParts DEF M!SweepFits, M!Load
<1>14. M!SessionFits'
  BY <1>1, MediaParts DEF M!SessionFits, M!Load, M!Unopened
<1>15. M!ObjectMarked'
  BY <1>1, <1>2, <1>3, MediaParts DEF M!ObjectMarked
<1>16. /\ mrow'.state = "complete" => good' /\ (~mcrossed' => mblob' = "object" \/ gc'.at = "delete")
       /\ holds' # {} /\ good' /\ ~mcrossed' => mrow' # M!NoRow
       /\ good' \in BOOLEAN /\ mfaults' \in Nat
  BY <1>1, MediaAny
<1>17. (mjob = [g \in Handlers |-> mjob[g]])'
  BY <1>1, MediaJob
<1>18. QED
  BY <1>10, <1>11, <1>12, <1>13, <1>14, <1>15, <1>16, <1>17, MediaWhole

(* The reference is taken off: one decrement less to come.                 *)
LEMMA MediaDecRef ==
  ASSUME M!MediaInv, NEW h \in Handlers, M!DecRef(h)
  PROVE  M!MediaInv'
<1>1. /\ mjob[h].at = "decref" /\ mjob' = [mjob EXCEPT ![h] = M!Idle] /\ (~mcrossed' => ~mcrossed /\ gc = M!Idle)
      /\ mrow' = IF mrow = M!NoRow THEN mrow
                 ELSE [mrow EXCEPT !.refs = IF @ > 0 THEN @ - 1 ELSE 0, !.age = IF mrow.refs <= 1 THEN "fresh" ELSE @]
      /\ UNCHANGED <<mblob, msession, good, gc, holds, dropped, seen, mfaults>>
  BY DEF M!DecRef, M!Swept, M!Become
<1>2. h \in M!Decrefs /\ M!Idle.at = "idle"
  BY <1>1, MediaAny DEF M!Decrefs
<1>3. \A g \in Handlers : mjob'[g] = IF g = h THEN M!Idle ELSE mjob[g]
  BY <1>1, MediaJob
<1>4. M!Decrefs' = M!Decrefs \ {h}
  BY <1>2, <1>3 DEF M!Decrefs
<1>5. Cardinality(M!Decrefs \ {h}) = Cardinality(M!Decrefs) - 1 /\ IsFiniteSet(M!Decrefs \ {h})
  BY <1>2, MediaCounts, FS_RemoveElement
<1>6. /\ Cardinality(holds) \in Nat /\ Cardinality(dropped \ seen) \in Nat /\ Cardinality(M!Decrefs) \in Nat
      /\ Cardinality(M!Decrefs \ {h}) \in Nat /\ Cardinality(holds \cup dropped) \in Nat
      /\ mrow.refs \in Nat /\ mrow.refs \in 0..M!Cardinality(Messages) /\ M!Cardinality(Messages) \in Nat
  <2>1. /\ Cardinality(holds) \in Nat /\ Cardinality(dropped \ seen) \in Nat /\ Cardinality(M!Decrefs) \in Nat
        /\ Cardinality(holds \cup dropped) \in Nat
    BY MediaCounts, MediaAny
  <2>2. Cardinality(M!Decrefs \ {h}) \in Nat
    BY <1>5, FS_CardinalityType
  <2>3. mrow.refs \in Nat /\ mrow.refs \in 0..M!Cardinality(Messages)
    BY MediaAny DEF M!Rows
  <2>4. M!Cardinality(Messages) \in Nat
    BY MediaCounts, MediaCardinality
  <2>5. QED
    BY <2>1, <2>2, <2>3, <2>4
<1>7. mrow # M!NoRow => mrow.refs >= Cardinality(holds) + Cardinality(dropped \ seen) + Cardinality(M!Decrefs)
  BY MediaCounts
<1>8. mrow # M!NoRow => mrow.refs > 0 /\ mrow.refs - 1 \in 0..M!Cardinality(Messages)
  BY <1>5, <1>6, <1>7
<1>9. /\ mrow' \in M!Rows /\ mrow'.state = mrow.state /\ (mrow' = M!NoRow <=> mrow = M!NoRow)
      /\ mrow # M!NoRow => mrow'.refs = mrow.refs - 1
      /\ mrow = M!NoRow => mrow'.refs = 0
      /\ mrow'.state = "none" => mrow' = M!NoRow
  <2>1. CASE mrow = M!NoRow
    BY <1>1, <2>1, MediaAny
  <2>2. CASE mrow # M!NoRow
    <3>1. PICK r \in 0..M!Cardinality(Messages) : r = IF mrow.refs > 0 THEN mrow.refs - 1 ELSE 0
      BY <1>8, <2>2
    <3>2. PICK a \in {"fresh", "old"} : a = IF mrow.refs <= 1 THEN "fresh" ELSE mrow.age
      BY MediaAny DEF M!Rows
    <3>3. mrow' = [mrow EXCEPT !.refs = r, !.age = a]
      BY <1>1, <2>2, <3>1, <3>2
    <3>4. mrow' \in M!Rows /\ mrow'.state = mrow.state /\ mrow'.refs = r
      BY <3>3, MediaAny DEF M!Rows
    <3>5. QED
      BY <1>8, <2>2, <3>1, <3>4, MediaAny
  <2>3. QED
    BY <2>1, <2>2
<1>10. M!RefsFit'
  <2>1. mrow' # M!NoRow => mrow'.refs >= Cardinality(holds') + Cardinality(dropped' \ seen') + Cardinality(M!Decrefs')
    BY <1>1, <1>4, <1>5, <1>6, <1>7, <1>9
  <2>2. mrow.refs <= Cardinality(holds \cup dropped)
    BY MediaCounts
  <2>3. mrow'.refs <= Cardinality(holds' \cup dropped')
    BY <1>1, <1>6, <1>9, <2>2
  <2>4. IsFiniteSet(M!Decrefs') /\ dropped' \subseteq Messages
    BY <1>1, <1>4, <1>5, MediaAny
  <2>5. QED
    BY <1>9, <2>1, <2>3, <2>4, RefsWhole
<1>11. M!TypeOK'
  BY <1>1, <1>9, MediaParts DEF M!TypeOK
<1>12. ASSUME NEW g \in Handlers PROVE M!JobFits(g)'
  <2>1. M!JobFits(g) /\ mjob[g].at # "pending" /\ \A f \in Handlers : M!Opening(f)' => M!Opening(f)
    BY <1>2, <1>3, MediaParts DEF M!JobFits, M!Unopened, M!Opening
  <2>2. CASE g = h
    BY <1>2, <1>3, <2>2 DEF M!JobFits, M!Opening
  <2>3. CASE g # h
    BY <1>1, <1>3, <1>9, <2>1, <2>3 DEF M!JobFits, M!Opening
  <2>4. QED
    BY <2>2, <2>3
<1>13. M!SweepFits'
  BY <1>1, MediaParts, MediaAny DEF M!SweepFits
<1>14. M!SessionFits'
  BY <1>1, <1>2, <1>9, MediaParts DEF M!SessionFits, M!Load, M!Unopened
<1>15. M!ObjectMarked'
  BY <1>1, <1>3, <1>9, MediaParts DEF M!ObjectMarked
<1>16. /\ mrow'.state = "complete" => good' /\ (~mcrossed' => mblob' = "object" \/ gc'.at = "delete")
       /\ holds' # {} /\ good' /\ ~mcrossed' => mrow' # M!NoRow
       /\ good' \in BOOLEAN /\ mfaults' \in Nat
  BY <1>1, <1>9, MediaAny
<1>17. (mjob = [g \in Handlers |-> mjob[g]])'
  BY <1>1, MediaJob
<1>18. QED
  BY <1>10, <1>11, <1>12, <1>13, <1>14, <1>15, <1>16, <1>17, MediaWhole

LEMMA MediaAge ==
  ASSUME M!MediaInv, M!Age
  PROVE  M!MediaInv'
<1>1. /\ mrow.state # "none" /\ mrow' = [mrow EXCEPT !.age = "old"]
      /\ UNCHANGED <<mblob, msession, good, mjob, gc, holds, dropped, seen, mcrossed, mfaults>>
  BY DEF M!Age
<1>2. /\ mrow' \in M!Rows /\ mrow'.state = mrow.state /\ mrow'.refs = mrow.refs /\ mrow # M!NoRow /\ mrow' # M!NoRow
      /\ mrow'.state # "none"
  BY <1>1, MediaAny DEF M!Rows
<1>3. M!Decrefs' = M!Decrefs
  BY <1>1 DEF M!Decrefs
<1>4. M!RefsFit'
  BY <1>1, <1>2, <1>3, MediaParts DEF M!RefsFit
<1>5. M!TypeOK'
  BY <1>1, <1>2, MediaParts DEF M!TypeOK
<1>6. ASSUME NEW g \in Handlers PROVE M!JobFits(g)'
  <2>1. M!JobFits(g) /\ mjob[g].at # "pending"
    BY <1>2, MediaParts DEF M!JobFits, M!Unopened
  <2>2. QED
    BY <1>1, <1>2, <2>1 DEF M!JobFits, M!Opening
<1>7. M!SweepFits' /\ M!ObjectMarked'
  BY <1>1, <1>2, MediaParts DEF M!SweepFits, M!Load, M!ObjectMarked
<1>8. M!SessionFits'
  BY <1>1, <1>2, MediaParts DEF M!SessionFits, M!Load, M!Unopened
<1>9. /\ mrow'.state = "complete" => good' /\ (~mcrossed' => mblob' = "object" \/ gc'.at = "delete")
      /\ holds' # {} /\ good' /\ ~mcrossed' => mrow' # M!NoRow
      /\ good' \in BOOLEAN /\ mfaults' \in Nat
  BY <1>1, <1>2, MediaAny
<1>10. (mjob = [g \in Handlers |-> mjob[g]])'
  BY <1>1, MediaParts
<1>11. QED
  BY <1>4, <1>5, <1>6, <1>7, <1>8, <1>9, <1>10, MediaWhole

LEMMA MediaExpires ==
  ASSUME M!MediaInv, M!SessionExpires
  PROVE  M!MediaInv'
<1>1. /\ msession = "live" /\ msession' = "gone"
      /\ UNCHANGED <<mrow, mblob, good, mjob, gc, holds, dropped, seen, mcrossed, mfaults>>
  BY DEF M!SessionExpires, M!Load
<1>2. M!Decrefs' = M!Decrefs
  BY <1>1 DEF M!Decrefs
<1>3. M!RefsFit' /\ M!TypeOK'
  BY <1>1, <1>2, MediaParts, RefsKept DEF M!TypeOK
<1>4. ASSUME NEW g \in Handlers PROVE M!JobFits(g)'
  <2>1. M!JobFits(g) /\ ~M!Opening(g)
    BY <1>1, MediaParts DEF M!JobFits
  <2>2. QED
    BY <1>1, <2>1 DEF M!JobFits, M!Opening
<1>5. M!SweepFits' /\ M!ObjectMarked' /\ M!SessionFits'
  BY <1>1, MediaParts DEF M!SweepFits, M!Load, M!ObjectMarked, M!SessionFits
<1>6. /\ mrow'.state = "complete" => good' /\ (~mcrossed' => mblob' = "object" \/ gc'.at = "delete")
      /\ holds' # {} /\ good' /\ ~mcrossed' => mrow' # M!NoRow
      /\ good' \in BOOLEAN /\ mfaults' \in Nat
  BY <1>1, MediaAny
<1>7. (mjob = [g \in Handlers |-> mjob[g]])'
  BY <1>1, MediaParts
<1>8. QED
  BY <1>3, <1>4, <1>5, <1>6, <1>7, MediaWhole

(* The sweep takes a row that nobody references.                           *)
LEMMA MediaSweep ==
  ASSUME M!MediaInv, M!Sweep
  PROVE  M!MediaInv'
<1>0. PICK next : next = [at |-> "reclaim", state |-> mrow.state]
  OBVIOUS
<1>1. /\ gc = M!Idle /\ mrow.state # "none" /\ mrow.refs = 0 /\ gc' = next
      /\ ~mcrossed' => ~mcrossed /\ \A h \in Handlers : mjob[h].at = "idle"
      /\ UNCHANGED <<mrow, mblob, msession, good, mjob, holds, dropped, seen, mfaults>>
  BY <1>0 DEF M!Sweep, M!Candidate, M!Uploading
<1>2. /\ next.at = "reclaim" /\ next.state = mrow.state /\ mrow.state \in {"pending", "complete"} /\ mrow # M!NoRow
      /\ next # M!Idle
  BY <1>0, <1>1, MediaAny
<1>3. holds = {}
  <2>1. /\ Cardinality(holds) \in Nat /\ Cardinality(dropped \ seen) \in Nat /\ Cardinality(M!Decrefs) \in Nat
        /\ IsFiniteSet(holds)
    BY MediaCounts, MediaAny
  <2>2. mrow.refs >= Cardinality(holds) + Cardinality(dropped \ seen) + Cardinality(M!Decrefs)
    BY <1>2, MediaCounts
  <2>3. Cardinality(holds) = 0
    BY <1>1, <2>1, <2>2
  <2>4. QED
    BY <2>1, <2>3, FS_EmptySet
<1>4. M!Decrefs' = M!Decrefs
  BY <1>1 DEF M!Decrefs
<1>5. M!RefsFit' /\ M!TypeOK'
  BY <1>1, <1>4, MediaParts, RefsKept DEF M!TypeOK
<1>6. ASSUME NEW g \in Handlers PROVE M!JobFits(g)'
  <2>1. M!JobFits(g) /\ mjob[g].at # "pending"
    BY <1>2, MediaParts DEF M!JobFits, M!Unopened
  <2>2. (~mcrossed' => ~mcrossed)
    BY <1>1
  <2>3. QED
    BY <1>1, <2>1, <2>2 DEF M!JobFits, M!Opening
<1>7. M!SweepFits'
  BY <1>0, <1>1, <1>2, <1>3 DEF M!SweepFits
<1>8. M!SessionFits'
  BY <1>1, <1>2, MediaParts DEF M!SessionFits, M!Load, M!Unopened
<1>9. M!ObjectMarked'
  BY <1>1, MediaParts DEF M!ObjectMarked
<1>10. /\ mrow'.state = "complete" => good' /\ (~mcrossed' => mblob' = "object" \/ gc'.at = "delete")
       /\ holds' # {} /\ good' /\ ~mcrossed' => mrow' # M!NoRow
       /\ good' \in BOOLEAN /\ mfaults' \in Nat
  BY <1>1, <1>2, <1>3, MediaAny
<1>11. (mjob = [g \in Handlers |-> mjob[g]])'
  BY <1>1, MediaParts
<1>12. QED
  BY <1>5, <1>6, <1>7, <1>8, <1>9, <1>10, <1>11, MediaWhole

(* The sweep reclaims what it has read: alone, the row is still as it was. *)
LEMMA MediaReclaim ==
  ASSUME M!MediaInv, M!Reclaim
  PROVE  M!MediaInv'
<1>0. PICK gone : gone = [at |-> "delete"]
  OBVIOUS
<1>1. /\ gc.at = "reclaim" /\ UNCHANGED <<mrow, good, mjob, holds, dropped, seen, mcrossed, mfaults>>
      /\ \/ gc.state = "complete" /\ mblob' = "none" /\ gc' = gone /\ UNCHANGED msession
         \/ /\ gc.state = "pending" /\ msession = "live" /\ mblob = "multipart" /\ mblob' = "none" /\ msession' = "gone"
            /\ gc' = gone
         \/ gc.state = "pending" /\ msession = "live" /\ mblob # "multipart" /\ gc' = M!Idle /\ UNCHANGED <<mblob, msession>>
         \/ gc.state = "pending" /\ msession # "live" /\ gc' = gone /\ UNCHANGED <<mblob, msession>>
  BY <1>0 DEF M!Reclaim, M!Load
<1>2. /\ gone.at = "delete" /\ gc # M!Idle /\ (gc.state = "complete" => msession # "none") /\ M!Idle.at = "idle"
      /\ ~mcrossed => mrow.state = gc.state /\ holds = {} /\ \A h \in Handlers : mjob[h].at \in {"idle", "decref"}
      /\ \A h \in Handlers : mjob[h].at # "pending"
      /\ ~M!Unopened
  BY <1>0, <1>1, MediaParts, MediaAny DEF M!SessionFits, M!SweepFits, M!JobFits, M!Unopened
<1>3. M!Decrefs' = M!Decrefs
  BY <1>1 DEF M!Decrefs
<1>4. M!RefsFit' /\ M!TypeOK'
  BY <1>1, <1>3, MediaParts, RefsKept DEF M!TypeOK
<1>5. mblob' = "multipart" => mblob = "multipart" /\ msession' = msession
  BY <1>1
<1>6. /\ mblob = "object" => mblob' = "object" \/ (gc' = gone /\ mblob' = "none")
      /\ mblob' = "object" => mblob = "object"
      /\ mblob = "none" => mblob' = "none"
  BY <1>1
<1>7. msession' = "none" <=> msession = "none"
  BY <1>1
<1>8. ASSUME NEW g \in Handlers PROVE M!JobFits(g)'
  <2>1. M!JobFits(g) /\ mjob'[g] = mjob[g]
    BY <1>1, MediaParts
  <2>2. CASE M!Opening(g)
    <3>1. msession = "none" /\ mblob = "multipart" /\ \A f \in Handlers : M!Opening(f) => f = g
      BY <2>1, <2>2 DEF M!JobFits
    <3>2. mblob' = "multipart" /\ msession' = "none" /\ \A f \in Handlers : M!Opening(f)' => f = g
      BY <1>1, <1>2, <3>1 DEF M!Opening
    <3>3. QED
      BY <1>1, <1>2, <2>1, <2>2, <3>2 DEF M!JobFits, M!Opening
  <2>3. CASE ~M!Opening(g)
    BY <1>1, <1>2, <1>5, <1>6, <1>7, <2>1, <2>3 DEF M!JobFits, M!Opening
  <2>4. QED
    BY <2>2, <2>3
<1>9. M!SweepFits'
  <2>1. gc' = M!Idle \/ gc' = [at |-> "delete"]
    BY <1>0, <1>1
  <2>2. ~mcrossed' => holds' = {} /\ \A h \in Handlers : mjob'[h].at \in {"idle", "decref"}
    BY <1>1, <1>2
  <2>3. ASSUME gc'.at = "delete", ~mcrossed' PROVE ~(msession' = "live" /\ mblob' = "multipart")
    BY <1>1, <1>2, <2>3
  <2>4. ASSUME gc'.at = "delete", ~mcrossed', mfaults' = 0 PROVE mblob' # "object"
    BY <1>1, <1>2, <2>4, MediaParts DEF M!ObjectMarked
  <2>5. QED
    BY <1>2, <2>1, <2>2, <2>3, <2>4 DEF M!SweepFits, M!Load
<1>10. M!SessionFits'
  <2>1. ASSUME msession' = "none" PROVE mblob' # "object" /\ mblob' # "none" /\ mrow'.state # "complete"
    BY <1>1, <1>2, <1>6, <1>7, <2>1, MediaParts DEF M!SessionFits
  <2>2. gc'.at # "reclaim"
    BY <1>1, <1>2
  <2>3. ASSUME msession' = "live", mblob' = "multipart", ~mcrossed' PROVE mrow' # M!NoRow
    BY <1>1, <1>5, <2>3, MediaParts DEF M!SessionFits, M!Load
  <2>4. QED
    BY <2>1, <2>2, <2>3 DEF M!SessionFits, M!Load
<1>11. M!ObjectMarked'
  BY <1>1, <1>6, MediaParts DEF M!ObjectMarked
<1>12. /\ mrow'.state = "complete" => good' /\ (~mcrossed' => mblob' = "object" \/ gc'.at = "delete")
       /\ holds' # {} /\ good' /\ ~mcrossed' => mrow' # M!NoRow
       /\ good' \in BOOLEAN /\ mfaults' \in Nat
  <2>1. mrow'.state = "complete" => good' /\ (~mcrossed' => mblob' = "object" \/ gc'.at = "delete")
    BY <1>1, <1>2, <1>6, MediaAny
  <2>2. QED
    BY <1>1, <2>1, MediaAny
<1>13. (mjob = [g \in Handlers |-> mjob[g]])'
  BY <1>1, MediaParts
<1>14. QED
  BY <1>4, <1>8, <1>9, <1>10, <1>11, <1>12, <1>13, MediaWhole

LEMMA MediaDelete ==
  ASSUME M!MediaInv, M!Delete
  PROVE  M!MediaInv'
<1>1. /\ gc.at = "delete" /\ mrow' = M!NoRow /\ gc' = M!Idle
      /\ UNCHANGED <<mblob, msession, good, mjob, holds, dropped, seen, mcrossed, mfaults>>
  BY DEF M!Delete
<1>2. /\ gc # M!Idle /\ M!Idle.at = "idle" /\ M!NoRow.state = "none"
      /\ ~mcrossed => holds = {} /\ \A h \in Handlers : mjob[h].at \in {"idle", "decref"}
      /\ ~mcrossed => ~(msession = "live" /\ mblob = "multipart") /\ (mfaults = 0 => mblob # "object")
      /\ ~M!Unopened
  BY <1>1, MediaParts, MediaAny DEF M!SweepFits, M!Load, M!Unopened
<1>3. M!Decrefs' = M!Decrefs
  BY <1>1 DEF M!Decrefs
<1>4. M!RefsFit'
  BY <1>1, <1>3, MediaNoRow
<1>5. M!TypeOK'
  BY <1>1, MediaParts, MediaAny DEF M!TypeOK
<1>6. ASSUME NEW g \in Handlers PROVE M!JobFits(g)'
  <2>1. M!JobFits(g) /\ mjob[g].at # "pending"
    BY <1>2, MediaParts DEF M!JobFits
  <2>2. QED
    BY <1>1, <1>2, <2>1 DEF M!JobFits, M!Opening
<1>7. M!SweepFits' /\ M!ObjectMarked'
  BY <1>1, <1>2 DEF M!SweepFits, M!ObjectMarked
<1>8. M!SessionFits'
  BY <1>1, <1>2, MediaParts DEF M!SessionFits, M!Load
<1>9. /\ mrow'.state = "complete" => good' /\ (~mcrossed' => mblob' = "object" \/ gc'.at = "delete")
      /\ holds' # {} /\ good' /\ ~mcrossed' => mrow' # M!NoRow
      /\ good' \in BOOLEAN /\ mfaults' \in Nat
  BY <1>1, <1>2, MediaAny
<1>10. (mjob = [g \in Handlers |-> mjob[g]])'
  BY <1>1, MediaParts
<1>11. QED
  BY <1>4, <1>5, <1>6, <1>7, <1>8, <1>9, <1>10, MediaWhole

LEMMA MediaStep ==
  ASSUME M!MediaInv, [M!Next]_MVars
  PROVE  M!MediaInv'
<1>1. CASE UNCHANGED MVars
  <2>1. UNCHANGED <<mrow, mblob, msession, good, mjob, gc, holds, dropped, seen, mcrossed, mfaults>>
    BY <1>1 DEF MVars
  <2>2. M!Decrefs' = M!Decrefs
    BY <2>1 DEF M!Decrefs
  <2>3. M!RefsFit' /\ M!TypeOK'
    BY <2>1, <2>2, MediaParts, RefsKept DEF M!TypeOK
  <2>4. M!Unopened => M!Unopened'
    BY <2>1, <2>2 DEF M!Unopened
  <2>5. ASSUME NEW g \in Handlers PROVE M!JobFits(g)'
    BY <2>1, <2>4, MediaParts DEF M!JobFits, M!Opening
  <2>6. M!SweepFits' /\ M!ObjectMarked' /\ M!SessionFits'
    BY <2>1, <2>4, MediaParts DEF M!SweepFits, M!Load, M!ObjectMarked, M!SessionFits
  <2>7. /\ mrow'.state = "complete" => good' /\ (~mcrossed' => mblob' = "object" \/ gc'.at = "delete")
        /\ holds' # {} /\ good' /\ ~mcrossed' => mrow' # M!NoRow
        /\ good' \in BOOLEAN /\ mfaults' \in Nat
    BY <2>1, MediaAny
  <2>8. (mjob = [g \in Handlers |-> mjob[g]])'
    BY <2>1, MediaParts
  <2>9. QED
    BY <2>3, <2>5, <2>6, <2>7, <2>8, MediaWhole
<1>2. QED
  BY <1>1, MediaCreate, MediaPending, MediaSave, MediaComplete, MediaMark, MediaDrop, MediaRemoveBlob, MediaDeleteRow,
     MediaAbandon, MediaAddRef, MediaDeleteMessage, MediaDereference, MediaDecRef, MediaAge, MediaExpires, MediaSweep,
     MediaReclaim, MediaDelete DEF M!Next

-----------------------------------------------------------------------------
(* Backups.                                                                *)

\* Backups has its own copy of FiniteSets.
LEMMA BackupsCardinality == ASSUME NEW X PROVE K!Cardinality(X) = Cardinality(X)
  BY DEF K!Cardinality, Cardinality, K!IsFiniteSet, IsFiniteSet

\* The oldest of some backups, and the latest.
LEMMA OldestAndLatest ==
  ASSUME NEW X \in SUBSET K!Ids, X # {}
  PROVE  K!Min(X) \in X /\ K!Max(X) \in X
<1>1. X \in SUBSET Nat /\ X \in SUBSET (0..MaxBackups)
  BY BackupConstants DEF K!Ids
<1>2. \E m \in X : \A n \in X : m <= n
  BY <1>1, LeastNat
<1>3. \E m \in X : \A n \in X : n <= m
  BY <1>1, BackupConstants, GreatestNat
<1>4. K!Min(X) \in X
  BY <1>1, <1>2 DEF K!Min
<1>5. K!Max(X) \in X
  BY <1>1, <1>3 DEF K!Max
<1>6. QED
  BY <1>4, <1>5

\* The parts of the invariant.
LEMMA BackupsParts ==
  ASSUME K!BackupsInv
  PROVE  /\ K!TypeOK
         /\ kjob = [h \in Handlers |-> kjob[h]] /\ \A h \in Handlers : K!JobFits(kjob[h])
         /\ K!RowsToCome /\ K!Reclaiming /\ K!Spared /\ kfaults \in Nat
  BY DEF K!BackupsInv, K!BackupsSound

\* What can be restored, and the quota, follow from the rest.
LEMMA BackupsWhole ==
  ASSUME K!TypeOK', (kjob = [h \in Handlers |-> kjob[h]])', \A h \in Handlers : K!JobFits(kjob[h])',
         K!RowsToCome', K!Reclaiming', K!Spared', kfaults' \in Nat
  PROVE  K!BackupsInv'
<1>0. K!Completes' \in SUBSET K!Ids
  BY DEF K!Completes
<1>1. K!AlwaysRestorable'
  <2>1. SUFFICES ASSUME kept', ~kcrossed', kfaults' = 0
        PROVE  \/ K!RestoreWorks'
               \/ \E h \in Handlers : /\ kjob'[h].at \in {"list", "remove", "delete"}
                                      /\ krow'[kjob'[h].i] = "complete" /\ kblob'[kjob'[h].i] = "object"
    BY DEF K!AlwaysRestorable
  <2>2. K!Completes' # {}
    BY <2>1 DEF K!Spared
  <2>3. PICK last \in K!Completes' : last = K!Latest' /\ last = K!Max(K!Completes')
    BY <1>0, <2>2, OldestAndLatest DEF K!Latest
  <2>4. last # 0
    BY <1>0, BackupConstants DEF K!Ids
  <2>5. CASE kblob'[last] = "object"
    BY <2>3, <2>4, <2>5 DEF K!RestoreWorks
  <2>6. CASE kblob'[last] # "object"
    <3>1. PICK h \in Handlers : kjob'[h].at = "delete" /\ last = K!Min(kjob'[h].old)
      BY <2>1, <2>6 DEF K!Spared, K!BytesThere
    <3>2. last \in kjob'[h].old
      BY <3>1, OldestAndLatest DEF K!JobFits
    <3>3. krow'[last] = "complete"
      BY DEF K!Completes
    <3>4. krow'[kjob'[h].i] = "complete" /\ kblob'[kjob'[h].i] = "object"
      BY <2>1, <3>1, <3>2, <3>3 DEF K!Spared, K!OwnStands
    <3>5. QED
      BY <3>1, <3>4
  <2>7. QED
    BY <2>5, <2>6
<1>2. K!OneActive'
  <2>1. SUFFICES ASSUME kfaults' = 0, \A h \in Handlers : kjob'[h] = K!Idle
        PROVE  K!Cardinality(K!Completes') <= 1
    BY DEF K!OneActive
  <2>2. \A i, j \in K!Completes' : i = j
    BY <2>1 DEF K!Reclaiming, K!Idle
  <2>3. CASE K!Completes' = {}
    BY <2>3, FS_EmptySet, BackupsCardinality
  <2>4. CASE K!Completes' # {}
    <3>1. PICK i : K!Completes' = {i}
      BY <2>2, <2>4
    <3>2. QED
      BY <3>1, FS_Singleton, BackupsCardinality
  <2>5. QED
    BY <2>3, <2>4
<1>3. QED
  BY <1>1, <1>2 DEF K!BackupsInv, K!BackupsSound

LEMMA BackupsInit == K!Init => K!BackupsInv
<1> SUFFICES ASSUME K!Init PROVE K!BackupsInv
  OBVIOUS
<1>1. K!TypeOK /\ kfaults \in Nat /\ K!Completes = {}
  BY DEF K!Init, K!TypeOK, K!Completes
<1>2. \A h \in Handlers : kjob[h].at = "idle"
  BY DEF K!Init, K!Idle
<1>3. kjob = [h \in Handlers |-> kjob[h]] /\ \A h \in Handlers : K!JobFits(kjob[h])
  BY <1>2 DEF K!Init, K!JobFits
<1>4. K!RowsToCome
  BY <1>2, BackupConstants DEF K!Init, K!RowsToCome
<1>5. K!Reclaiming /\ K!Spared
  BY <1>1, <1>2 DEF K!Init, K!Reclaiming, K!Spared, K!FinishAlone, K!Finishing, K!OwnStands
<1>6. K!Cardinality(K!Completes) = 0
  BY <1>1, FS_EmptySet, BackupsCardinality
<1>7. K!AlwaysRestorable /\ K!OneActive
  BY <1>6 DEF K!Init, K!AlwaysRestorable, K!OneActive
<1>8. QED
  BY <1>1, <1>3, <1>4, <1>5, <1>7 DEF K!BackupsInv, K!BackupsSound

\* A handler goes on to `next': the others stay.
LEMMA BackupsJob ==
  ASSUME K!BackupsInv, NEW h \in Handlers, NEW next, K!JobFits(next)', kjob' = [kjob EXCEPT ![h] = next],
         made' \in Nat, made <= made'
  PROVE  /\ (kjob = [g \in Handlers |-> kjob[g]])' /\ \A g \in Handlers : K!JobFits(kjob[g])'
         /\ \A g \in Handlers : kjob'[g] = IF g = h THEN next ELSE kjob[g]
<1>1. /\ kjob' = [g \in Handlers |-> kjob'[g]]
      /\ \A g \in Handlers : kjob'[g] = IF g = h THEN next ELSE kjob[g]
  BY BackupsParts
<1>2. made \in Nat
  BY BackupsParts, BackupConstants DEF K!RowsToCome
<1>3. ASSUME NEW g \in Handlers PROVE K!JobFits(kjob[g])'
  BY <1>1, <1>2, BackupsParts DEF K!JobFits
<1>4. QED
  BY <1>1, <1>3

\* After a fault only the rows to come are left to show.
LEMMA BackupsFault ==
  ASSUME K!BackupsInv, NEW h \in Handlers, kjob' = [kjob EXCEPT ![h] = K!Idle],
         kfaults' = kfaults + 1, UNCHANGED <<krow, made>>, K!TypeOK'
  PROVE  K!BackupsInv'
<1>1. kfaults' \in Nat /\ kfaults' # 0 /\ made' \in Nat /\ made <= made'
  BY BackupsParts, BackupConstants DEF K!RowsToCome
<1>2. K!JobFits(K!Idle)' /\ K!Idle.at = "idle"
  BY DEF K!JobFits, K!Idle
<1>3. \A g \in Handlers : kjob'[g] = IF g = h THEN K!Idle ELSE kjob[g]
  BY <1>1, <1>2, BackupsJob
<1>4. K!RowsToCome'
  BY <1>2, <1>3, BackupsParts DEF K!RowsToCome
<1>5. K!Reclaiming' /\ K!Spared'
  BY <1>1 DEF K!Reclaiming, K!Spared
<1>6. QED
  BY <1>1, <1>2, <1>4, <1>5, BackupsJob, BackupsWhole

\* What holds without an overlap.
LEMMA SparedParts ==
  ASSUME K!BackupsInv, ~kcrossed, kfaults = 0
  PROVE  /\ K!FinishAlone /\ \A g \in Handlers : K!OwnStands(kjob[g])
         /\ \A i \in K!Ids : krow[i] = "complete" => K!BytesThere(i)
         /\ kept => \E i \in K!Ids : krow[i] = "complete" /\ K!LeftAlone(i)
  BY BackupsParts DEF K!Spared, K!Completes

LEMMA SparedWhole ==
  ASSUME ~kcrossed' /\ kfaults' = 0 =>
         /\ K!FinishAlone' /\ \A g \in Handlers : K!OwnStands(kjob[g])'
         /\ \A i \in K!Ids : krow'[i] = "complete" => K!BytesThere(i)'
         /\ kept' => \E i \in K!Ids : krow'[i] = "complete" /\ K!LeftAlone(i)'
  PROVE  K!Spared'
  BY DEF K!Spared, K!Completes

\* Facts about any state that the steps need.
LEMMA BackupsAny ==
  ASSUME K!BackupsInv
  PROVE  /\ krow \in [K!Ids -> {"none", "pending", "complete"}] /\ kblob \in [K!Ids -> {"none", "multipart", "object"}]
         /\ made \in Nat /\ made <= MaxBackups /\ kfaults \in Nat /\ K!Idle.at = "idle"
         /\ \A g \in Handlers : kjob[g].at # "idle" => kjob[g].i \in K!Ids /\ kjob[g].i <= made
         /\ \A g \in Handlers : kjob[g].at \in {"remove", "delete"} => kjob[g].old \in SUBSET K!Ids /\ kjob[g].old # {}
         /\ \A i \in K!Ids : i > made => krow[i] = "none"
         /\ \A g \in Handlers : kjob[g].at = "pending" =>
              /\ krow[kjob[g].i] = "none"
              /\ \A f \in Handlers : kjob[f].at # "idle" /\ kjob[f].i = kjob[g].i => f = g
         /\ kfaults = 0 => \A i, j \in K!Ids : krow[i] = "complete" /\ krow[j] = "complete" /\ i # j =>
              \E g \in Handlers : \/ kjob[g].at = "list"
                                  \/ kjob[g].at \in {"remove", "delete"} /\ (i \in kjob[g].old \/ j \in kjob[g].old)
<1>1. made \in Nat /\ made <= MaxBackups
  BY BackupsParts, BackupConstants DEF K!RowsToCome
<1>2. \A g \in Handlers : kjob[g].at # "idle" => kjob[g].i \in K!Ids /\ kjob[g].i <= made
  BY <1>1, BackupsParts, BackupConstants DEF K!JobFits, K!Ids
<1>3. QED
  BY <1>1, <1>2, BackupsParts DEF K!TypeOK, K!JobFits, K!RowsToCome, K!Reclaiming, K!Completes, K!Idle

LEMMA ReclaimingWhole ==
  ASSUME kfaults' = 0 => \A i, j \in K!Ids : krow'[i] = "complete" /\ krow'[j] = "complete" /\ i # j =>
              \E g \in Handlers : \/ kjob'[g].at = "list"
                                  \/ kjob'[g].at \in {"remove", "delete"} /\ (i \in kjob'[g].old \/ j \in kjob'[g].old)
  PROVE  K!Reclaiming'
  BY DEF K!Reclaiming, K!Completes

\* A handler that goes on with its backup, or takes one that has a row,
\* disturbs no row to come.
LEMMA RowsStay ==
  ASSUME K!BackupsInv, NEW h \in Handlers, NEW next, made' = made, next.at # "pending",
         \A g \in Handlers : kjob'[g] = IF g = h THEN next ELSE kjob[g],
         \A i \in K!Ids : krow[i] = "none" => krow'[i] = "none" \/ (kjob[h].at # "idle" /\ i = kjob[h].i),
         next.at = "idle" \/ (kjob[h].at # "idle" /\ next.i = kjob[h].i) \/ krow[next.i] # "none"
  PROVE  K!RowsToCome'
<1>1. made' \in 0..MaxBackups
  BY BackupsParts DEF K!RowsToCome
<1>2. ASSUME NEW i \in K!Ids, i > made' PROVE krow'[i] = "none"
  <2>1. i \in Nat /\ krow[i] = "none"
    BY <1>2, BackupsAny, BackupConstants DEF K!Ids
  <2>2. ~(kjob[h].at # "idle" /\ i = kjob[h].i)
    BY <1>2, <2>1, BackupsAny
  <2>3. QED
    BY <2>1, <2>2
<1>3. ASSUME NEW g \in Handlers, kjob'[g].at = "pending"
      PROVE  /\ krow'[kjob'[g].i] = "none"
             /\ \A f \in Handlers : kjob'[f].at # "idle" /\ kjob'[f].i = kjob'[g].i => f = g
  <2>1. g # h /\ kjob'[g] = kjob[g] /\ kjob[g].at = "pending" /\ kjob[g].i \in K!Ids
    BY <1>3, BackupsAny
  <2>2. krow[kjob[g].i] = "none" /\ \A f \in Handlers : kjob[f].at # "idle" /\ kjob[f].i = kjob[g].i => f = g
    BY <2>1, BackupsAny
  <2>3. QED
    BY <2>1, <2>2
<1>4. QED
  BY <1>1, <1>2, <1>3 DEF K!RowsToCome

\* What is left to show of a step without a fault.
LEMMA BackupsMoved ==
  ASSUME K!BackupsInv, NEW h \in Handlers, NEW next, K!JobFits(next)', kjob' = [kjob EXCEPT ![h] = next],
         made' \in Nat, made <= made', kfaults' = kfaults, K!TypeOK', K!RowsToCome', K!Reclaiming', K!Spared'
  PROVE  K!BackupsInv'
<1>1. (kjob = [g \in Handlers |-> kjob[g]])' /\ \A g \in Handlers : K!JobFits(kjob[g])'
  BY BackupsJob
<1>2. kfaults' \in Nat
  BY BackupsParts
<1>3. QED
  BY <1>1, <1>2, BackupsWhole

(* Create: a new number.                                                   *)
LEMMA BackupsCreate ==
  ASSUME K!BackupsInv, NEW h \in Handlers, K!Create(h)
  PROVE  K!BackupsInv'
<1>1. PICK n, next : n = made + 1 /\ next = [at |-> "pending", i |-> n]
  OBVIOUS
<1>2. /\ kjob[h] = K!Idle /\ made < MaxBackups /\ made' = n /\ kblob' = [kblob EXCEPT ![n] = "multipart"]
      /\ kjob' = [kjob EXCEPT ![h] = next] /\ UNCHANGED <<krow, kept, kcrossed, kfaults>>
  BY <1>1 DEF K!Create, K!Become
<1>3. n \in K!Ids /\ n \in Nat /\ n \in 1..n /\ n > made /\ made' \in 0..MaxBackups /\ made' \in Nat /\ made <= made'
  BY <1>1, <1>2, BackupsAny, BackupConstants DEF K!Ids
<1>4. K!JobFits(next)' /\ next.at = "pending" /\ next.i = n
  BY <1>1, <1>2, <1>3 DEF K!JobFits
<1>5. \A g \in Handlers : kjob'[g] = IF g = h THEN next ELSE kjob[g]
  BY <1>2, <1>3, <1>4, BackupsJob
<1>6. K!TypeOK' /\ \A i \in K!Ids : i # n => kblob'[i] = kblob[i]
  BY <1>2, <1>3, BackupsAny DEF K!TypeOK
<1>7. kjob[h].at = "idle" /\ krow[n] = "none"
  BY <1>2, <1>3, BackupsAny
<1>8. \A g \in Handlers : kjob[g].at # "idle" => kjob[g].i # n
  BY <1>3, BackupsAny
<1>9. K!RowsToCome'
  BY <1>1, <1>2, <1>3, <1>4, <1>5, <1>7, <1>8, BackupsAny DEF K!RowsToCome, K!Ids
<1>10. K!Reclaiming'
  BY <1>2, <1>5, <1>7, BackupsAny, ReclaimingWhole
<1>11. ASSUME ~kcrossed', kfaults' = 0
       PROVE  /\ K!FinishAlone' /\ \A g \in Handlers : K!OwnStands(kjob[g])'
              /\ \A i \in K!Ids : krow'[i] = "complete" => K!BytesThere(i)'
              /\ kept' => \E i \in K!Ids : krow'[i] = "complete" /\ K!LeftAlone(i)'
  <2>1. ~kcrossed /\ kfaults = 0
    BY <1>2, <1>11
  <2>2. \A g \in Handlers : kjob'[g].at # "pending" => kjob'[g] = kjob[g]
    BY <1>4, <1>5
  <2>3. K!FinishAlone'
    BY <2>1, <2>2, SparedParts DEF K!FinishAlone, K!Finishing
  <2>4. ASSUME NEW g \in Handlers PROVE K!OwnStands(kjob[g])'
    BY <1>2, <1>4, <1>5, <1>6, <1>8, <2>1, BackupsAny, SparedParts DEF K!OwnStands
  <2>5. \A i \in K!Ids : krow'[i] = "complete" => K!BytesThere(i)'
    BY <1>2, <1>5, <1>6, <1>7, <2>1, SparedParts DEF K!BytesThere
  <2>6. kept' => \E i \in K!Ids : krow'[i] = "complete" /\ K!LeftAlone(i)'
    BY <1>2, <2>1, <2>2, SparedParts DEF K!LeftAlone
  <2>7. QED
    BY <2>3, <2>4, <2>5, <2>6
<1>12. K!Spared'
  BY <1>11, SparedWhole
<1>13. QED
  BY <1>2, <1>3, <1>4, <1>6, <1>9, <1>10, <1>12, BackupsMoved

(* CreatePending: the row comes, or the upload is aborted.                 *)
LEMMA BackupsPending ==
  ASSUME K!BackupsInv, NEW h \in Handlers, K!CreatePending(h)
  PROVE  K!BackupsInv'
<1>1. /\ kjob[h].at = "pending" /\ kjob' = [kjob EXCEPT ![h] = K!Idle] /\ UNCHANGED <<made, kept, kcrossed>>
      /\ \/ krow' = [krow EXCEPT ![kjob[h].i] = "pending"] /\ UNCHANGED <<kblob, kfaults>>
         \/ kfaults' = kfaults + 1 /\ kblob' = [kblob EXCEPT ![kjob[h].i] = "none"] /\ UNCHANGED krow
  BY DEF K!CreatePending, K!Become
<1>2. PICK n \in K!Ids : n = kjob[h].i /\ n <= made /\ krow[n] = "none"
  BY <1>1, BackupsAny
<1>3. K!TypeOK'
  BY <1>1, BackupsAny DEF K!TypeOK
<1>4. CASE kfaults' = kfaults + 1 /\ UNCHANGED krow
  BY <1>1, <1>3, <1>4, BackupsFault
<1>5. CASE krow' = [krow EXCEPT ![n] = "pending"] /\ UNCHANGED <<kblob, kfaults>>
  <2>1. K!JobFits(K!Idle)' /\ made' \in Nat /\ made <= made' /\ K!Idle.at = "idle"
    BY <1>1, BackupsAny DEF K!JobFits, K!Idle
  <2>2. \A g \in Handlers : kjob'[g] = IF g = h THEN K!Idle ELSE kjob[g]
    BY <1>1, <2>1, BackupsJob
  <2>3. \A i \in K!Ids : krow'[i] = IF i = n THEN "pending" ELSE krow[i]
    BY <1>5, BackupsAny
  <2>4. K!RowsToCome'
    BY <1>1, <1>2, <2>1, <2>2, <2>3, RowsStay
  <2>5. K!Reclaiming'
    BY <1>1, <1>2, <1>5, <2>2, <2>3, BackupsAny, ReclaimingWhole
  <2>6. ASSUME ~kcrossed', kfaults' = 0
        PROVE  /\ K!FinishAlone' /\ \A g \in Handlers : K!OwnStands(kjob[g])'
               /\ \A i \in K!Ids : krow'[i] = "complete" => K!BytesThere(i)'
               /\ kept' => \E i \in K!Ids : krow'[i] = "complete" /\ K!LeftAlone(i)'
    <3>1. ~kcrossed /\ kfaults = 0
      BY <1>1, <1>5, <2>6
    <3>2. K!FinishAlone'
      BY <2>1, <2>2, <3>1, SparedParts DEF K!FinishAlone, K!Finishing
    <3>3. ASSUME NEW g \in Handlers PROVE K!OwnStands(kjob[g])'
      <4>1. CASE g = h
        BY <2>1, <2>2, <4>1 DEF K!OwnStands
      <4>2. CASE g # h
        <5>1. kjob'[g] = kjob[g] /\ K!OwnStands(kjob[g]) /\ (kjob[g].at # "idle" => kjob[g].i \in K!Ids)
          BY <2>2, <3>1, <4>2, BackupsAny, SparedParts
        <5>2. QED
          BY <1>2, <1>5, <2>3, <5>1 DEF K!OwnStands
      <4>3. QED
        BY <4>1, <4>2
    <3>4. \A i \in K!Ids : krow'[i] = "complete" => K!BytesThere(i)'
      BY <1>1, <1>5, <2>2, <2>3, <3>1, SparedParts DEF K!BytesThere
    <3>5. kept' => \E i \in K!Ids : krow'[i] = "complete" /\ K!LeftAlone(i)'
      BY <1>1, <1>2, <2>1, <2>2, <2>3, <3>1, SparedParts DEF K!LeftAlone
    <3>6. QED
      BY <3>2, <3>3, <3>4, <3>5
  <2>7. K!Spared'
    BY <2>6, SparedWhole
  <2>8. QED
    BY <1>1, <1>3, <1>5, <2>1, <2>4, <2>5, <2>7, BackupsMoved
<1>6. QED
  BY <1>1, <1>2, <1>4, <1>5

(* Complete: the bytes are there; an overlap is noted.                     *)
LEMMA BackupsComplete ==
  ASSUME K!BackupsInv, NEW h \in Handlers, NEW n \in K!Ids, NEW fits \in BOOLEAN, K!Complete(h, n, fits)
  PROVE  K!BackupsInv'
<1>1. PICK next : next = IF fits THEN [at |-> "mark", i |-> n] ELSE [at |-> "remove", old |-> {n}, i |-> n]
  OBVIOUS
<1>2. /\ kjob[h] = K!Idle /\ krow[n] = "pending" /\ kblob' = [kblob EXCEPT ![n] = "object"]
      /\ kjob' = [kjob EXCEPT ![h] = next] /\ UNCHANGED <<krow, made, kept, kfaults>>
      /\ ~kcrossed' => ~kcrossed /\ \A g \in Handlers : ~K!Finishing(g)
  BY <1>1 DEF K!Complete, K!Become, K!Finishing
<1>3. n \in 1..made /\ kjob[h].at = "idle"
  BY <1>2, BackupsAny DEF K!Ids
<1>4. /\ K!JobFits(next)' /\ next.at \in {"mark", "remove"} /\ next.i = n
      /\ next.at = "remove" => next.old = {n}
  BY <1>1, <1>2, <1>3 DEF K!JobFits
<1>stay. made' = made /\ made' \in Nat /\ made <= made' /\ kfaults' = kfaults /\ K!Idle.at = "idle"
  BY <1>2, BackupsAny
<1>5. \A g \in Handlers : kjob'[g] = IF g = h THEN next ELSE kjob[g]
  BY <1>2, <1>4, <1>stay, BackupsJob
<1>6. K!TypeOK' /\ \A i \in K!Ids : kblob'[i] = IF i = n THEN "object" ELSE kblob[i]
  BY <1>2, BackupsAny DEF K!TypeOK
<1>7. K!RowsToCome'
  BY <1>2, <1>3, <1>4, <1>5, <1>stay, RowsStay
<1>8. K!Reclaiming'
  <2>1. ASSUME kfaults' = 0, NEW i \in K!Ids, NEW j \in K!Ids, krow'[i] = "complete", krow'[j] = "complete", i # j
        PROVE  \E g \in Handlers : \/ kjob'[g].at = "list"
                                   \/ kjob'[g].at \in {"remove", "delete"} /\ (i \in kjob'[g].old \/ j \in kjob'[g].old)
    <3>1. PICK g \in Handlers : \/ kjob[g].at = "list"
                                \/ kjob[g].at \in {"remove", "delete"} /\ (i \in kjob[g].old \/ j \in kjob[g].old)
      BY <1>2, <2>1, BackupsAny
    <3>2. g # h
      BY <1>3, <3>1
    <3>3. QED
      BY <1>5, <3>1, <3>2
  <2>2. QED
    BY <2>1, ReclaimingWhole
<1>9. ASSUME ~kcrossed', kfaults' = 0
      PROVE  /\ K!FinishAlone' /\ \A g \in Handlers : K!OwnStands(kjob[g])'
             /\ \A i \in K!Ids : krow'[i] = "complete" => K!BytesThere(i)'
             /\ kept' => \E i \in K!Ids : krow'[i] = "complete" /\ K!LeftAlone(i)'
  <2>1. ~kcrossed /\ kfaults = 0 /\ \A g \in Handlers : ~K!Finishing(g)
    BY <1>2, <1>9
  <2>2. K!FinishAlone'
    BY <1>5, <2>1 DEF K!FinishAlone, K!Finishing
  <2>3. ASSUME NEW g \in Handlers PROVE K!OwnStands(kjob[g])'
    BY <1>2, <1>4, <1>5, <1>6, <2>1 DEF K!OwnStands, K!Finishing
  <2>4. \A i \in K!Ids : krow'[i] = "complete" => K!BytesThere(i)'
    BY <1>2, <1>6, <2>1, SparedParts DEF K!BytesThere, K!Finishing
  <2>5. kept' => \E i \in K!Ids : krow'[i] = "complete" /\ K!LeftAlone(i)'
    BY <1>2, <1>4, <1>5, <2>1, SparedParts DEF K!LeftAlone
  <2>6. QED
    BY <2>2, <2>3, <2>4, <2>5
<1>10. K!Spared'
  BY <1>9, SparedWhole
<1>11. QED
  BY <1>2, <1>4, <1>6, <1>7, <1>8, <1>10, <1>stay, BackupsMoved

(* MarkComplete: the handler is about to list.                             *)
LEMMA BackupsMark ==
  ASSUME K!BackupsInv, NEW h \in Handlers, K!MarkComplete(h)
  PROVE  K!BackupsInv'
<1>1. PICK n \in K!Ids : n = kjob[h].i /\ n <= made
  BY BackupsAny DEF K!MarkComplete
<1>2. PICK next : next = [at |-> "list", i |-> n]
  OBVIOUS
<1>3. /\ kjob[h].at = "mark" /\ krow' = [krow EXCEPT ![n] = "complete"] /\ kept'
      /\ kjob' = [kjob EXCEPT ![h] = next] /\ UNCHANGED <<kblob, made, kcrossed, kfaults>>
  BY <1>1, <1>2 DEF K!MarkComplete, K!Become
<1>4. K!JobFits(next)' /\ next.at = "list" /\ next.i = n
  BY <1>1, <1>2, <1>3, BackupsAny DEF K!JobFits, K!Ids
<1>stay. made' = made /\ made' \in Nat /\ made <= made' /\ kfaults' = kfaults /\ K!Idle.at = "idle"
  BY <1>3, BackupsAny
<1>5. \A g \in Handlers : kjob'[g] = IF g = h THEN next ELSE kjob[g]
  BY <1>3, <1>4, <1>stay, BackupsJob
<1>6. K!TypeOK' /\ \A i \in K!Ids : krow'[i] = IF i = n THEN "complete" ELSE krow[i]
  BY <1>3, BackupsAny DEF K!TypeOK
<1>7. K!RowsToCome'
  BY <1>1, <1>3, <1>4, <1>5, <1>6, <1>stay, RowsStay
<1>8. K!Reclaiming'
  BY <1>4, <1>5, ReclaimingWhole
<1>9. ASSUME ~kcrossed', kfaults' = 0
      PROVE  /\ K!FinishAlone' /\ \A g \in Handlers : K!OwnStands(kjob[g])'
             /\ \A i \in K!Ids : krow'[i] = "complete" => K!BytesThere(i)'
             /\ kept' => \E i \in K!Ids : krow'[i] = "complete" /\ K!LeftAlone(i)'
  <2>1. ~kcrossed /\ kfaults = 0
    BY <1>3, <1>9
  <2>2. \A g \in Handlers : K!Finishing(g) => g = h
    BY <1>3, <2>1, SparedParts DEF K!FinishAlone, K!Finishing
  <2>3. K!FinishAlone'
    BY <1>5, <2>2 DEF K!FinishAlone, K!Finishing
  <2>4. kblob[n] = "object"
    BY <1>1, <1>3, <2>1, SparedParts DEF K!OwnStands
  <2>5. ASSUME NEW g \in Handlers PROVE K!OwnStands(kjob[g])'
    BY <1>3, <1>4, <1>5, <1>6, <2>2, <2>4 DEF K!OwnStands, K!Finishing
  <2>6. \A i \in K!Ids : krow'[i] = "complete" => K!BytesThere(i)'
    BY <1>3, <1>5, <1>6, <2>1, <2>4, SparedParts DEF K!BytesThere
  <2>7. krow'[n] = "complete" /\ K!LeftAlone(n)'
    BY <1>4, <1>5, <1>6, <2>2 DEF K!LeftAlone, K!Finishing
  <2>8. QED
    BY <2>3, <2>5, <2>6, <2>7
<1>10. K!Spared'
  BY <1>9, SparedWhole
<1>11. QED
  BY <1>3, <1>4, <1>6, <1>7, <1>8, <1>10, <1>stay, BackupsMoved

(* ListOld: all complete ones but its own.                                 *)
LEMMA BackupsList ==
  ASSUME K!BackupsInv, NEW h \in Handlers, K!ListOld(h)
  PROVE  K!BackupsInv'
<1>1. PICK n \in K!Ids : n = kjob[h].i /\ n <= made
  BY BackupsAny DEF K!ListOld
<1>2. PICK others : others = K!OldComplete(n)
  OBVIOUS
<1>3. others = {j \in K!Ids : krow[j] = "complete" /\ j # n}
  BY <1>2 DEF K!OldComplete
<1>4. PICK next : next = IF others = {} THEN K!Idle ELSE [at |-> "remove", old |-> others, i |-> n]
  OBVIOUS
<1>5. /\ kjob[h].at = "list" /\ kjob' = [kjob EXCEPT ![h] = next]
      /\ UNCHANGED <<krow, kblob, made, kept, kcrossed, kfaults>>
  BY <1>1, <1>2, <1>4 DEF K!ListOld, K!Become
<1>6. /\ K!JobFits(next)' /\ next.at \in {"idle", "remove"} /\ (next.at = "remove" => next.old = others /\ next.i = n)
      /\ others # {} => next.at = "remove"
  BY <1>1, <1>3, <1>4, <1>5, BackupsAny DEF K!JobFits, K!Idle, K!Ids
<1>stay. made' = made /\ made' \in Nat /\ made <= made' /\ kfaults' = kfaults /\ K!Idle.at = "idle"
  BY <1>5, BackupsAny
<1>7. \A g \in Handlers : kjob'[g] = IF g = h THEN next ELSE kjob[g]
  BY <1>5, <1>6, <1>stay, BackupsJob
<1>8. K!TypeOK'
  BY <1>5, BackupsAny DEF K!TypeOK
<1>9. K!RowsToCome'
  BY <1>1, <1>5, <1>6, <1>7, <1>stay, RowsStay
<1>10. K!Reclaiming'
  <2>1. ASSUME NEW i \in K!Ids, NEW j \in K!Ids, krow'[i] = "complete", krow'[j] = "complete", i # j
        PROVE  kjob'[h].at = "remove" /\ (i \in kjob'[h].old \/ j \in kjob'[h].old)
    BY <1>3, <1>5, <1>6, <1>7, <2>1
  <2>2. QED
    BY <2>1, ReclaimingWhole
<1>11. ASSUME ~kcrossed', kfaults' = 0
       PROVE  /\ K!FinishAlone' /\ \A g \in Handlers : K!OwnStands(kjob[g])'
              /\ \A i \in K!Ids : krow'[i] = "complete" => K!BytesThere(i)'
              /\ kept' => \E i \in K!Ids : krow'[i] = "complete" /\ K!LeftAlone(i)'
  <2>1. ~kcrossed /\ kfaults = 0
    BY <1>5, <1>11
  <2>2. \A g \in Handlers : K!Finishing(g) => g = h
    BY <1>5, <2>1, SparedParts DEF K!FinishAlone, K!Finishing
  <2>3. K!FinishAlone'
    BY <1>7, <2>2 DEF K!FinishAlone, K!Finishing
  <2>4. krow[n] = "complete" /\ kblob[n] = "object"
    BY <1>1, <1>5, <2>1, SparedParts DEF K!OwnStands
  <2>5. ASSUME NEW g \in Handlers PROVE K!OwnStands(kjob[g])'
    BY <1>3, <1>5, <1>6, <1>7, <2>2, <2>4 DEF K!OwnStands, K!Finishing
  <2>6. \A i \in K!Ids : krow'[i] = "complete" => K!BytesThere(i)'
    BY <1>5, <1>7, <2>1, SparedParts DEF K!BytesThere
  <2>7. krow'[n] = "complete" /\ K!LeftAlone(n)'
    BY <1>3, <1>5, <1>6, <1>7, <2>2, <2>4 DEF K!LeftAlone, K!Finishing
  <2>8. QED
    BY <2>3, <2>5, <2>6, <2>7
<1>12. K!Spared'
  BY <1>11, SparedWhole
<1>13. QED
  BY <1>5, <1>6, <1>8, <1>9, <1>10, <1>12, <1>stay, BackupsMoved

(* Remove: the bytes of the oldest go first.                               *)
LEMMA BackupsRemove ==
  ASSUME K!BackupsInv, NEW h \in Handlers, K!Remove(h)
  PROVE  K!BackupsInv'
<1>1. kjob[h].at = "remove" /\ UNCHANGED <<krow, made, kept, kcrossed, kfaults>>
  BY DEF K!Remove
<1>2. PICK n \in K!Ids, others \in SUBSET K!Ids : n = kjob[h].i /\ n <= made /\ others = kjob[h].old /\ others # {}
  BY <1>1, BackupsAny
<1>3. PICK j \in others : j = K!Min(others)
  BY <1>2, OldestAndLatest
<1>4. PICK next : next = [kjob[h] EXCEPT !.at = "delete"]
  OBVIOUS
<1>5. kblob' = [kblob EXCEPT ![j] = "none"] /\ kjob' = [kjob EXCEPT ![h] = next]
  BY <1>2, <1>3, <1>4 DEF K!Remove, K!Become
<1>6. next.at = "delete" /\ next.i = n /\ next.old = others
  BY <1>1, <1>2, <1>4
<1>7. K!JobFits(next)'
  BY <1>1, <1>2, <1>6, BackupsAny DEF K!JobFits, K!Ids
<1>stay. made' = made /\ made' \in Nat /\ made <= made' /\ kfaults' = kfaults /\ K!Idle.at = "idle"
  BY <1>1, BackupsAny
<1>8. \A g \in Handlers : kjob'[g] = IF g = h THEN next ELSE kjob[g]
  BY <1>1, <1>5, <1>7, <1>stay, BackupsJob
<1>9. K!TypeOK' /\ \A i \in K!Ids : kblob'[i] = IF i = j THEN "none" ELSE kblob[i]
  BY <1>1, <1>5, BackupsAny DEF K!TypeOK
<1>10. K!RowsToCome'
  BY <1>1, <1>2, <1>6, <1>8, <1>stay, RowsStay
<1>11. K!Reclaiming'
  BY <1>1, <1>2, <1>6, <1>8, BackupsAny, ReclaimingWhole
<1>12. ASSUME ~kcrossed', kfaults' = 0
       PROVE  /\ K!FinishAlone' /\ \A g \in Handlers : K!OwnStands(kjob[g])'
              /\ \A i \in K!Ids : krow'[i] = "complete" => K!BytesThere(i)'
              /\ kept' => \E i \in K!Ids : krow'[i] = "complete" /\ K!LeftAlone(i)'
  <2>1. ~kcrossed /\ kfaults = 0
    BY <1>1, <1>12
  <2>2. \A g \in Handlers : K!Finishing(g) => g = h
    BY <1>1, <2>1, SparedParts DEF K!FinishAlone, K!Finishing
  <2>3. K!FinishAlone'
    BY <1>8, <2>2 DEF K!FinishAlone, K!Finishing
  <2>4. \/ others = {n} /\ krow[n] = "pending"
        \/ n \notin others /\ krow[n] = "complete" /\ kblob[n] = "object"
    BY <1>1, <1>2, <2>1, SparedParts DEF K!OwnStands
  <2>5. K!OwnStands(next)'
    BY <1>1, <1>6, <1>9, <2>4 DEF K!OwnStands
  <2>6. ASSUME NEW g \in Handlers PROVE K!OwnStands(kjob[g])'
    BY <1>8, <2>2, <2>5 DEF K!OwnStands, K!Finishing
  <2>7. ASSUME NEW i \in K!Ids, krow'[i] = "complete" PROVE K!BytesThere(i)'
    <3>1. CASE i = j
      BY <1>3, <1>6, <1>8, <3>1 DEF K!BytesThere
    <3>2. CASE i # j
      <4>1. K!BytesThere(i)
        BY <1>1, <2>1, <2>7, SparedParts
      <4>2. kblob[i] = "object"
        BY <1>1, <2>2, <4>1 DEF K!BytesThere, K!Finishing
      <4>3. QED
        BY <1>9, <3>2, <4>2 DEF K!BytesThere
    <3>3. QED
      BY <3>1, <3>2
  <2>8. kept' => \E i \in K!Ids : krow'[i] = "complete" /\ K!LeftAlone(i)'
    BY <1>1, <1>2, <1>6, <1>8, <2>1, SparedParts DEF K!LeftAlone
  <2>9. QED
    BY <2>3, <2>6, <2>7, <2>8
<1>13. K!Spared'
  BY <1>12, SparedWhole
<1>14. QED
  BY <1>1, <1>5, <1>7, <1>9, <1>10, <1>11, <1>13, <1>stay, BackupsMoved

(* Delete: the row of the oldest follows.                                  *)
LEMMA BackupsDelete ==
  ASSUME K!BackupsInv, NEW h \in Handlers, K!Delete(h)
  PROVE  K!BackupsInv'
<1>1. kjob[h].at = "delete" /\ UNCHANGED <<kblob, made, kept, kcrossed, kfaults>>
  BY DEF K!Delete
<1>2. PICK n \in K!Ids, others \in SUBSET K!Ids : n = kjob[h].i /\ n <= made /\ others = kjob[h].old /\ others # {}
  BY <1>1, BackupsAny
<1>3. PICK j \in others : j = K!Min(others)
  BY <1>2, OldestAndLatest
<1>4. PICK next : next = IF others = {j} THEN K!Idle ELSE [kjob[h] EXCEPT !.at = "remove", !.old = others \ {j}]
  OBVIOUS
<1>5. krow' = [krow EXCEPT ![j] = "none"] /\ kjob' = [kjob EXCEPT ![h] = next]
  BY <1>2, <1>3, <1>4 DEF K!Delete, K!Become
<1>6. /\ others = {j} => next = K!Idle /\ next.at = "idle"
      /\ others # {j} => next.at = "remove" /\ next.i = n /\ next.old = others \ {j}
  BY <1>1, <1>2, <1>4 DEF K!Idle
<1>7. K!JobFits(next)'
  BY <1>1, <1>2, <1>6, BackupsAny DEF K!JobFits, K!Ids
<1>stay. made' = made /\ made' \in Nat /\ made <= made' /\ kfaults' = kfaults /\ K!Idle.at = "idle"
  BY <1>1, BackupsAny
<1>8. \A g \in Handlers : kjob'[g] = IF g = h THEN next ELSE kjob[g]
  BY <1>1, <1>5, <1>7, <1>stay, BackupsJob
<1>9. K!TypeOK' /\ \A i \in K!Ids : krow'[i] = IF i = j THEN "none" ELSE krow[i]
  BY <1>1, <1>5, BackupsAny DEF K!TypeOK
<1>10. K!RowsToCome'
  BY <1>1, <1>2, <1>6, <1>8, <1>9, <1>stay, RowsStay
<1>11. K!Reclaiming'
  <2>1. ASSUME kfaults' = 0, NEW a \in K!Ids, NEW b \in K!Ids, krow'[a] = "complete", krow'[b] = "complete", a # b
        PROVE  \E g \in Handlers : \/ kjob'[g].at = "list"
                                   \/ kjob'[g].at \in {"remove", "delete"} /\ (a \in kjob'[g].old \/ b \in kjob'[g].old)
    <3>1. a # j /\ b # j /\ krow[a] = "complete" /\ krow[b] = "complete" /\ kfaults = 0
      BY <1>1, <1>9, <2>1
    <3>2. PICK g \in Handlers : \/ kjob[g].at = "list"
                                \/ kjob[g].at \in {"remove", "delete"} /\ (a \in kjob[g].old \/ b \in kjob[g].old)
      BY <2>1, <3>1, BackupsAny
    <3>3. CASE g = h
      BY <1>1, <1>2, <1>6, <1>8, <3>1, <3>2, <3>3
    <3>4. CASE g # h
      BY <1>8, <3>2, <3>4
    <3>5. QED
      BY <3>3, <3>4
  <2>2. QED
    BY <2>1, ReclaimingWhole
<1>12. ASSUME ~kcrossed', kfaults' = 0
       PROVE  /\ K!FinishAlone' /\ \A g \in Handlers : K!OwnStands(kjob[g])'
              /\ \A i \in K!Ids : krow'[i] = "complete" => K!BytesThere(i)'
              /\ kept' => \E i \in K!Ids : krow'[i] = "complete" /\ K!LeftAlone(i)'
  <2>1. ~kcrossed /\ kfaults = 0
    BY <1>1, <1>12
  <2>2. \A g \in Handlers : K!Finishing(g) => g = h
    BY <1>1, <2>1, SparedParts DEF K!FinishAlone, K!Finishing
  <2>3. K!FinishAlone'
    BY <1>8, <2>2 DEF K!FinishAlone, K!Finishing
  <2>4. \/ others = {n} /\ krow[n] = "pending"
        \/ n \notin others /\ krow[n] = "complete" /\ kblob[n] = "object"
    BY <1>1, <1>2, <2>1, SparedParts DEF K!OwnStands
  <2>5. K!OwnStands(next)'
    BY <1>1, <1>6, <1>9, <2>4 DEF K!OwnStands
  <2>6. ASSUME NEW g \in Handlers PROVE K!OwnStands(kjob[g])'
    BY <1>8, <2>2, <2>5 DEF K!OwnStands, K!Finishing
  <2>7. ASSUME NEW i \in K!Ids, krow'[i] = "complete" PROVE K!BytesThere(i)'
    <3>1. i # j /\ K!BytesThere(i)
      BY <1>9, <2>1, <2>7, SparedParts
    <3>2. kblob[i] = "object"
      BY <1>1, <1>2, <1>3, <2>2, <3>1 DEF K!BytesThere, K!Finishing
    <3>3. QED
      BY <1>1, <3>2 DEF K!BytesThere
  <2>8. kept' => \E i \in K!Ids : krow'[i] = "complete" /\ K!LeftAlone(i)'
    <3>1. SUFFICES ASSUME kept' PROVE \E i \in K!Ids : krow'[i] = "complete" /\ K!LeftAlone(i)'
      OBVIOUS
    <3>2. PICK i \in K!Ids : krow[i] = "complete" /\ K!LeftAlone(i)
      BY <1>1, <2>1, <3>1, SparedParts
    <3>3. i \notin others
      BY <1>1, <1>2, <3>2 DEF K!LeftAlone
    <3>4. krow'[i] = "complete"
      BY <1>9, <3>2, <3>3
    <3>5. K!LeftAlone(i)'
      BY <1>6, <1>8, <3>2, <3>3 DEF K!LeftAlone
    <3>6. QED
      BY <3>4, <3>5
  <2>9. QED
    BY <2>3, <2>6, <2>7, <2>8
<1>13. K!Spared'
  BY <1>12, SparedWhole
<1>14. QED
  BY <1>1, <1>5, <1>7, <1>9, <1>10, <1>11, <1>13, <1>stay, BackupsMoved

LEMMA BackupsAbandon ==
  ASSUME K!BackupsInv, NEW h \in Handlers, K!Abandon(h)
  PROVE  K!BackupsInv'
<1>1. /\ kjob' = [kjob EXCEPT ![h] = K!Idle] /\ kfaults' = kfaults + 1
      /\ UNCHANGED <<krow, kblob, made>>
  BY DEF K!Abandon, K!Become
<1>2. K!TypeOK'
  BY <1>1, BackupsAny DEF K!TypeOK
<1>3. QED
  BY <1>1, <1>2, BackupsFault

LEMMA BackupsStep ==
  ASSUME K!BackupsInv, [K!Next]_KVars
  PROVE  K!BackupsInv'
<1>1. CASE UNCHANGED KVars
  <2>1. UNCHANGED <<krow, kblob, made, kjob, kept, kcrossed, kfaults>>
    BY <1>1 DEF KVars
  <2>2. K!TypeOK' /\ K!RowsToCome' /\ \A h \in Handlers : K!JobFits(kjob[h])'
    BY <2>1, BackupsParts DEF K!TypeOK, K!RowsToCome, K!JobFits
  <2>3. K!Reclaiming' /\ K!Spared'
    BY <2>1, BackupsParts DEF K!Reclaiming, K!Spared, K!Completes, K!FinishAlone, K!Finishing, K!OwnStands,
          K!BytesThere, K!LeftAlone
  <2>4. QED
    BY <2>1, <2>2, <2>3, BackupsParts, BackupsWhole
<1>2. QED
  BY <1>1, BackupsCreate, BackupsPending, BackupsComplete, BackupsMark, BackupsList, BackupsRemove,
     BackupsDelete, BackupsAbandon DEF K!Next

-----------------------------------------------------------------------------
(* Push dispatch.                                                          *)

\* The parts of the invariant.
LEMMA PushParts ==
  ASSUME U!PushInv
  PROVE  /\ push \in [Users -> [state : {"none", "queued", "out", "done", "parked", "given_up"},
                                deliveries : 0..U!MaxDeliver]]
         /\ utoken \in [Users -> {"good", "bad", "deleted"}]
         /\ breaker \in [Handlers -> [state : {"closed", "open", "half"}, failures : 0..Threshold,
                                      cooled : BOOLEAN]]
         /\ \A m \in Users : push[m].state = "given_up" => m \in blocked \/ ufaults > 0
         /\ \A p \in Handlers : breaker[p].state = "half" /\ ujob[p].at # "send" => p \in wedger
         /\ ujob = [p \in Handlers |-> ujob[p]] /\ \A p \in Handlers : U!JobFits(ujob[p])
         /\ U!HeldOnce /\ ufaults \in Nat
  BY DEF U!PushInv, U!PushSound, U!TypeOK, U!DropNeedsBreaker, U!WedgeNeedsDeadToken

LEMMA PushWhole ==
  ASSUME push' \in [Users -> [state : {"none", "queued", "out", "done", "parked", "given_up"},
                              deliveries : 0..U!MaxDeliver]],
         utoken' \in [Users -> {"good", "bad", "deleted"}],
         breaker' \in [Handlers -> [state : {"closed", "open", "half"}, failures : 0..Threshold,
                                    cooled : BOOLEAN]],
         \A m \in Users : push'[m].state = "given_up" => m \in blocked' \/ ufaults' > 0,
         \A p \in Handlers : breaker'[p].state = "half" /\ ujob'[p].at # "send" => p \in wedger',
         (ujob = [p \in Handlers |-> ujob[p]])', \A p \in Handlers : U!JobFits(ujob[p])',
         U!HeldOnce', ufaults' \in Nat
  PROVE  U!PushInv'
  BY DEF U!PushInv, U!PushSound, U!TypeOK, U!DropNeedsBreaker, U!WedgeNeedsDeadToken

LEMMA PushInit == U!Init => U!PushInv
<1> SUFFICES ASSUME U!Init PROVE U!PushInv
  OBVIOUS
<1>1. PICK fresh : fresh = [state |-> "none", deliveries |-> 0]
  OBVIOUS
<1>2. fresh \in [state : {"none", "queued", "out", "done", "parked", "given_up"}, deliveries : 0..U!MaxDeliver]
  BY <1>1, PushConstants DEF U!MaxDeliver
<1>3. U!Closed \in [state : {"closed", "open", "half"}, failures : 0..Threshold, cooled : BOOLEAN]
  BY PushConstants DEF U!Closed
<1>4. push = [m \in Users |-> fresh] /\ fresh.state = "none" /\ U!Closed.state = "closed"
  BY <1>1 DEF U!Init, U!Closed
<1>5. U!TypeOK
  BY <1>2, <1>3, <1>4 DEF U!Init, U!TypeOK
<1>6. \A p \in Handlers : ujob[p].at = "idle"
  BY DEF U!Init, U!Idle
<1>7. ujob = [p \in Handlers |-> ujob[p]] /\ \A p \in Handlers : U!JobFits(ujob[p])
  BY <1>6 DEF U!Init, U!JobFits
<1>8. U!HeldOnce /\ ufaults \in Nat
  BY <1>6 DEF U!HeldOnce, U!Init
<1>9. U!DropNeedsBreaker /\ U!WedgeNeedsDeadToken
  BY <1>4 DEF U!Init, U!DropNeedsBreaker, U!WedgeNeedsDeadToken
<1>10. QED
  BY <1>5, <1>7, <1>8, <1>9 DEF U!PushInv, U!PushSound

\* A pod goes on to `next': the others stay.
LEMMA PushJob ==
  ASSUME U!PushInv, NEW p \in Handlers, NEW next, U!JobFits(next), ujob' = [ujob EXCEPT ![p] = next]
  PROVE  /\ (ujob = [q \in Handlers |-> ujob[q]])' /\ \A q \in Handlers : U!JobFits(ujob[q])'
         /\ \A q \in Handlers : ujob'[q] = IF q = p THEN next ELSE ujob[q]
<1>1. /\ ujob' = [q \in Handlers |-> ujob'[q]]
      /\ \A q \in Handlers : ujob'[q] = IF q = p THEN next ELSE ujob[q]
  BY PushParts
<1>2. ASSUME NEW q \in Handlers PROVE U!JobFits(ujob[q])'
  BY <1>1, PushParts DEF U!JobFits
<1>3. QED
  BY <1>1, <1>2

\* The stream changes a message that no pod has, as far as the pods know.
LEMMA PushStream ==
  ASSUME U!PushInv, NEW m \in Users, NEW r,
         r \in [state : {"none", "queued", "out", "done", "parked", "given_up"}, deliveries : 0..U!MaxDeliver],
         push' = [push EXCEPT ![m] = r], r.state # "given_up",
         UNCHANGED <<utoken, breaker, ujob, blocked, wedger>>, ufaults' \in Nat,
         \/ ufaults' = ufaults + 1
         \/ ufaults' = ufaults /\ push[m].state # "out"
  PROVE  U!PushInv'
<1>1. /\ push' \in [Users -> [state : {"none", "queued", "out", "done", "parked", "given_up"},
                              deliveries : 0..U!MaxDeliver]]
      /\ \A k \in Users : push'[k] = IF k = m THEN r ELSE push[k]
  BY PushParts
<1>2. \A k \in Users : push'[k].state = "given_up" => k \in blocked' \/ ufaults' > 0
  BY <1>1, PushParts
<1>3. \A q \in Handlers : U!JobFits(ujob[q])'
  BY PushParts DEF U!JobFits
<1>4. U!HeldOnce'
  <2>1. CASE ufaults' = ufaults + 1
    BY <2>1, PushParts DEF U!HeldOnce
  <2>2. CASE ufaults' = ufaults /\ push[m].state # "out"
    <3>1. \A q \in Handlers : ujob[q].at # "idle" => ujob[q].m \in Users
      BY PushParts DEF U!JobFits
    <3>2. QED
      BY <1>1, <2>2, <3>1, PushParts DEF U!HeldOnce
  <2>3. QED
    BY <2>1, <2>2
<1>5. QED
  BY <1>1, <1>2, <1>3, <1>4, PushParts, PushWhole

(* Dispatch and AckWait.                                                   *)
LEMMA PushQueue ==
  ASSUME U!PushInv, NEW m \in Users, U!Dispatch(m) \/ U!AckWait(m)
  PROVE  U!PushInv'
<1>1. PICK r : r = [state |-> "queued", deliveries |-> push[m].deliveries]
  OBVIOUS
<1>2. push[m] \in [state : {"none", "queued", "out", "done", "parked", "given_up"}, deliveries : 0..U!MaxDeliver]
  BY PushParts
<1>3. /\ r \in [state : {"none", "queued", "out", "done", "parked", "given_up"}, deliveries : 0..U!MaxDeliver]
      /\ r.state = "queued" /\ r = [push[m] EXCEPT !.state = "queued"]
  BY <1>1, <1>2
<1>4. /\ push' = [push EXCEPT ![m] = r] /\ UNCHANGED <<utoken, breaker, ujob, blocked, wedger>>
      /\ ufaults' = ufaults + 1 \/ (ufaults' = ufaults /\ push[m].state # "out")
  BY <1>3, PushParts DEF U!Dispatch, U!AckWait, U!Fault
<1>5. ufaults' \in Nat
  BY <1>4, PushParts
<1>6. QED
  BY <1>3, <1>4, <1>5, PushStream

(* Deliver: nobody has a message that is queued.                           *)
LEMMA PushDeliver ==
  ASSUME U!PushInv, NEW p \in Handlers, NEW m \in Users, U!Deliver(p, m)
  PROVE  U!PushInv'
<1>1. PICK count : count = push[m].deliveries + 1
  OBVIOUS
<1>2. PICK next, r : next = [at |-> "resolve", m |-> m, n |-> count] /\ r = [state |-> "out", deliveries |-> count]
  OBVIOUS
<1>3. /\ ujob[p] = U!Idle /\ push[m].state = "queued" /\ push[m].deliveries < U!MaxDeliver
      /\ push' = [push EXCEPT ![m] = r] /\ ujob' = [ujob EXCEPT ![p] = next]
      /\ UNCHANGED <<utoken, breaker, blocked, wedger, ufaults>>
  BY <1>1, <1>2 DEF U!Deliver, U!Become
<1>4. count \in 1..U!MaxDeliver /\ count \in 0..U!MaxDeliver
  BY <1>1, <1>3, PushParts, PushConstants DEF U!MaxDeliver
<1>5. /\ r \in [state : {"none", "queued", "out", "done", "parked", "given_up"}, deliveries : 0..U!MaxDeliver]
      /\ r.state = "out" /\ r.deliveries = count
  BY <1>2, <1>4
<1>6. U!JobFits(next) /\ next.at = "resolve" /\ next.m = m /\ next.n = count
  BY <1>2, <1>4 DEF U!JobFits
<1>7. /\ push' \in [Users -> [state : {"none", "queued", "out", "done", "parked", "given_up"},
                              deliveries : 0..U!MaxDeliver]]
      /\ \A k \in Users : push'[k] = IF k = m THEN r ELSE push[k]
  BY <1>3, <1>5, PushParts
<1>8. \A q \in Handlers : ujob'[q] = IF q = p THEN next ELSE ujob[q]
  BY <1>3, <1>6, PushJob
<1>9. \A q \in Handlers : ujob[q].at # "idle" => ujob[q].m \in Users
  BY PushParts DEF U!JobFits
<1>10. U!HeldOnce'
  <2>1. SUFFICES ASSUME ufaults' = 0, NEW q \in Handlers, ujob'[q].at # "idle"
        PROVE  /\ push'[ujob'[q].m].state = "out"
               /\ \A g \in Handlers : ujob'[g].at # "idle" /\ ujob'[g].m = ujob'[q].m => g = q
               /\ ujob'[q].at \in {"resolve", "allow", "send"} => ujob'[q].n = push'[ujob'[q].m].deliveries
               /\ ujob'[q].at = "nack" => ujob'[q].m \in blocked' \/ push'[ujob'[q].m].deliveries < U!MaxDeliver
    BY DEF U!HeldOnce
  <2>2. \A g \in Handlers : ujob[g].at # "idle" => ujob[g].m # m
    BY <1>3, <2>1, PushParts DEF U!HeldOnce
  <2>3. CASE q = p
    BY <1>5, <1>6, <1>7, <1>8, <2>2, <2>3
  <2>4. CASE q # p
    <3>1. ujob'[q] = ujob[q] /\ ujob[q].m \in Users /\ ujob[q].m # m /\ push'[ujob[q].m] = push[ujob[q].m]
      BY <1>7, <1>8, <1>9, <2>1, <2>2, <2>4
    <3>2. /\ push[ujob[q].m].state = "out"
          /\ \A g \in Handlers : ujob[g].at # "idle" /\ ujob[g].m = ujob[q].m => g = q
          /\ ujob[q].at \in {"resolve", "allow", "send"} => ujob[q].n = push[ujob[q].m].deliveries
          /\ ujob[q].at = "nack" => ujob[q].m \in blocked \/ push[ujob[q].m].deliveries < U!MaxDeliver
      BY <1>3, <2>1, <3>1, PushParts DEF U!HeldOnce
    <3>3. \A g \in Handlers : ujob'[g].at # "idle" /\ ujob'[g].m = ujob'[q].m => g = q
      BY <1>6, <1>8, <3>1, <3>2
    <3>4. QED
      BY <1>3, <3>1, <3>2, <3>3
  <2>5. QED
    BY <2>3, <2>4
<1>11. \A k \in Users : push'[k].state = "given_up" => k \in blocked' \/ ufaults' > 0
  BY <1>3, <1>5, <1>7, PushParts
<1>12. \A q \in Handlers : breaker'[q].state = "half" /\ ujob'[q].at # "send" => q \in wedger'
  BY <1>3, <1>6, <1>8, PushParts DEF U!Idle
<1>13. QED
  BY <1>3, <1>6, <1>7, <1>10, <1>11, <1>12, PushJob, PushParts, PushWhole

\* A pod goes on with the message it has.
LEMMA PushMove ==
  ASSUME U!PushInv, NEW p \in Handlers, NEW next, U!JobFits(next), ujob' = [ujob EXCEPT ![p] = next],
         ujob[p].at # "idle", next.at # "idle", next.m = ujob[p].m,
         next.at \in {"resolve", "allow", "send"} => ujob[p].at \in {"resolve", "allow", "send"} /\ next.n = ujob[p].n,
         push' = push, utoken' \in [Users -> {"good", "bad", "deleted"}],
         NEW b, b \in [state : {"closed", "open", "half"}, failures : 0..Threshold, cooled : BOOLEAN],
         breaker' = [breaker EXCEPT ![p] = b],
         b.state = "half" /\ next.at # "send" => p \in wedger',
         blocked \subseteq blocked', wedger \subseteq wedger',
         ufaults' \in Nat, ufaults' \in {ufaults, ufaults + 1},
         \/ ufaults' > 0 \/ next.at # "nack" \/ next.m \in blocked'
         \/ ujob[p].at \in {"resolve", "allow", "send"} /\ ujob[p].n < U!MaxDeliver
  PROVE  U!PushInv'
<1>1. \A q \in Handlers : ujob'[q] = IF q = p THEN next ELSE ujob[q]
  BY PushJob
<1>2. /\ breaker' \in [Handlers -> [state : {"closed", "open", "half"}, failures : 0..Threshold,
                                    cooled : BOOLEAN]]
      /\ \A q \in Handlers : breaker'[q] = IF q = p THEN b ELSE breaker[q]
  BY PushParts
<1>3. \A q \in Handlers : breaker'[q].state = "half" /\ ujob'[q].at # "send" => q \in wedger'
  BY <1>1, <1>2, PushParts
<1>4. \A k \in Users : push'[k].state = "given_up" => k \in blocked' \/ ufaults' > 0
  BY PushParts
<1>5. U!HeldOnce'
  <2>1. SUFFICES ASSUME ufaults' = 0, NEW q \in Handlers, ujob'[q].at # "idle"
        PROVE  /\ push'[ujob'[q].m].state = "out"
               /\ \A g \in Handlers : ujob'[g].at # "idle" /\ ujob'[g].m = ujob'[q].m => g = q
               /\ ujob'[q].at \in {"resolve", "allow", "send"} => ujob'[q].n = push'[ujob'[q].m].deliveries
               /\ ujob'[q].at = "nack" => ujob'[q].m \in blocked' \/ push'[ujob'[q].m].deliveries < U!MaxDeliver
    BY DEF U!HeldOnce
  <2>2. ufaults = 0
    BY <2>1, PushParts
  <2>3. \A g \in Handlers : (ujob'[g].at # "idle" <=> ujob[g].at # "idle") /\ ujob'[g].m = ujob[g].m
    BY <1>1
  <2>4. /\ push[ujob[q].m].state = "out"
        /\ \A g \in Handlers : ujob[g].at # "idle" /\ ujob[g].m = ujob[q].m => g = q
        /\ ujob[q].at \in {"resolve", "allow", "send"} => ujob[q].n = push[ujob[q].m].deliveries
        /\ ujob[q].at = "nack" => ujob[q].m \in blocked \/ push[ujob[q].m].deliveries < U!MaxDeliver
    BY <2>1, <2>2, <2>3, PushParts DEF U!HeldOnce
  <2>5. CASE q = p
    BY <1>1, <2>1, <2>3, <2>4, <2>5
  <2>6. CASE q # p
    BY <1>1, <2>1, <2>3, <2>4, <2>6
  <2>7. QED
    BY <2>5, <2>6
<1>6. QED
  BY <1>2, <1>3, <1>4, <1>5, PushJob, PushParts, PushWhole

\* What a dispatch that failed leads to.
LEMMA RetryLeads ==
  ASSUME NEW n \in 1..U!MaxDeliver
  PROVE  U!RetryOrDead(n) \in {"dead", "nack"} /\ (U!RetryOrDead(n) = "nack" => n < U!MaxDeliver)
  BY PushConstants DEF U!RetryOrDead, U!MaxDeliver

(* Resolve, Allow and Send.                                                *)
LEMMA PushHandle ==
  ASSUME U!PushInv, NEW p \in Handlers, U!Resolve(p) \/ U!Allow(p) \/ U!Send(p)
  PROVE  U!PushInv'
<1>0. /\ U!JobFits(ujob[p]) /\ ujob[p].at \in {"resolve", "allow", "send"}
      /\ utoken \in [Users -> {"good", "bad", "deleted"}] /\ ufaults \in Nat
      /\ breaker[p] \in [state : {"closed", "open", "half"}, failures : 0..Threshold, cooled : BOOLEAN]
      /\ breaker = [breaker EXCEPT ![p] = breaker[p]]
      /\ breaker[p].state = "half" /\ ujob[p].at # "send" => p \in wedger
  BY PushParts DEF U!Resolve, U!Allow, U!Send
<1>1. PICK m \in Users, n \in 1..U!MaxDeliver : m = ujob[p].m /\ n = ujob[p].n
  BY <1>0 DEF U!JobFits
<1>2. PICK settled : settled = [how \in {"ack", "nack", "dead"} |-> [at |-> how, m |-> m]]
  OBVIOUS
<1>3. ASSUME NEW how \in {"ack", "nack", "dead"}
      PROVE  U!JobFits(settled[how]) /\ settled[how].at = how /\ settled[how].m = m /\ settled[how] = [at |-> how, m |-> m]
  BY <1>2 DEF U!JobFits
<1>4. ASSUME NEW how \in {"ack", "nack", "dead"}, U!Settle(p, how)
      PROVE  ujob' = [ujob EXCEPT ![p] = settled[how]]
  BY <1>1, <1>3, <1>4 DEF U!Settle, U!Become
<1>5. CASE U!Resolve(p)
  <2>1. ujob[p].at = "resolve" /\ UNCHANGED <<push, utoken, breaker, blocked, wedger>>
    BY <1>5 DEF U!Resolve
  <2>2. CASE U!Settle(p, "ack") /\ UNCHANGED ufaults
    BY <1>0, <1>1, <1>3, <1>4, <2>1, <2>2, PushMove
  <2>3. CASE U!Fault /\ U!Settle(p, U!RetryOrDead(ujob[p].n))
    <3>1. PICK how \in {"nack", "dead"} : U!Settle(p, how)
      BY <1>1, <2>3, RetryLeads
    <3>2. ufaults' = ufaults + 1 /\ ufaults' \in Nat /\ ufaults' > 0
      BY <1>0, <2>3 DEF U!Fault
    <3>3. QED
      BY <1>0, <1>1, <1>3, <1>4, <2>1, <3>1, <3>2, PushMove
  <2>4. CASE U!Become(p, [ujob[p] EXCEPT !.at = "allow"]) /\ UNCHANGED ufaults
    <3>1. PICK next : next = [ujob[p] EXCEPT !.at = "allow"]
      OBVIOUS
    <3>2. U!JobFits(next) /\ next.at = "allow" /\ next.m = m /\ next.n = n
      BY <1>0, <1>1, <2>1, <3>1 DEF U!JobFits
    <3>3. ujob' = [ujob EXCEPT ![p] = next]
      BY <2>4, <3>1 DEF U!Become
    <3>4. QED
      BY <1>0, <1>1, <2>1, <2>4, <3>2, <3>3, PushMove
  <2>5. QED
    BY <1>5, <2>2, <2>3, <2>4 DEF U!Resolve
<1>6. CASE U!Allow(p)
  <2>1. ujob[p].at = "allow" /\ UNCHANGED <<push, utoken, wedger, ufaults>>
    BY <1>6 DEF U!Allow
  <2>2. CASE /\ U!Become(p, [ujob[p] EXCEPT !.at = "send"])
             /\ breaker' = [breaker EXCEPT ![p].state = IF breaker[p].state = "open" THEN "half" ELSE @]
             /\ UNCHANGED blocked
    <3>1. PICK next, b : /\ next = [ujob[p] EXCEPT !.at = "send"]
                         /\ b = [state |-> IF breaker[p].state = "open" THEN "half" ELSE breaker[p].state,
                                 failures |-> breaker[p].failures, cooled |-> breaker[p].cooled]
      OBVIOUS
    <3>2. U!JobFits(next) /\ next.at = "send" /\ next.m = m /\ next.n = n
      BY <1>0, <1>1, <2>1, <3>1 DEF U!JobFits
    <3>3. /\ b \in [state : {"closed", "open", "half"}, failures : 0..Threshold, cooled : BOOLEAN]
          /\ b = [breaker[p] EXCEPT !.state = IF breaker[p].state = "open" THEN "half" ELSE @]
      BY <1>0, <3>1
    <3>4. ujob' = [ujob EXCEPT ![p] = next] /\ breaker' = [breaker EXCEPT ![p] = b]
      BY <2>2, <3>1, <3>3 DEF U!Become
    <3>5. /\ ujob[p].at # "idle" /\ next.at # "idle" /\ next.m = ujob[p].m /\ next.n = ujob[p].n
          /\ utoken' \in [Users -> {"good", "bad", "deleted"}] /\ blocked \subseteq blocked'
          /\ wedger \subseteq wedger' /\ ufaults' = ufaults /\ ufaults' \in Nat /\ push' = push
      BY <1>0, <1>1, <2>1, <2>2, <3>2
    <3>6. QED
      BY <1>0, <3>2, <3>3, <3>4, <3>5, PushMove
  <2>3. CASE U!Settle(p, "nack") /\ blocked' = blocked \cup {ujob[p].m} /\ UNCHANGED breaker
    BY <1>0, <1>1, <1>3, <1>4, <2>1, <2>3, PushMove
  <2>4. QED
    BY <1>6, <2>2, <2>3 DEF U!Allow
<1>7. CASE U!Send(p)
  <2>1. ujob[p].at = "send" /\ UNCHANGED <<push, blocked, ufaults>>
    BY <1>7 DEF U!Send
  <2>2. CASE /\ breaker' = [breaker EXCEPT ![p] = U!Closed] /\ U!Settle(p, "ack") /\ UNCHANGED <<utoken, wedger>>
    <3>1. /\ U!Closed \in [state : {"closed", "open", "half"}, failures : 0..Threshold, cooled : BOOLEAN]
          /\ U!Closed.state = "closed"
      BY PushConstants DEF U!Closed
    <3>2. QED
      BY <1>0, <1>1, <1>3, <1>4, <2>1, <2>2, <3>1, PushMove
  <2>3. CASE /\ utoken' = [utoken EXCEPT ![m] = "deleted"]
             /\ wedger' = IF breaker[p].state = "half" THEN wedger \cup {p} ELSE wedger
             /\ U!Settle(p, "ack") /\ UNCHANGED breaker
    <3>1. utoken' \in [Users -> {"good", "bad", "deleted"}]
      BY <1>0, <2>3
    <3>2. wedger \subseteq wedger' /\ (breaker[p].state = "half" => p \in wedger')
      BY <2>3
    <3>3. QED
      BY <1>0, <1>1, <1>3, <1>4, <2>1, <2>3, <3>1, <3>2, PushMove
  <2>4. CASE /\ breaker' = [breaker EXCEPT ![p] = U!Recorded(@)] /\ U!Settle(p, U!RetryOrDead(ujob[p].n))
             /\ UNCHANGED <<utoken, wedger>>
    <3>1. PICK b : b = U!Recorded(breaker[p])
      OBVIOUS
    <3>2. /\ b \in [state : {"closed", "open", "half"}, failures : 0..Threshold, cooled : BOOLEAN]
          /\ b.state # "half"
      BY <1>0, <3>1, PushConstants DEF U!Recorded
    <3>3. breaker' = [breaker EXCEPT ![p] = b]
      BY <2>4, <3>1
    <3>4. PICK how \in {"nack", "dead"} : U!Settle(p, how) /\ (how = "nack" => n < U!MaxDeliver)
      BY <1>1, <2>4, RetryLeads
    <3>5. /\ ujob' = [ujob EXCEPT ![p] = settled[how]] /\ U!JobFits(settled[how])
          /\ settled[how].at = how /\ settled[how].m = ujob[p].m
      BY <1>1, <1>3, <1>4, <3>4
    <3>6. /\ ujob[p].at # "idle" /\ utoken' \in [Users -> {"good", "bad", "deleted"}]
          /\ blocked \subseteq blocked' /\ wedger \subseteq wedger' /\ ufaults' = ufaults
          /\ ufaults' \in Nat /\ push' = push
      BY <1>0, <2>1, <2>4
    <3>7. how # "nack" \/ ujob[p].n < U!MaxDeliver
      BY <1>1, <3>4
    <3>8. QED
      BY <1>0, <3>2, <3>3, <3>4, <3>5, <3>6, <3>7, PushMove
  <2>5. QED
    BY <1>1, <1>7, <2>2, <2>3, <2>4 DEF U!Send
<1>8. QED
  BY <1>5, <1>6, <1>7

(* Ack, Nak and Park: the pod is done with the message.                    *)
LEMMA PushSettle ==
  ASSUME U!PushInv, NEW p \in Handlers, U!Ack(p) \/ U!Nak(p) \/ U!Park(p)
  PROVE  U!PushInv'
<1>0. /\ U!JobFits(ujob[p]) /\ ujob[p].at \in {"ack", "nack", "dead"} /\ ufaults \in Nat
      /\ U!JobFits(U!Idle) /\ U!Idle.at = "idle"
      /\ ujob' = [ujob EXCEPT ![p] = U!Idle] /\ UNCHANGED <<utoken, breaker, blocked, wedger>>
  BY PushParts DEF U!Ack, U!Nak, U!Park, U!Become, U!JobFits, U!Idle
<1>1. PICK m \in Users : m = ujob[p].m
  BY <1>0 DEF U!JobFits
<1>2. PICK old : old = push[m]
  OBVIOUS
<1>3. /\ old \in [state : {"none", "queued", "out", "done", "parked", "given_up"}, deliveries : 0..U!MaxDeliver]
      /\ old = [state |-> old.state, deliveries |-> old.deliveries]
  BY <1>2, PushParts
<1>4. \A s \in {"done", "parked", "queued", "given_up"} :
         [old EXCEPT !.state = s] \in [state : {"none", "queued", "out", "done", "parked", "given_up"}, deliveries : 0..U!MaxDeliver]
  BY <1>3
<1>5. /\ U!SentBack(old) \in [state : {"none", "queued", "out", "done", "parked", "given_up"}, deliveries : 0..U!MaxDeliver]
      /\ U!SentBack(old).state = "given_up" => old.state = "given_up" \/ ~(old.deliveries < U!MaxDeliver)
  BY <1>3, <1>4 DEF U!SentBack
<1>6. PICK r \in [state : {"none", "queued", "out", "done", "parked", "given_up"}, deliveries : 0..U!MaxDeliver] :
         /\ push' = [push EXCEPT ![m] = r] /\ ufaults' \in {ufaults, ufaults + 1}
         /\ r.state = "given_up" => \/ old.state = "given_up" \/ ufaults' = ufaults + 1
                                    \/ ujob[p].at = "nack" /\ ~(old.deliveries < U!MaxDeliver)
  <2>1. CASE U!Ack(p)
    <3>1. PICK r : r = [old EXCEPT !.state = "done"]
      OBVIOUS
    <3>2. push' = [push EXCEPT ![m] = r] /\ ufaults' = ufaults /\ r.state = "done"
      BY <1>1, <1>2, <1>3, <2>1, <3>1 DEF U!Ack
    <3>3. QED
      BY <1>4, <3>1, <3>2
  <2>2. CASE U!Nak(p)
    <3>1. push' = [push EXCEPT ![m] = U!SentBack(old)] /\ ufaults' = ufaults /\ ujob[p].at = "nack"
      BY <1>1, <1>2, <2>2 DEF U!Nak
    <3>2. QED
      BY <1>5, <3>1
  <2>3. CASE U!Park(p) /\ push' = [push EXCEPT ![ujob[p].m].state = "parked"] /\ UNCHANGED ufaults
    <3>1. PICK r : r = [old EXCEPT !.state = "parked"]
      OBVIOUS
    <3>2. push' = [push EXCEPT ![m] = r] /\ r.state = "parked"
      BY <1>1, <1>2, <1>3, <2>3, <3>1
    <3>3. QED
      BY <1>4, <2>3, <3>1, <3>2
  <2>4. CASE U!Park(p) /\ U!Fault /\ push' = [push EXCEPT ![ujob[p].m] = U!SentBack(@)]
    <3>1. push' = [push EXCEPT ![m] = U!SentBack(old)] /\ ufaults' = ufaults + 1
      BY <1>1, <1>2, <2>4 DEF U!Fault
    <3>2. QED
      BY <1>5, <3>1
  <2>5. QED
    BY <2>1, <2>2, <2>3, <2>4 DEF U!Park
<1>7. /\ push' \in [Users -> [state : {"none", "queued", "out", "done", "parked", "given_up"},
                              deliveries : 0..U!MaxDeliver]]
      /\ \A k \in Users : push'[k] = IF k = m THEN r ELSE push[k]
  BY <1>6, PushParts
<1>8. \A q \in Handlers : ujob'[q] = IF q = p THEN U!Idle ELSE ujob[q]
  BY <1>0, PushJob
<1>9. \A q \in Handlers : breaker'[q].state = "half" /\ ujob'[q].at # "send" => q \in wedger'
  BY <1>0, <1>8, PushParts
<1>10. \A k \in Users : push'[k].state = "given_up" => k \in blocked' \/ ufaults' > 0
  <2>1. SUFFICES ASSUME push'[m].state = "given_up" PROVE m \in blocked \/ ufaults' > 0
    BY <1>0, <1>6, <1>7, PushParts
  <2>2. CASE old.state = "given_up" \/ ufaults' = ufaults + 1
    BY <1>0, <1>2, <1>6, <2>2, PushParts
  <2>3. CASE ujob[p].at = "nack" /\ ~(old.deliveries < U!MaxDeliver)
    BY <1>0, <1>1, <1>2, <1>6, <2>3, PushParts DEF U!HeldOnce
  <2>4. QED
    BY <1>6, <1>7, <2>1, <2>2, <2>3
<1>11. U!HeldOnce'
  <2>1. SUFFICES ASSUME ufaults' = 0, NEW q \in Handlers, ujob'[q].at # "idle"
        PROVE  /\ push'[ujob'[q].m].state = "out"
               /\ \A g \in Handlers : ujob'[g].at # "idle" /\ ujob'[g].m = ujob'[q].m => g = q
               /\ ujob'[q].at \in {"resolve", "allow", "send"} => ujob'[q].n = push'[ujob'[q].m].deliveries
               /\ ujob'[q].at = "nack" => ujob'[q].m \in blocked' \/ push'[ujob'[q].m].deliveries < U!MaxDeliver
    BY DEF U!HeldOnce
  <2>2. ufaults = 0 /\ q # p /\ ujob'[q] = ujob[q]
    BY <1>0, <1>6, <1>8, <2>1
  <2>3. /\ push[ujob[q].m].state = "out"
        /\ \A g \in Handlers : ujob[g].at # "idle" /\ ujob[g].m = ujob[q].m => g = q
        /\ ujob[q].at \in {"resolve", "allow", "send"} => ujob[q].n = push[ujob[q].m].deliveries
        /\ ujob[q].at = "nack" => ujob[q].m \in blocked \/ push[ujob[q].m].deliveries < U!MaxDeliver
    BY <2>1, <2>2, PushParts DEF U!HeldOnce
  <2>4. ujob[q].m \in Users /\ ujob[q].m # m
    BY <1>0, <1>1, <2>1, <2>2, <2>3, PushParts DEF U!JobFits
  <2>5. push'[ujob[q].m] = push[ujob[q].m]
    BY <1>7, <2>4
  <2>6. \A g \in Handlers : ujob'[g].at # "idle" /\ ujob'[g].m = ujob'[q].m => g = q
    BY <1>0, <1>8, <2>2, <2>3
  <2>7. QED
    BY <1>0, <2>2, <2>3, <2>5, <2>6
<1>12. (ujob = [q \in Handlers |-> ujob[q]])' /\ \A q \in Handlers : U!JobFits(ujob[q])'
  BY <1>0, PushJob
<1>13. /\ utoken' \in [Users -> {"good", "bad", "deleted"}] /\ ufaults' \in Nat
       /\ breaker' \in [Handlers -> [state : {"closed", "open", "half"}, failures : 0..Threshold,
                                     cooled : BOOLEAN]]
  BY <1>0, <1>6, PushParts
<1>14. QED
  BY <1>7, <1>9, <1>10, <1>11, <1>12, <1>13, PushWhole

(* CooldownOver and WindowPasses: the breaker alone.                       *)
LEMMA PushBreaker ==
  ASSUME U!PushInv, NEW p \in Handlers, U!CooldownOver(p) \/ U!WindowPasses(p)
  PROVE  U!PushInv'
<1>1. breaker[p] \in [state : {"closed", "open", "half"}, failures : 0..Threshold, cooled : BOOLEAN]
  BY PushParts
<1>2. PICK b : /\ b \in [state : {"closed", "open", "half"}, failures : 0..Threshold, cooled : BOOLEAN]
               /\ b.state # "half" /\ breaker' = [breaker EXCEPT ![p] = b]
  <2>1. CASE U!CooldownOver(p)
    <3>1. PICK b : b = [breaker[p] EXCEPT !.cooled = TRUE]
      OBVIOUS
    <3>2. b \in [state : {"closed", "open", "half"}, failures : 0..Threshold, cooled : BOOLEAN] /\ b.state = "open"
      BY <1>1, <2>1, <3>1 DEF U!CooldownOver
    <3>3. breaker' = [breaker EXCEPT ![p] = b]
      BY <2>1, <3>1 DEF U!CooldownOver
    <3>4. QED
      BY <3>2, <3>3
  <2>2. CASE U!WindowPasses(p)
    <3>1. PICK b : b = [breaker[p] EXCEPT !.failures = 0]
      OBVIOUS
    <3>2. b \in [state : {"closed", "open", "half"}, failures : 0..Threshold, cooled : BOOLEAN] /\ b.state = "closed"
      BY <1>1, <2>2, <3>1, PushConstants DEF U!WindowPasses
    <3>3. breaker' = [breaker EXCEPT ![p] = b]
      BY <2>2, <3>1 DEF U!WindowPasses
    <3>4. QED
      BY <3>2, <3>3
  <2>3. QED
    BY <2>1, <2>2
<1>3. UNCHANGED <<push, utoken, ujob, blocked, wedger, ufaults>>
  BY DEF U!CooldownOver, U!WindowPasses
<1>4. /\ breaker' \in [Handlers -> [state : {"closed", "open", "half"}, failures : 0..Threshold,
                                    cooled : BOOLEAN]]
      /\ \A q \in Handlers : breaker'[q] = IF q = p THEN b ELSE breaker[q]
  BY <1>2, PushParts
<1>5. \A q \in Handlers : breaker'[q].state = "half" /\ ujob'[q].at # "send" => q \in wedger'
  BY <1>2, <1>3, <1>4, PushParts
<1>6. U!HeldOnce' /\ \A q \in Handlers : U!JobFits(ujob[q])'
  BY <1>3, PushParts DEF U!HeldOnce, U!JobFits
<1>7. QED
  BY <1>3, <1>4, <1>5, <1>6, PushParts, PushWhole

LEMMA PushStep ==
  ASSUME U!PushInv, [U!Next]_UVars
  PROVE  U!PushInv'
<1>1. CASE UNCHANGED UVars
  <2>1. U!HeldOnce' /\ \A q \in Handlers : U!JobFits(ujob[q])'
    BY <1>1, PushParts DEF UVars, U!HeldOnce, U!JobFits
  <2>2. QED
    BY <1>1, <2>1, PushParts, PushWhole DEF UVars
<1>2. QED
  BY <1>1, PushQueue, PushDeliver, PushHandle, PushSettle, PushBreaker DEF U!Next

-----------------------------------------------------------------------------
(* Reminders and quiet hours.                                              *)

\* NotifyPrefs has its own copy of FiniteSets.
LEMMA PrefsCardinality == ASSUME NEW X PROVE N!Cardinality(X) = Cardinality(X)
  BY DEF N!Cardinality, Cardinality, N!IsFiniteSet, IsFiniteSet

\* How far one walks from one minute to another.
LEMMA WayRound ==
  ASSUME NEW m \in 0..(Day - 1), NEW n \in 0..(Day - 1)
  PROVE  (m - n) % Day = IF m >= n THEN m - n ELSE m - n + Day
<1>1. Day \in Nat /\ Day > 0 /\ m - n \in Int
  BY PrefsConstants
<1>2. PICK k \in Int, x \in 0..(Day - 1) : m - n = Day * k + x /\ x = (m - n) % Day
  BY <1>1
<1>3. k \in {0, -1}
  BY <1>1, <1>2
<1>4. QED
  BY <1>1, <1>2, <1>3

\* The clauses of the code cover the way from the start to the end.
LEMMA QuietWay ==
  ASSUME NEW q \in [from : N!Minutes \cup {N!Off}, to : N!Minutes \cup {N!Off}], N!Validate(q), NEW m \in N!Minutes
  PROVE  N!InQuietHours(q, m) <=>
           q.from # N!Off /\ (q.from = q.to \/ (m - q.from) % Day < (q.to - q.from) % Day)
<1>1. PICK a, b : a = q.from /\ b = q.to
  OBVIOUS
<1>2. a \in N!Minutes \cup {-1} /\ b \in N!Minutes \cup {-1} /\ (a = -1 <=> b = -1)
  BY <1>1 DEF N!Validate, N!Off
<1>3. CASE a = -1
  BY <1>1, <1>3 DEF N!InQuietHours, N!Off
<1>4. CASE a # -1
  <2>1. a \in 0..(Day - 1) /\ b \in 0..(Day - 1) /\ m \in 0..(Day - 1)
    BY <1>2, <1>4 DEF N!Minutes
  <2>2. /\ (m - a) % Day = IF m >= a THEN m - a ELSE m - a + Day
        /\ (b - a) % Day = IF b >= a THEN b - a ELSE b - a + Day
    BY <2>1, WayRound
  <2>3. (a = b \/ (a < b /\ m >= a /\ m < b) \/ (a > b /\ (m >= a \/ m < b)))
          <=> (a = b \/ (m - a) % Day < (b - a) % Day)
    BY <2>1, <2>2, PrefsConstants
  <2>4. QED
    BY <1>1, <1>4, <2>3 DEF N!InQuietHours, N!Off
<1>5. QED
  BY <1>3, <1>4

\* The parts of the invariant.
LEMMA PrefsParts ==
  ASSUME N!NotifyPrefsInv
  PROVE  /\ reminder \in [Reminders -> {"none", "waiting", "due", "fired", "canceled"}]
         /\ prefs \subseteq [from : N!Minutes \cup {N!Off}, to : N!Minutes \cup {N!Off}]
         /\ N!Cardinality(prefs) <= 1
         /\ N!FiresOnce /\ N!CapHolds
         /\ \A q \in prefs : N!Validate(q)
         /\ fired \in [Reminders -> Nat]
         /\ njob = [h \in Handlers |-> njob[h]] /\ \A h \in Handlers : N!JobFits(njob[h])
         /\ N!CreatesFresh /\ N!ScansAlone
  BY DEF N!NotifyPrefsInv, N!NotifyPrefsSound, N!TypeOK

\* What quiet hours are follows from the rest.
LEMMA PrefsWhole ==
  ASSUME reminder' \in [Reminders -> {"none", "waiting", "due", "fired", "canceled"}],
         prefs' \subseteq [from : N!Minutes \cup {N!Off}, to : N!Minutes \cup {N!Off}],
         N!Cardinality(prefs') <= 1,
         N!FiresOnce', N!CapHolds', \A q \in prefs' : N!Validate(q), fired' \in [Reminders -> Nat],
         (njob = [h \in Handlers |-> njob[h]])', \A h \in Handlers : N!JobFits(njob[h])',
         N!CreatesFresh', N!ScansAlone'
  PROVE  N!NotifyPrefsInv'
<1>1. PICK q : q = N!GetPrefs'
  OBVIOUS
<1>2. q \in [from : N!Minutes \cup {N!Off}, to : N!Minutes \cup {N!Off}] /\ N!Validate(q)
  <2>1. CASE prefs' = {}
    <3>1. q = [from |-> N!Off, to |-> N!Off]
      BY <1>1, <2>1 DEF N!GetPrefs
    <3>2. QED
      BY <3>1 DEF N!Validate
  <2>2. CASE prefs' # {}
    <3>1. q \in prefs'
      BY <1>1, <2>2 DEF N!GetPrefs
    <3>2. QED
      BY <3>1
  <2>3. QED
    BY <2>1, <2>2
<1>3. ASSUME NEW m \in N!Minutes
      PROVE  /\ N!InQuietHours(q, m) <=>
                  q.from # N!Off /\ (q.from = q.to \/ (m - q.from) % Day < (q.to - q.from) % Day)
             /\ N!Route("call", m)' /\ (N!Route("message", m)' => ~snoozed')
  BY <1>2, QuietWay DEF N!Route
<1>4. N!QuietIsTheWayRound'
  BY <1>1, <1>3 DEF N!QuietIsTheWayRound
<1>5. QED
  BY <1>4 DEF N!NotifyPrefsInv, N!NotifyPrefsSound, N!TypeOK

\* Where a reminder is in the list.
LEMMA ListedWhere ==
  /\ N!Listed = {r \in Reminders : reminder[r] \in {"waiting", "due", "fired"}}
  /\ N!Listed' = {r \in Reminders : reminder'[r] \in {"waiting", "due", "fired"}}
  BY DEF N!Listed

\* A shorter list has room if the longer one had.
LEMMA ShorterList ==
  ASSUME NEW X, NEW Z \in SUBSET X, IsFiniteSet(X)
  PROVE  /\ N!Cardinality(X) < Cap => N!Cardinality(Z) < Cap
         /\ N!Cardinality(X) <= Cap => N!Cardinality(Z) <= Cap
<1>1. Cardinality(Z) <= Cardinality(X) /\ IsFiniteSet(Z)
  BY FS_Subset
<1>2. Cardinality(Z) \in Nat /\ Cardinality(X) \in Nat
  BY <1>1, FS_CardinalityType
<1>3. QED
  BY <1>1, <1>2, PrefsCardinality, PrefsConstants

\* One more fits where there was room.
LEMMA OneMoreListed ==
  ASSUME NEW X, NEW r, IsFiniteSet(X), N!Cardinality(X) < Cap
  PROVE  N!Cardinality(X \cup {r}) <= Cap
<1>1. Cardinality(X) \in Nat
  BY FS_CardinalityType
<1>2. Cardinality(X \cup {r}) = IF r \in X THEN Cardinality(X) ELSE Cardinality(X) + 1
  BY FS_AddElement
<1>3. QED
  BY <1>1, <1>2, PrefsCardinality, PrefsConstants

LEMMA ListFinite == IsFiniteSet(N!Listed)
<1>1. N!Listed \in SUBSET Reminders
  BY DEF N!Listed
<1>2. QED
  BY <1>1, PrefsConstants, FS_Subset

LEMMA PrefsInit == N!Init => N!NotifyPrefsInv
<1> SUFFICES ASSUME N!Init PROVE N!NotifyPrefsInv
  OBVIOUS
<1>1. N!Cardinality({}) = 0
  BY FS_EmptySet, PrefsCardinality
<1>2. N!TypeOK /\ fired \in [Reminders -> Nat] /\ \A q \in prefs : N!Validate(q)
  BY <1>1 DEF N!Init, N!TypeOK
<1>3. \A h \in Handlers : njob[h].at = "idle"
  BY DEF N!Init, N!Idle
<1>4. njob = [h \in Handlers |-> njob[h]] /\ \A h \in Handlers : N!JobFits(njob[h])
  BY <1>3 DEF N!Init, N!JobFits
<1>5. N!CreatesFresh /\ N!ScansAlone
  BY <1>3 DEF N!CreatesFresh, N!ScansAlone
<1>6. \A r \in Reminders : reminder[r] = "none" /\ fired[r] = 0
  BY DEF N!Init
<1>7. N!FiresOnce
  BY <1>6 DEF N!FiresOnce
<1>8. N!CapHolds
  <2>1. N!Listed = {}
    BY <1>6 DEF N!Listed
  <2>2. QED
    BY <1>1, <2>1, PrefsConstants DEF N!CapHolds
<1>9. N!QuietIsTheWayRound
  <2>1. PICK q : q = [from |-> N!Off, to |-> N!Off]
    OBVIOUS
  <2>2. N!GetPrefs = q /\ q.from = N!Off
    BY <2>1 DEF N!Init, N!GetPrefs
  <2>3. \A m \in N!Minutes : ~N!InQuietHours(q, m) /\ N!Route("call", m) /\ (N!Route("message", m) => ~snoozed)
    BY <2>2 DEF N!InQuietHours, N!Route
  <2>4. QED
    BY <2>2, <2>3 DEF N!QuietIsTheWayRound
<1>10. QED
  BY <1>2, <1>4, <1>5, <1>7, <1>8, <1>9 DEF N!NotifyPrefsInv, N!NotifyPrefsSound

(* SetPrefs and SetSnooze leave the reminders alone.                       *)
LEMMA PrefsSet ==
  ASSUME N!NotifyPrefsInv,
         \/ \E from, to \in N!Minutes \cup {N!Off} : N!SetPrefs([from |-> from, to |-> to])
         \/ \E on \in BOOLEAN : N!SetSnooze(on)
         \/ UNCHANGED NVars
  PROVE  N!NotifyPrefsInv'
<1>1. UNCHANGED <<reminder, njob, fired, ncrossed, over>>
  BY DEF N!SetPrefs, N!SetSnooze, NVars
<1>2. /\ prefs' \subseteq [from : N!Minutes \cup {N!Off}, to : N!Minutes \cup {N!Off}]
      /\ N!Cardinality(prefs') <= 1 /\ \A q \in prefs' : N!Validate(q)
  <2>1. ASSUME NEW a \in N!Minutes \cup {N!Off}, NEW b \in N!Minutes \cup {N!Off},
               N!SetPrefs([from |-> a, to |-> b])
        PROVE  /\ prefs' \subseteq [from : N!Minutes \cup {N!Off}, to : N!Minutes \cup {N!Off}]
               /\ N!Cardinality(prefs') <= 1 /\ \A q \in prefs' : N!Validate(q)
    <3>1. PICK q : q = [from |-> a, to |-> b]
      OBVIOUS
    <3>2. q \in [from : N!Minutes \cup {N!Off}, to : N!Minutes \cup {N!Off}]
      BY <3>1
    <3>3. prefs' = {q} /\ N!Validate(q)
      BY <2>1, <3>1 DEF N!SetPrefs, N!UpsertPrefs
    <3>4. N!Cardinality({q}) = 1
      BY FS_Singleton, PrefsCardinality
    <3>5. QED
      BY <3>2, <3>3, <3>4
  <2>2. CASE prefs' = prefs
    BY <2>2, PrefsParts
  <2>3. QED
    BY <2>1, <2>2 DEF N!SetSnooze, NVars
<1>3. N!FiresOnce' /\ N!CapHolds' /\ N!CreatesFresh' /\ N!ScansAlone' /\ \A h \in Handlers : N!JobFits(njob[h])'
  BY <1>1, PrefsParts DEF N!FiresOnce, N!CapHolds, N!CreatesFresh, N!ScansAlone, N!JobFits, N!Listed
<1>4. QED
  BY <1>1, <1>2, <1>3, PrefsParts, PrefsWhole

\* A handler goes on to `next': the others stay.
LEMMA PrefsJob ==
  ASSUME N!NotifyPrefsInv, NEW h \in Handlers, NEW next, N!JobFits(next), njob' = [njob EXCEPT ![h] = next]
  PROVE  /\ (njob = [g \in Handlers |-> njob[g]])' /\ \A g \in Handlers : N!JobFits(njob[g])'
         /\ \A g \in Handlers : njob'[g] = IF g = h THEN next ELSE njob[g]
<1>1. /\ njob' = [g \in Handlers |-> njob'[g]]
      /\ \A g \in Handlers : njob'[g] = IF g = h THEN next ELSE njob[g]
  BY PrefsParts
<1>2. ASSUME NEW g \in Handlers PROVE N!JobFits(njob[g])'
  BY <1>1, PrefsParts DEF N!JobFits
<1>3. QED
  BY <1>1, <1>2

(* CancelScheduled and FallsDue.                                           *)
LEMMA PrefsTurn ==
  ASSUME N!NotifyPrefsInv, NEW r \in Reminders, N!CancelScheduled(r) \/ N!FallsDue(r)
  PROVE  N!NotifyPrefsInv'
<1>1. PICK s \in {"due", "canceled"} :
        /\ reminder' = [reminder EXCEPT ![r] = s] /\ UNCHANGED <<prefs, snoozed, njob, fired, over, nfaults>>
        /\ s = "canceled" => /\ reminder[r] \in {"waiting", "due", "fired"}
                             /\ ncrossed' = IF N!Scanning(r) THEN ncrossed \cup {r} ELSE ncrossed
        /\ s = "due" => reminder[r] = "waiting" /\ ncrossed' = ncrossed
  BY DEF N!CancelScheduled, N!FallsDue, N!DeleteScheduled, N!Listed
<1>2. /\ reminder' \in [Reminders -> {"none", "waiting", "due", "fired", "canceled"}]
      /\ \A k \in Reminders : reminder'[k] = IF k = r THEN s ELSE reminder[k]
  BY <1>1, PrefsParts
<1>3. ncrossed \subseteq ncrossed' /\ reminder[r] \in {"waiting", "due", "fired"}
  BY <1>1
<1>4. N!FiresOnce'
  BY <1>1, <1>2, <1>3, PrefsParts DEF N!FiresOnce
<1>5. N!Listed' \in SUBSET N!Listed
  BY <1>2, <1>3, ListedWhere
<1>6. /\ N!Cardinality(N!Listed) < Cap => N!Cardinality(N!Listed') < Cap
      /\ N!Cardinality(N!Listed) <= Cap => N!Cardinality(N!Listed') <= Cap
  BY <1>5, ListFinite, ShorterList
<1>7. N!CapHolds'
  BY <1>1, <1>6, PrefsParts DEF N!CapHolds
<1>8. N!CreatesFresh'
  <2>1. \A h \in Handlers : njob[h].at = "create" => njob[h].r \in Reminders
    BY PrefsParts DEF N!JobFits
  <2>2. QED
    BY <1>1, <1>2, <1>3, <1>6, <2>1, PrefsParts DEF N!CreatesFresh
<1>9. N!ScansAlone'
  <2>1. ASSUME NEW h \in Handlers, NEW k \in Reminders, njob[h].at = "mark", k \in njob[h].due
        PROVE  /\ reminder'[k] \in {"due", "fired", "canceled"}
               /\ k \notin ncrossed' =>
                     /\ reminder'[k] = "due"
                     /\ \A g \in Handlers : njob[g].at = "mark" /\ k \in njob[g].due => g = h
    <3>1. /\ reminder[k] \in {"due", "fired", "canceled"}
          /\ k \notin ncrossed => /\ reminder[k] = "due"
                                  /\ \A g \in Handlers : njob[g].at = "mark" /\ k \in njob[g].due => g = h
      BY <2>1, PrefsParts DEF N!ScansAlone
    <3>2. N!Scanning(k)
      BY <2>1 DEF N!Scanning
    <3>3. QED
      BY <1>1, <1>2, <1>3, <3>1, <3>2
  <2>2. QED
    BY <1>1, <2>1 DEF N!ScansAlone
<1>10. \A h \in Handlers : N!JobFits(njob[h])'
  BY <1>1, PrefsParts DEF N!JobFits
<1>11. QED
  BY <1>1, <1>2, <1>4, <1>7, <1>8, <1>9, <1>10, PrefsParts, PrefsWhole

(* Schedule, FireDue and Abandon: no row changes.                          *)
LEMMA PrefsDecide ==
  ASSUME N!NotifyPrefsInv, NEW h \in Handlers,
         N!FireDue(h) \/ N!Abandon(h) \/ \E r \in Reminders : N!Schedule(h, r)
  PROVE  N!NotifyPrefsInv'
<1>1. UNCHANGED <<reminder, prefs, fired>> /\ N!Listed' = N!Listed
  BY DEF N!FireDue, N!Abandon, N!Schedule, N!Listed
<1>2. ASSUME NEW next, N!JobFits(next), njob' = [njob EXCEPT ![h] = next], N!CreatesFresh', N!ScansAlone',
             ncrossed \subseteq ncrossed', ~over' => ~over
      PROVE  N!NotifyPrefsInv'
  <2>1. N!FiresOnce' /\ N!CapHolds'
    BY <1>1, <1>2, PrefsParts DEF N!FiresOnce, N!CapHolds
  <2>2. QED
    BY <1>1, <1>2, <2>1, PrefsJob, PrefsParts, PrefsWhole
<1>3. CASE N!FireDue(h)
  <2>1. PICK due : due = N!Due
    OBVIOUS
  <2>2. PICK next : next = [at |-> "mark", due |-> due]
    OBVIOUS
  <2>3. /\ njob[h] = N!Idle /\ njob' = [njob EXCEPT ![h] = next] /\ over' = over
        /\ ncrossed' = ncrossed \cup {r \in due : N!Scanning(r)}
    BY <1>3, <2>1, <2>2 DEF N!FireDue, N!Become
  <2>4. due = {r \in Reminders : reminder[r] = "due"}
    BY <2>1 DEF N!Due
  <2>5. N!JobFits(next) /\ next.at = "mark" /\ next.due = due /\ njob[h].at = "idle"
    BY <2>2, <2>3, <2>4 DEF N!JobFits, N!Idle
  <2>6. \A g \in Handlers : njob'[g] = IF g = h THEN next ELSE njob[g]
    BY <2>3, <2>5, PrefsJob
  <2>7. N!CreatesFresh'
    BY <1>1, <2>3, <2>5, <2>6, PrefsParts DEF N!CreatesFresh
  <2>8. N!ScansAlone'
    <3>1. ASSUME NEW g \in Handlers, NEW k \in Reminders, njob'[g].at = "mark", k \in njob'[g].due
          PROVE  /\ reminder[k] \in {"due", "fired", "canceled"}
                 /\ k \notin ncrossed' =>
                      /\ reminder[k] = "due"
                      /\ \A f \in Handlers : njob'[f].at = "mark" /\ k \in njob'[f].due => f = g
      <4>1. CASE g = h
        <5>1. reminder[k] = "due" /\ k \in due
          BY <2>4, <2>5, <2>6, <3>1, <4>1
        <5>2. ASSUME k \notin ncrossed', NEW f \in Handlers, njob'[f].at = "mark", k \in njob'[f].due
              PROVE  f = h
          <6>1. ~N!Scanning(k)
            BY <2>3, <5>1, <5>2
          <6>2. QED
            BY <2>6, <5>2, <6>1 DEF N!Scanning
        <5>3. QED
          BY <4>1, <5>1, <5>2
      <4>2. CASE g # h
        <5>1. /\ njob'[g] = njob[g] /\ N!Scanning(k)
              /\ reminder[k] \in {"due", "fired", "canceled"}
              /\ k \notin ncrossed => /\ reminder[k] = "due"
                                      /\ \A f \in Handlers : njob[f].at = "mark" /\ k \in njob[f].due => f = g
          BY <2>6, <3>1, <4>2, PrefsParts DEF N!ScansAlone, N!Scanning
        <5>2. QED
          BY <2>3, <2>4, <2>5, <2>6, <5>1
      <4>3. QED
        BY <4>1, <4>2
    <3>2. QED
      BY <1>1, <3>1 DEF N!ScansAlone
  <2>9. QED
    BY <1>2, <2>3, <2>5, <2>7, <2>8
<1>4. CASE N!Abandon(h)
  <2>1. njob' = [njob EXCEPT ![h] = N!Idle] /\ UNCHANGED <<ncrossed, over>>
    BY <1>4 DEF N!Abandon, N!Become
  <2>2. N!JobFits(N!Idle) /\ N!Idle.at = "idle"
    BY DEF N!JobFits, N!Idle
  <2>3. \A g \in Handlers : njob'[g] = IF g = h THEN N!Idle ELSE njob[g]
    BY <2>1, <2>2, PrefsJob
  <2>4. N!CreatesFresh'
    BY <1>1, <2>1, <2>2, <2>3, PrefsParts DEF N!CreatesFresh
  <2>5. N!ScansAlone'
    BY <1>1, <2>1, <2>2, <2>3, PrefsParts DEF N!ScansAlone
  <2>6. QED
    BY <1>2, <2>1, <2>2, <2>4, <2>5
<1>5. ASSUME NEW r \in Reminders, N!Schedule(h, r) PROVE N!NotifyPrefsInv'
  <2>1. PICK next : next = [at |-> "create", r |-> r]
    OBVIOUS
  <2>2. /\ njob[h] = N!Idle /\ reminder[r] = "none" /\ njob' = [njob EXCEPT ![h] = next]
        /\ \A g \in Handlers : njob[g].at = "create" => njob[g].r # r
        /\ N!Cardinality(N!Listed) < Cap /\ ncrossed' = ncrossed
        /\ ~over' => ~over /\ \A g \in Handlers : njob[g].at # "create"
    BY <1>5, <2>1 DEF N!Schedule, N!Become, N!BelowCap
  <2>3. N!JobFits(next) /\ next.at = "create" /\ next.r = r /\ njob[h].at = "idle"
    BY <2>1, <2>2 DEF N!JobFits, N!Idle
  <2>4. \A g \in Handlers : njob'[g] = IF g = h THEN next ELSE njob[g]
    BY <2>2, <2>3, PrefsJob
  <2>5. N!CreatesFresh'
    BY <1>1, <2>2, <2>3, <2>4, PrefsParts DEF N!CreatesFresh
  <2>6. N!ScansAlone'
    BY <1>1, <2>2, <2>3, <2>4, PrefsParts DEF N!ScansAlone
  <2>7. QED
    BY <1>2, <2>2, <2>3, <2>5, <2>6
<1>6. QED
  BY <1>3, <1>4, <1>5

(* CreateScheduled: the row is new, and there was room.                    *)
LEMMA PrefsCreate ==
  ASSUME N!NotifyPrefsInv, NEW h \in Handlers, N!CreateScheduled(h)
  PROVE  N!NotifyPrefsInv'
<1>1. /\ njob[h].at = "create" /\ reminder' = [reminder EXCEPT ![njob[h].r] = "waiting"]
      /\ njob' = [njob EXCEPT ![h] = N!Idle] /\ UNCHANGED <<prefs, fired, ncrossed, over>>
  BY DEF N!CreateScheduled, N!Become
<1>2. PICK r \in Reminders : r = njob[h].r
  BY <1>1, PrefsParts DEF N!JobFits
<1>3. /\ reminder[r] = "none"
      /\ \A g \in Handlers : njob[g].at = "create" /\ njob[g].r = r => g = h
      /\ ~over => N!Cardinality(N!Listed) < Cap /\ \A g \in Handlers : njob[g].at = "create" => g = h
  BY <1>1, <1>2, PrefsParts DEF N!CreatesFresh
<1>4. N!JobFits(N!Idle) /\ N!Idle.at = "idle"
  BY DEF N!JobFits, N!Idle
<1>5. \A g \in Handlers : njob'[g] = IF g = h THEN N!Idle ELSE njob[g]
  BY <1>1, <1>4, PrefsJob
<1>6. /\ reminder' \in [Reminders -> {"none", "waiting", "due", "fired", "canceled"}]
      /\ \A k \in Reminders : reminder'[k] = IF k = r THEN "waiting" ELSE reminder[k]
  BY <1>1, <1>2, PrefsParts
<1>7. N!FiresOnce'
  BY <1>1, <1>3, <1>6, PrefsParts DEF N!FiresOnce
<1>8. N!Listed' = N!Listed \cup {r}
  BY <1>6, ListedWhere
<1>9. N!CapHolds'
  BY <1>1, <1>3, <1>8, ListFinite, OneMoreListed DEF N!CapHolds
<1>10. N!CreatesFresh'
  <2>1. \A g \in Handlers : njob[g].at = "create" => njob[g].r \in Reminders
    BY PrefsParts DEF N!JobFits
  <2>2. QED
    BY <1>1, <1>3, <1>4, <1>5, <1>6, <2>1, PrefsParts DEF N!CreatesFresh
<1>11. N!ScansAlone'
  BY <1>1, <1>3, <1>4, <1>5, <1>6, PrefsParts DEF N!ScansAlone
<1>12. QED
  BY <1>1, <1>4, <1>6, <1>7, <1>9, <1>10, <1>11, PrefsJob, PrefsParts, PrefsWhole

(* MarkFired: what was not crossed was due and is handed out once.         *)
LEMMA PrefsMark ==
  ASSUME N!NotifyPrefsInv, NEW h \in Handlers, NEW r \in Reminders, N!MarkFired(h, r)
  PROVE  N!NotifyPrefsInv'
<1>1. PICK next : next = IF njob[h].due = {r} THEN N!Idle ELSE [njob[h] EXCEPT !.due = njob[h].due \ {r}]
  OBVIOUS
<1>2. PICK s : s = IF reminder[r] = "canceled" THEN "canceled" ELSE "fired"
  OBVIOUS
<1>3. /\ njob[h].at = "mark" /\ r \in njob[h].due /\ reminder' = [reminder EXCEPT ![r] = s]
      /\ fired' = [fired EXCEPT ![r] = fired[r] + 1] /\ njob' = [njob EXCEPT ![h] = next]
      /\ UNCHANGED <<prefs, ncrossed, over>>
  BY <1>1, <1>2 DEF N!MarkFired, N!Become
<1>4. /\ N!JobFits(next) /\ next.at \in {"idle", "mark"}
      /\ next.at = "mark" => \A k \in next.due : k \in njob[h].due /\ k # r
  <2>1. N!JobFits(njob[h])
    BY PrefsParts
  <2>2. CASE njob[h].due = {r}
    BY <1>1, <2>2 DEF N!JobFits, N!Idle
  <2>3. CASE njob[h].due # {r}
    BY <1>1, <1>3, <2>1, <2>3 DEF N!JobFits
  <2>4. QED
    BY <2>2, <2>3
<1>5. \A g \in Handlers : njob'[g] = IF g = h THEN next ELSE njob[g]
  BY <1>3, <1>4, PrefsJob
<1>6. /\ reminder[r] \in {"due", "fired", "canceled"}
      /\ r \notin ncrossed => /\ reminder[r] = "due"
                              /\ \A g \in Handlers : njob[g].at = "mark" /\ r \in njob[g].due => g = h
  BY <1>3, PrefsParts DEF N!ScansAlone
<1>7. /\ reminder' \in [Reminders -> {"none", "waiting", "due", "fired", "canceled"}]
      /\ \A k \in Reminders : reminder'[k] = IF k = r THEN s ELSE reminder[k]
      /\ fired' \in [Reminders -> Nat]
      /\ \A k \in Reminders : fired'[k] = IF k = r THEN fired[r] + 1 ELSE fired[k]
  BY <1>2, <1>3, PrefsParts
<1>8. N!FiresOnce'
  BY <1>2, <1>3, <1>6, <1>7, PrefsParts DEF N!FiresOnce
<1>9. N!Listed' = N!Listed
  BY <1>2, <1>6, <1>7, ListedWhere
<1>10. N!CapHolds'
  BY <1>3, <1>9, PrefsParts DEF N!CapHolds
<1>11. N!CreatesFresh'
  <2>1. \A g \in Handlers : njob[g].at = "create" => njob[g].r \in Reminders
    BY PrefsParts DEF N!JobFits
  <2>2. QED
    BY <1>3, <1>4, <1>5, <1>6, <1>7, <1>9, <2>1, PrefsParts DEF N!CreatesFresh
<1>12. N!ScansAlone'
  <2>1. ASSUME NEW g \in Handlers, NEW k \in Reminders, njob'[g].at = "mark", k \in njob'[g].due
        PROVE  /\ reminder'[k] \in {"due", "fired", "canceled"}
               /\ k \notin ncrossed =>
                    /\ reminder'[k] = "due"
                    /\ \A f \in Handlers : njob'[f].at = "mark" /\ k \in njob'[f].due => f = g
    <3>1. /\ njob[g].at = "mark" /\ k \in njob[g].due /\ (g = h => k # r)
          /\ \A f \in Handlers : njob'[f].at = "mark" /\ k \in njob'[f].due => njob[f].at = "mark" /\ k \in njob[f].due
      BY <1>3, <1>4, <1>5, <2>1
    <3>2. /\ reminder[k] \in {"due", "fired", "canceled"}
          /\ k \notin ncrossed => /\ reminder[k] = "due"
                                  /\ \A f \in Handlers : njob[f].at = "mark" /\ k \in njob[f].due => f = g
      BY <3>1, PrefsParts DEF N!ScansAlone
    <3>3. QED
      BY <1>2, <1>3, <1>6, <1>7, <3>1, <3>2
  <2>2. QED
    BY <1>3, <2>1 DEF N!ScansAlone
<1>13. QED
  BY <1>3, <1>4, <1>7, <1>8, <1>10, <1>11, <1>12, PrefsJob, PrefsParts, PrefsWhole

LEMMA PrefsStep ==
  ASSUME N!NotifyPrefsInv, [N!Next]_NVars
  PROVE  N!NotifyPrefsInv'
  BY PrefsSet, PrefsTurn, PrefsDecide, PrefsCreate, PrefsMark DEF N!Next

-----------------------------------------------------------------------------
(* Feature flags.                                                          *)

\* The parts of the invariant.
LEMMA FlagParts ==
  ASSUME F!FlagsInv
  PROVE  /\ \A h \in Handlers : answer[h].on => \E w \in written : F!Says(w, answer[h].subject)
         /\ F!CacheIsFresh
         /\ written \subseteq F!Rules \cup {F!Absent} /\ rule \in written /\ F!Absent \in written
         /\ cache \in written \cup {F!Missing}
         /\ reader = [h \in Handlers |-> reader[h]]
         /\ \A h \in Handlers : F!ReaderFits(reader[h])
         /\ writer = [w \in Users |-> writer[w]] /\ answer = [h \in Handlers |-> answer[h]]
  BY DEF F!FlagsInv, F!FlagsSound, F!OnIsWritten

LEMMA FlagWhole ==
  ASSUME \A h \in Handlers : answer'[h].on => \E w \in written' : F!Says(w, answer'[h].subject),
         F!CacheIsFresh',
         written' \subseteq F!Rules \cup {F!Absent}, rule' \in written', F!Absent \in written',
         cache' \in written' \cup {F!Missing},
         (reader = [h \in Handlers |-> reader[h]])',
         \A h \in Handlers : F!ReaderFits(reader[h])',
         (writer = [w \in Users |-> writer[w]])', (answer = [h \in Handlers |-> answer[h]])'
  PROVE  F!FlagsInv'
<1>1. rule' \in F!Rules \cup {F!Absent} /\ cache' \in F!Rules \cup {F!Absent, F!Missing}
  OBVIOUS
<1>2. QED
  BY <1>1 DEF F!FlagsInv, F!FlagsSound, F!OnIsWritten, F!TypeOK

LEMMA FlagInit == F!Init => F!FlagsInv
<1> SUFFICES ASSUME F!Init PROVE F!FlagsInv
  OBVIOUS
<1>1. F!FlagsSound
  BY DEF F!Init, F!FlagsSound, F!TypeOK, F!OnIsWritten, F!CacheIsFresh, F!NoAnswer
<1>2. \A h \in Handlers : reader[h].at = "idle"
  BY DEF F!Init, F!Idle
<1>3. \A h \in Handlers : F!ReaderFits(reader[h])
  BY <1>2 DEF F!ReaderFits
<1>4. QED
  BY <1>1, <1>3 DEF F!Init, F!FlagsInv

\* The lists of a rule hold users, and what is absent is not present.
LEMMA FlagRules ==
  /\ \A r \in F!Rules : F!NoSubject \notin r.deny
  /\ F!Absent.present = FALSE /\ F!Missing.present = FALSE
  BY FlagConstants DEF F!Rules, F!Rule, F!Absent, F!Missing, F!NoSubject

\* An evaluation that answers "on" reads a stored rule that says so.
LEMMA FlagOn ==
  ASSUME NEW s \in Subjects \cup {F!NoSubject}, NEW entry \in F!Rules \cup {F!Absent},
         F!Enabled(entry, s)
  PROVE  F!Says(entry, s)
<1>1. entry \in F!Rules
  BY FlagRules DEF F!Enabled
<1>2. s \notin entry.deny
  BY <1>1, FlagRules DEF F!Enabled, F!Eval
<1>3. QED
  BY <1>2 DEF F!Enabled, F!Eval, F!Says

\* A reply leaves every answer grounded.
LEMMA FlagReply ==
  ASSUME F!FlagsInv, NEW h \in Handlers, NEW entry \in written \cup {F!Missing},
         NEW s \in Subjects \cup {F!NoSubject}, F!Reply(h, entry, s), written' = written
  PROVE  /\ \A g \in Handlers : answer'[g].on => \E w \in written' : F!Says(w, answer'[g].subject)
         /\ (reader = [g \in Handlers |-> reader[g]])' /\ (answer = [g \in Handlers |-> answer[g]])'
         /\ \A g \in Handlers : F!ReaderFits(reader[g])'
<1> USE FlagParts
<1>1. PICK said : said = [subject |-> s, on |-> F!Enabled(entry, s)]
  OBVIOUS
<1>2. said.subject = s /\ (said.on => F!Enabled(entry, s))
  BY <1>1
<1>3. answer' = [answer EXCEPT ![h] = said] /\ reader' = [reader EXCEPT ![h] = F!Idle]
  BY <1>1 DEF F!Reply
<1>4. said.on => entry \in written /\ F!Says(entry, said.subject)
  <2>1. SUFFICES ASSUME said.on PROVE entry \in written /\ F!Says(entry, s)
    BY <1>2
  <2>2. F!Enabled(entry, s)
    BY <1>2, <2>1
  <2>3. entry \in written
    BY <2>2, FlagRules DEF F!Enabled
  <2>4. QED
    BY <2>2, <2>3, FlagOn
<1>5. \A g \in Handlers : answer'[g] = IF g = h THEN said ELSE answer[g]
  BY <1>3
<1>6. \A g \in Handlers : answer'[g].on => \E w \in written' : F!Says(w, answer'[g].subject)
  BY <1>4, <1>5
<1>7. F!Idle.at = "idle"
  BY DEF F!Idle
<1>8. \A g \in Handlers : reader'[g] = IF g = h THEN F!Idle ELSE reader[g]
  BY <1>3
<1>9. \A g \in Handlers : F!ReaderFits(reader[g])'
  BY <1>7, <1>8 DEF F!ReaderFits
<1>10. QED
  BY <1>3, <1>6, <1>9

LEMMA FlagCacheGet ==
  ASSUME F!FlagsInv, NEW h \in Handlers, NEW s \in Subjects \cup {F!NoSubject}, F!CacheGet(h, s)
  PROVE  F!FlagsInv'
<1> USE FlagParts
<1>1. /\ rule' = rule /\ cache' = cache /\ writer' = writer /\ written' = written
      /\ fcrossed' = fcrossed /\ unbusted' = unbusted
  BY DEF F!CacheGet
<1>2. F!CacheIsFresh'
  BY <1>1 DEF F!CacheIsFresh
<1>3. CASE F!Reply(h, cache, s)
  BY <1>1, <1>2, <1>3, FlagReply, FlagWhole
<1>4. CASE reader' = [reader EXCEPT ![h] = [at |-> "store", s |-> s]] /\ answer' = answer
  <2>1. PICK next : next = [at |-> "store", s |-> s]
    OBVIOUS
  <2>2. next.at = "store" /\ next.s = s
    BY <2>1
  <2>3. \A g \in Handlers : reader'[g] = IF g = h THEN next ELSE reader[g]
    BY <1>4, <2>1
  <2>4. \A g \in Handlers : F!ReaderFits(reader[g])'
    BY <1>1, <2>2, <2>3 DEF F!ReaderFits
  <2>5. (reader = [g \in Handlers |-> reader[g]])'
    BY <1>4
  <2>6. QED
    BY <1>1, <1>2, <1>4, <2>4, <2>5, FlagWhole
<1>5. QED
  BY <1>3, <1>4 DEF F!CacheGet

LEMMA FlagStoreGet ==
  ASSUME F!FlagsInv, NEW h \in Handlers, F!StoreGet(h)
  PROVE  F!FlagsInv'
<1> USE FlagParts
<1>1. /\ rule' = rule /\ cache' = cache /\ writer' = writer /\ written' = written
      /\ fcrossed' = fcrossed /\ unbusted' = unbusted
  BY DEF F!StoreGet
<1>2. F!CacheIsFresh'
  BY <1>1 DEF F!CacheIsFresh
<1>3. reader[h].s \in Subjects \cup {F!NoSubject}
  BY DEF F!StoreGet, F!ReaderFits
<1>4. CASE F!Reply(h, F!Absent, reader[h].s)
  BY <1>1, <1>2, <1>3, <1>4, FlagReply, FlagWhole
<1>5. CASE /\ reader' = [reader EXCEPT ![h] = [at |-> "put", s |-> reader[h].s, entry |-> rule]]
           /\ answer' = answer
  <2>1. PICK next : next = [at |-> "put", s |-> reader[h].s, entry |-> rule]
    OBVIOUS
  <2>2. next.at = "put" /\ next.s = reader[h].s /\ next.entry = rule
    BY <2>1
  <2>3. \A g \in Handlers : reader'[g] = IF g = h THEN next ELSE reader[g]
    BY <1>5, <2>1
  <2>4. \A g \in Handlers : F!ReaderFits(reader[g])'
    BY <1>1, <1>3, <2>2, <2>3 DEF F!ReaderFits
  <2>5. (reader = [g \in Handlers |-> reader[g]])'
    BY <1>5
  <2>6. QED
    BY <1>1, <1>2, <1>5, <2>4, <2>5, FlagWhole
<1>6. QED
  BY <1>4, <1>5 DEF F!StoreGet

LEMMA FlagCachePut ==
  ASSUME F!FlagsInv, NEW h \in Handlers, F!CachePut(h)
  PROVE  F!FlagsInv'
<1> USE FlagParts
<1>1. /\ rule' = rule /\ writer' = writer /\ written' = written /\ unbusted' = unbusted
      /\ cache' = reader[h].entry
  BY DEF F!CachePut
<1>2. reader[h].s \in Subjects \cup {F!NoSubject} /\ reader[h].entry \in written
  BY DEF F!CachePut, F!ReaderFits
<1>3. F!CacheIsFresh'
  BY <1>1 DEF F!CacheIsFresh, F!CachePut
<1>4. F!Reply(h, reader[h].entry, reader[h].s)
  BY DEF F!CachePut
<1>5. QED
  BY <1>1, <1>2, <1>3, <1>4, FlagReply, FlagWhole

LEMMA FlagUpsert ==
  ASSUME F!FlagsInv, NEW w \in Users, NEW new \in F!Rules \cup {F!Absent}, F!UpsertFlag(w, new)
  PROVE  F!FlagsInv'
<1> USE FlagParts
<1>1. /\ rule' = new /\ cache' = cache /\ written' = written \cup {new} /\ reader' = reader
      /\ answer' = answer /\ writer' = [writer EXCEPT ![w] = [at |-> "bust"]]
  BY DEF F!UpsertFlag
<1>2. writer'[w] # F!Idle
  <2>1. writer'[w].at = "bust" /\ F!Idle.at = "idle"
    BY <1>1 DEF F!Idle
  <2>2. QED
    BY <2>1
<1>3. F!CacheIsFresh'
  BY <1>2 DEF F!CacheIsFresh
<1>4. \A h \in Handlers : F!ReaderFits(reader[h])'
  BY <1>1 DEF F!ReaderFits
<1>5. QED
  BY <1>1, <1>3, <1>4, FlagWhole

LEMMA FlagCacheDel ==
  ASSUME F!FlagsInv, NEW w \in Users, F!CacheDel(w)
  PROVE  F!FlagsInv'
<1> USE FlagParts
<1>1. /\ rule' = rule /\ written' = written /\ reader' = reader /\ answer' = answer
      /\ writer' = [writer EXCEPT ![w] = F!Idle] /\ cache' \in {cache, F!Missing}
  BY DEF F!CacheDel, F!Busted
<1>2. F!CacheIsFresh'
  BY DEF F!CacheIsFresh, F!CacheDel, F!Busted
<1>3. \A h \in Handlers : F!ReaderFits(reader[h])'
  BY <1>1 DEF F!ReaderFits
<1>4. QED
  BY <1>1, <1>2, <1>3, FlagWhole

LEMMA FlagExpires ==
  ASSUME F!FlagsInv, F!CacheExpires \/ UNCHANGED FVars
  PROVE  F!FlagsInv'
<1> USE FlagParts
<1>1. /\ rule' = rule /\ written' = written /\ reader' = reader /\ answer' = answer
      /\ writer' = writer /\ cache' \in {cache, F!Missing}
  BY DEF F!CacheExpires, FVars
<1>2. F!CacheIsFresh'
  BY DEF F!CacheIsFresh, F!CacheExpires, FVars
<1>3. \A h \in Handlers : F!ReaderFits(reader[h])'
  BY <1>1 DEF F!ReaderFits
<1>4. QED
  BY <1>1, <1>2, <1>3, FlagWhole

LEMMA FlagStep == F!FlagsInv /\ [F!Next]_FVars => F!FlagsInv'
  BY FlagCacheGet, FlagStoreGet, FlagCachePut, FlagUpsert, FlagCacheDel, FlagExpires
     DEF F!Next

-----------------------------------------------------------------------------
(* The rate limiter.                                                       *)

\* The arithmetic: a tolerance is not negative, an interval that fits has
\* fitted, and a number of seconds rounded up covers what it rounds.
LEMMA LimitTolerance == L!Tolerance \in Nat
<1>1. PICK b \in Nat : Burst = b + 1
  <2>1. Burst - 1 \in Nat /\ Burst = (Burst - 1) + 1
    BY LimiterConstants
  <2>2. QED
    BY <2>1
<1>2. \A e \in Nat : b * e \in Nat
  OBVIOUS
<1>3. QED
  BY <1>1, <1>2, LimiterConstants DEF L!Tolerance

LEMMA LimitFits ==
  ASSUME NEW k \in Int, NEW x \in Nat, k * Emission <= x
  PROVE  k <= x \div Emission /\ x \div Emission \in Nat
<1>1. PICK q : q = x \div Emission
  OBVIOUS
<1>2. q \in Nat /\ x < q * Emission + Emission
  BY <1>1, LimiterConstants
<1>3. k * Emission < (q + 1) * Emission
  BY <1>2, LimiterConstants
<1>4. \A a, b \in Int, e \in Nat \ {0} : a * e < b * e => a < b
  <2>1. SUFFICES ASSUME NEW a \in Int, NEW b \in Int, NEW e \in Nat \ {0}, b <= a
                 PROVE  b * e <= a * e
    OBVIOUS
  <2>2. PICK c \in Nat : a = b + c
    <3>1. a - b \in Nat /\ a = b + (a - b)
      BY <2>1
    <3>2. QED
      BY <3>1
  <2>3. a * e = b * e + c * e /\ c * e \in Nat
    BY <2>2
  <2>4. QED
    BY <2>3
<1>5. k < q + 1
  BY <1>2, <1>3, <1>4, LimiterConstants
<1>6. QED
  BY <1>1, <1>2, <1>5

LEMMA LimitRounds ==
  ASSUME NEW x \in Nat
  PROVE  /\ Second * (((x + Second - 1) \div Second) + 1) \in Nat
         /\ x <= Second * (((x + Second - 1) \div Second) + 1)
<1>1. PICK q : q = (x + Second - 1) \div Second
  OBVIOUS
<1>2. x + Second - 1 \in Nat
  BY LimiterConstants
<1>3. q \in Nat /\ x + Second - 1 < Second * q + Second
  BY <1>1, <1>2, LimiterConstants
<1>4. Second * (q + 1) = Second * q + Second /\ Second * q \in Nat
  BY <1>3, LimiterConstants
<1>5. QED
  BY <1>1, <1>3, <1>4, LimiterConstants

\* The parts of the invariant.
LEMMA LimitParts ==
  ASSUME L!LimiterInv
  PROVE  /\ now \in 0..MaxTime /\ tat \in Nat /\ key \in Nat \cup {-1}
         /\ admitted \in Seq(0..MaxTime) /\ lexpires \in Int
         /\ L!RateHolds /\ L!Pushed
         /\ key = -1 => tat <= now
         /\ key # -1 => key = tat /\ tat <= lexpires
  BY DEF L!LimiterInv, L!LimiterSound, L!TypeOK, L!Gone

LEMMA LimitWhole ==
  ASSUME now' \in 0..MaxTime, tat' \in Nat, key' \in Nat \cup {-1},
         admitted' \in Seq(0..MaxTime), lexpires' \in Int, L!RateHolds', L!Pushed',
         key' = -1 => tat' <= now', key' # -1 => key' = tat' /\ tat' <= lexpires'
  PROVE  L!LimiterInv'
<1>1. L!TypeOK'
  BY DEF L!TypeOK, L!Gone
<1>2. L!BackendsAgree'
  BY LimiterConstants DEF L!BackendsAgree, L!Later, L!Gone
<1>3. L!RetryIsExact'
  <2>1. \A t, n, m \in Int : m \in Nat /\ ~(L!Later(t, n) - n <= m) =>
          LET r == L!Later(t, n) - n - m
          IN  /\ L!Later(t, n + r) - (n + r) <= m
              /\ ~(L!Later(t, n + r - 1) - (n + r - 1) <= m)
    BY DEF L!Later
  <2>2. now' \in Int /\ tat' \in Int
    BY LimiterConstants
  <2>3. QED
    BY <2>1, <2>2, LimitTolerance DEF L!RetryIsExact, L!Allowed, L!RetryAfter
<1>4. QED
  BY <1>1, <1>2, <1>3 DEF L!LimiterInv, L!LimiterSound, L!Gone

LEMMA LimitInit == L!Init => L!LimiterInv
<1> SUFFICES ASSUME L!Init PROVE L!LimiterInv
  OBVIOUS
<1>1. now = 0 /\ tat = 0 /\ key = -1 /\ lexpires = 0 /\ admitted = <<>>
  BY DEF L!Init, L!Gone
<1>2. L!TypeOK
  BY <1>1, LimiterConstants DEF L!TypeOK, L!Gone
<1>3. L!RateHolds /\ L!Pushed
  BY <1>1 DEF L!RateHolds, L!Pushed
<1>4. L!BackendsAgree
  BY <1>1 DEF L!BackendsAgree, L!Later, L!Gone
<1>5. L!RetryIsExact
  BY <1>1, LimitTolerance DEF L!RetryIsExact, L!Later, L!Allowed
<1>6. QED
  BY <1>1, <1>2, <1>3, <1>4, <1>5 DEF L!LimiterInv, L!LimiterSound, L!Gone

LEMMA LimitTimes ==
  ASSUME NEW T, NEW s \in Seq(T)
  PROVE  \A i \in DOMAIN s : s[i] \in T
  OBVIOUS

LEMMA LimitAppend ==
  ASSUME NEW s \in Seq(0..MaxTime), NEW t \in 0..MaxTime, NEW n, n = Len(s)
  PROVE  /\ n \in Nat /\ DOMAIN s = 1..n /\ DOMAIN Append(s, t) = 1..(n + 1)
         /\ Len(Append(s, t)) = n + 1 /\ Append(s, t) \in Seq(0..MaxTime)
         /\ Append(s, t)[n + 1] = t /\ \A i \in 1..n : Append(s, t)[i] = s[i]
         /\ \A i \in 1..n : s[i] \in Nat
<1>1. n \in Nat /\ DOMAIN s = 1..n
  OBVIOUS
<1>2. /\ Append(s, t) \in Seq(0..MaxTime) /\ Len(Append(s, t)) = n + 1
      /\ DOMAIN Append(s, t) = 1..(n + 1)
  BY <1>1
<1>3. Append(s, t)[n + 1] = t
  BY <1>1
<1>4. \A i \in 1..n : Append(s, t)[i] = s[i]
  BY <1>1
<1>5. \A i \in 1..n : s[i] \in Nat
  <2>1. \A i \in 1..n : s[i] \in 0..MaxTime
    BY <1>1, LimitTimes
  <2>2. 0..MaxTime \subseteq Nat
    BY LimiterConstants
  <2>3. QED
    BY <2>1, <2>2
<1>6. QED
  BY <1>1, <1>2, <1>3, <1>4, <1>5

\* An admitted attempt keeps the rate.
LEMMA LimitAdmits ==
  ASSUME L!LimiterInv, L!Allowed(L!Later(tat, now)), now' = now,
         tat' = L!Later(tat, now) + Emission, admitted' = Append(admitted, now)
  PROVE  tat' \in Nat /\ admitted' \in Seq(0..MaxTime) /\ L!RateHolds' /\ L!Pushed'
<1>0. PICK n : n = Len(admitted)
  OBVIOUS
<1>1. now \in Nat /\ n \in Nat /\ tat \in Nat /\ Emission \in Nat \ {0} /\ Burst \in Nat \ {0}
  BY <1>0, LimitParts, LimiterConstants
<1>2. /\ DOMAIN admitted = 1..n /\ DOMAIN admitted' = 1..(n + 1) /\ Len(admitted') = n + 1
      /\ admitted'[n + 1] = now /\ \A i \in 1..n : admitted'[i] = admitted[i]
      /\ \A i \in 1..n : admitted[i] \in Nat
      /\ admitted' \in Seq(0..MaxTime)
  BY <1>0, LimitParts, LimitAppend
<1>3. tat <= L!Later(tat, now) /\ now <= L!Later(tat, now) /\ L!Later(tat, now) \in Nat
  BY <1>1 DEF L!Later
<1>4. PICK a \in Nat : a = L!Later(tat, now)
  BY <1>3
<1>5. tat' = a + Emission /\ tat <= a /\ now <= a /\ a <= now + L!Tolerance
  BY <1>1, <1>3, <1>4, LimitTolerance DEF L!Allowed
<1>6. tat' \in Nat
  BY <1>1, <1>5
<1>7. ASSUME NEW i \in 1..n
      PROVE  admitted[i] <= now /\ admitted[i] + (n - i + 1) * Emission <= tat
  BY <1>0, <1>2, <1>7, LimitParts DEF L!Pushed
<1>8. L!Pushed'
  <2>1. SUFFICES ASSUME NEW i \in 1..(n + 1)
                 PROVE  admitted'[i] <= now /\ admitted'[i] + ((n + 1) - i + 1) * Emission <= tat'
    BY <1>2 DEF L!Pushed
  <2>2. CASE i = n + 1
    <3>1. (n + 1) - i + 1 = 1 /\ 1 * Emission = Emission
      BY <1>1, <2>2
    <3>2. QED
      BY <1>1, <1>2, <1>5, <2>2, <3>1
  <2>3. CASE i \in 1..n
    <3>1. PICK k \in Int : k = n - i + 1
      BY <1>1
    <3>2. (n + 1) - i + 1 = k + 1
      BY <1>1, <3>1
    <3>3. PICK m \in Int : m = k * Emission
      BY <1>1
    <3>4. (k + 1) * Emission = m + Emission
      BY <1>1, <3>3
    <3>5. ((n + 1) - i + 1) * Emission = m + Emission
      BY <3>2, <3>4
    <3>6. admitted[i] <= now /\ admitted[i] + m <= tat /\ admitted[i] \in Nat
      BY <1>2, <1>7, <2>3, <3>1, <3>3
    <3>7. admitted'[i] = admitted[i]
      BY <1>2, <2>3
    <3>8. admitted[i] + (m + Emission) <= tat'
      BY <1>1, <1>5, <3>6
    <3>9. QED
      BY <3>5, <3>6, <3>7, <3>8
  <2>4. i = n + 1 \/ i \in 1..n
    BY <1>1
  <2>5. QED
    BY <2>2, <2>3, <2>4
<1>9. L!RateHolds'
  <2>1. SUFFICES ASSUME NEW i \in 1..(n + 1), NEW j \in 1..(n + 1), i <= j
                 PROVE  j - i + 1 <= Burst + (admitted'[j] - admitted'[i]) \div Emission
    BY <1>2 DEF L!RateHolds
  <2>2. CASE j \in 1..n
    <3>1. i \in 1..n /\ admitted'[i] = admitted[i] /\ admitted'[j] = admitted[j]
      BY <1>1, <1>2, <2>1, <2>2
    <3>2. QED
      BY <1>2, <2>1, <2>2, <3>1, LimitParts DEF L!RateHolds
  <2>3. CASE j = n + 1 /\ i = n + 1
    <3>1. 0 * Emission <= 0 /\ admitted'[j] - admitted'[i] = 0
      BY <1>1, <1>2, <2>3
    <3>2. PICK q \in Nat : q = 0 \div Emission
      BY <3>1, LimitFits
    <3>3. (admitted'[j] - admitted'[i]) \div Emission = q
      BY <3>1, <3>2
    <3>4. j - i + 1 <= Burst + q
      BY <1>1, <2>3
    <3>5. QED
      BY <3>3, <3>4
  <2>4. CASE j = n + 1 /\ i \in 1..n
    <3>1. PICK k \in Int : k = n - i + 1
      BY <1>1
    <3>2. PICK x \in Nat : x = now - admitted[i]
      BY <1>1, <1>2, <1>7, <2>4
    <3>3. k * Emission <= x + L!Tolerance
      <4>1. k * Emission \in Int /\ admitted[i] + k * Emission <= tat /\ admitted[i] \in Nat
        BY <1>1, <1>2, <1>7, <2>4, <3>1
      <4>2. QED
        BY <1>1, <1>5, <3>2, <4>1, LimitTolerance
    <3>4. (k - (Burst - 1)) * Emission <= x
      <4>1. (k - (Burst - 1)) * Emission = k * Emission - L!Tolerance
        BY <1>1 DEF L!Tolerance
      <4>2. k * Emission \in Int
        BY <1>1
      <4>3. QED
        BY <3>3, <4>1, <4>2, LimitTolerance
    <3>5. PICK b \in Int : b = k - (Burst - 1)
      BY <1>1
    <3>6. PICK q \in Nat : q = x \div Emission /\ b <= q
      <4>1. b * Emission <= x
        BY <3>4, <3>5
      <4>2. QED
        BY <4>1, LimitFits
    <3>7. admitted'[j] - admitted'[i] = x /\ j - i + 1 = k + 1
      BY <1>1, <1>2, <2>4, <3>1, <3>2
    <3>8. (admitted'[j] - admitted'[i]) \div Emission = q
      BY <3>6, <3>7
    <3>9. k + 1 <= Burst + q
      BY <1>1, <3>5, <3>6
    <3>10. QED
      BY <3>7, <3>8, <3>9
  <2>5. j = n + 1 \/ j \in 1..n
    BY <1>1
  <2>6. i = n + 1 \/ i \in 1..n
    BY <1>1
  <2>7. QED
    BY <2>2, <2>3, <2>4, <2>5, <2>6
<1>10. QED
  BY <1>2, <1>6, <1>8, <1>9

LEMMA LimitAllow ==
  ASSUME L!LimiterInv, L!Allow
  PROVE  L!LimiterInv'
<1> USE LimitParts
<1>1. now \in Nat /\ tat \in Nat /\ Emission \in Nat /\ now' = now
  BY LimiterConstants DEF L!Allow
<1>2. (IF key = L!Gone THEN now ELSE L!Later(key, now)) = L!Later(tat, now)
  <2>1. CASE key = -1
    <3>1. tat <= now
      BY <2>1
    <3>2. L!Later(tat, now) = now
      BY <1>1, <3>1 DEF L!Later
    <3>3. QED
      BY <2>1, <3>2 DEF L!Gone
  <2>2. CASE key # -1
    <3>1. key = tat
      BY <2>2
    <3>2. QED
      BY <2>2, <3>1 DEF L!Gone
  <2>3. QED
    BY <2>1, <2>2
<1>3. L!Later(tat, now) \in Nat /\ now <= L!Later(tat, now)
  BY <1>1 DEF L!Later
<1>4. CASE L!Allowed(L!Later(tat, now))
  <2>1. /\ tat' = L!Later(tat, now) + Emission /\ admitted' = Append(admitted, now)
        /\ key' = L!Later(tat, now) + Emission
        /\ lexpires' = now + Second * L!Ttl(L!Later(tat, now) + Emission)
    BY <1>2, <1>4 DEF L!Allow
  <2>2. tat' \in Nat /\ admitted' \in Seq(0..MaxTime) /\ L!RateHolds' /\ L!Pushed'
    BY <1>1, <1>4, <2>1, LimitAdmits
  <2>3. PICK x \in Nat : x = tat' - now /\ tat' = now + x
    <3>1. tat' \in Nat /\ now \in Nat /\ now <= tat'
      BY <1>1, <1>3, <2>1
    <3>2. \A t, s \in Nat : s <= t => t - s \in Nat /\ t = s + (t - s)
      OBVIOUS
    <3>3. QED
      BY <3>1, <3>2
  <2>4. lexpires' = now + Second * (((x + Second - 1) \div Second) + 1)
    BY <2>1, <2>3 DEF L!Ttl
  <2>5. lexpires' \in Int /\ tat' <= lexpires'
    <3>1. PICK z \in Nat : z = Second * (((x + Second - 1) \div Second) + 1) /\ x <= z
      BY LimitRounds
    <3>2. lexpires' = now + z
      BY <2>4, <3>1
    <3>3. QED
      BY <1>1, <2>3, <3>1, <3>2
  <2>6. key' = tat' /\ key' # -1
    BY <2>1, <2>2
  <2>7. QED
    BY <1>1, <2>2, <2>5, <2>6, LimitWhole
<1>5. CASE ~L!Allowed(L!Later(tat, now))
  <2>1. UNCHANGED <<tat, admitted, key, lexpires>>
    BY <1>2, <1>5 DEF L!Allow
  <2>2. L!RateHolds' /\ L!Pushed'
    BY <1>1, <2>1 DEF L!RateHolds, L!Pushed
  <2>3. QED
    BY <1>1, <2>1, <2>2, LimitWhole
<1>6. QED
  BY <1>4, <1>5

LEMMA LimitTick ==
  ASSUME L!LimiterInv, L!Tick \/ UNCHANGED LVars
  PROVE  L!LimiterInv'
<1> USE LimitParts
<1>1. /\ now' \in 0..MaxTime /\ now <= now'
      /\ tat' = tat /\ lexpires' = lexpires /\ admitted' = admitted
      /\ key' = key \/ (key # -1 /\ key' = -1 /\ lexpires <= now')
  BY LimiterConstants DEF L!Tick, LVars, L!Gone
<1>2. L!RateHolds'
  BY <1>1 DEF L!RateHolds
<1>3. L!Pushed'
  <2>1. \A i \in DOMAIN admitted : admitted[i] \in Nat
    <3>1. \A i \in DOMAIN admitted : admitted[i] \in 0..MaxTime
      BY LimitTimes
    <3>2. 0..MaxTime \subseteq Nat
      BY LimiterConstants
    <3>3. QED
      BY <3>1, <3>2
  <2>2. now \in Nat /\ now' \in Nat
    BY <1>1
  <2>3. QED
    BY <1>1, <2>1, <2>2 DEF L!Pushed
<1>4. /\ key' = -1 => tat' <= now'
      /\ key' # -1 => key' = tat' /\ tat' <= lexpires'
  BY <1>1
<1>5. QED
  BY <1>1, <1>2, <1>3, <1>4, LimitWhole

LEMMA LimitStep == L!LimiterInv /\ [L!Next]_LVars => L!LimiterInv'
  BY LimitAllow, LimitTick DEF L!Next

-----------------------------------------------------------------------------
(* The admin console.                                                      *)

\* The parts of the invariant.
LEMMA AdminParts ==
  ASSUME O!AdminInv
  PROVE  /\ report \in {"none", "open", "actioned", "dismissed"}
         /\ status \in {"active", "suspended", "deleted"}
         /\ audit \in Seq([action : O!Actions, role : O!Roles])
         /\ refunded \in BOOLEAN /\ unlogged \in BOOLEAN /\ fate \in Int
         /\ O!StatusExplained /\ O!ReportExplained /\ O!RefundExplained /\ O!TombstoneStays /\ O!RolesHold /\ O!OnceEach
         /\ ojob = [h \in Handlers |-> ojob[h]] /\ \A h \in Handlers : O!JobFits(ojob[h])
  BY DEF O!AdminInv, O!AdminSound, O!TypeOK, O!AuditExplains

LEMMA AdminWhole ==
  ASSUME report' \in {"none", "open", "actioned", "dismissed"},
         status' \in {"active", "suspended", "deleted"},
         audit' \in Seq([action : O!Actions, role : O!Roles]),
         refunded' \in BOOLEAN, unlogged' \in BOOLEAN, fate' \in Int,
         O!StatusExplained', O!ReportExplained', O!RefundExplained', O!TombstoneStays', O!RolesHold', O!OnceEach',
         (ojob = [h \in Handlers |-> ojob[h]])', \A h \in Handlers : O!JobFits(ojob[h])'
  PROVE  O!AdminInv'
  BY DEF O!AdminInv, O!AdminSound, O!TypeOK, O!AuditExplains

LEMMA AdminInit == O!Init => O!AdminInv
<1> SUFFICES ASSUME O!Init PROVE O!AdminInv
  OBVIOUS
<1>1. audit = <<>> /\ DOMAIN audit = {} /\ \A acts : O!Rows(acts) = {}
  BY DEF O!Init, O!Rows
<1>2. \A h \in Handlers : ojob[h].at = "idle"
  BY DEF O!Init, O!Idle
<1>3. O!StatusByAudit = "active"
  BY <1>1 DEF O!StatusByAudit
<1>4. report = "none" /\ status = "active" /\ refunded = FALSE /\ unlogged = FALSE /\ fate = -1
  BY DEF O!Init
<1>5. O!AuditExplains
  BY <1>1, <1>3, <1>4 DEF O!AuditExplains, O!StatusExplained, O!ReportExplained, O!RefundExplained, O!Closed
<1>6. O!TombstoneStays /\ O!RolesHold
  BY <1>1, <1>4 DEF O!TombstoneStays, O!RolesHold
<1>7. O!OnceEach
  BY <1>2, <1>4 DEF O!OnceEach
<1>8. \A h \in Handlers : O!JobFits(ojob[h])
  BY <1>2 DEF O!JobFits
<1>9. ojob = [h \in Handlers |-> ojob[h]]
  BY DEF O!Init
<1>10. O!TypeOK
  <2>1. \A T, s : s = <<>> => s \in Seq(T)
    OBVIOUS
  <2>2. audit \in Seq([action : O!Actions, role : O!Roles])
    BY <1>1, <2>1, Zenon
  <2>3. refunded \in BOOLEAN /\ unlogged \in BOOLEAN /\ fate \in Int
    <3>1. fate \in Int
      BY <1>4
    <3>2. refunded = FALSE /\ unlogged = FALSE
      BY <1>4
    <3>3. QED
      BY <3>1, <3>2, Zenon
  <2>4. /\ report \in {"none", "open", "actioned", "dismissed"}
        /\ status \in {"active", "suspended", "deleted"}
    BY <1>4
  <2>5. QED
    BY <2>2, <2>3, <2>4, Zenon DEF O!TypeOK
<1>11. QED
  BY <1>5, <1>6, <1>7, <1>8, <1>9, <1>10 DEF O!AdminInv, O!AdminSound

\* A row is added at the end.
LEMMA AdminAppends ==
  ASSUME NEW T, NEW s \in Seq(T), NEW e \in T, NEW n, n = Len(s)
  PROVE  /\ n \in Nat /\ DOMAIN s = 1..n /\ DOMAIN Append(s, e) = 1..(n + 1)
         /\ Append(s, e) \in Seq(T)
         /\ Append(s, e)[n + 1] = e /\ \A i \in 1..n : Append(s, e)[i] = s[i]
<1>1. n \in Nat /\ DOMAIN s = 1..n
  OBVIOUS
<1>2. Append(s, e) \in Seq(T) /\ DOMAIN Append(s, e) = 1..(n + 1)
  BY <1>1
<1>3. Append(s, e)[n + 1] = e
  BY <1>1
<1>4. \A i \in 1..n : Append(s, e)[i] = s[i]
  BY <1>1
<1>5. QED
  BY <1>1, <1>2, <1>3, <1>4

\* What a new audit row does to the log.
LEMMA AdminRow ==
  ASSUME audit \in Seq([action : O!Actions, role : O!Roles]),
         NEW a \in O!Actions, NEW r \in O!Roles, O!AppendAudit(a, r)
  PROVE  /\ audit' \in Seq([action : O!Actions, role : O!Roles])
         /\ \E n \in Nat :
              /\ DOMAIN audit = 1..n /\ DOMAIN audit' = 1..(n + 1)
              /\ \A i \in 1..n : audit'[i] = audit[i]
              /\ audit'[n + 1].action = a /\ audit'[n + 1].role = r
<1>1. PICK e : e = [action |-> a, role |-> r]
  OBVIOUS
<1>2. e \in [action : O!Actions, role : O!Roles] /\ e.action = a /\ e.role = r
  BY <1>1
<1>3. audit' = Append(audit, e)
  BY <1>1 DEF O!AppendAudit
<1>4. PICK n : n = Len(audit)
  OBVIOUS
<1>5. /\ n \in Nat /\ DOMAIN audit = 1..n /\ DOMAIN audit' = 1..(n + 1)
      /\ audit' \in Seq([action : O!Actions, role : O!Roles])
      /\ audit'[n + 1] = e /\ \A i \in 1..n : audit'[i] = audit[i]
  BY <1>2, <1>3, <1>4, AdminAppends
<1>6. audit'[n + 1].action = a /\ audit'[n + 1].role = r
  BY <1>2, <1>5
<1>7. QED
  BY <1>5, <1>6

LEMMA AdminRows ==
  ASSUME NEW n \in Nat, NEW a, NEW acts, DOMAIN audit = 1..n, DOMAIN audit' = 1..(n + 1),
         \A i \in 1..n : audit'[i] = audit[i], audit'[n + 1].action = a
  PROVE  /\ a \notin acts => O!Rows(acts)' = O!Rows(acts)
         /\ a \in acts => O!Rows(acts)' = O!Rows(acts) \cup {n + 1}
<1>1. 1..(n + 1) = 1..n \cup {n + 1} /\ n + 1 \notin 1..n
  OBVIOUS
<1>2. O!Rows(acts)' = {i \in 1..(n + 1) : audit'[i].action \in acts}
  BY DEF O!Rows
<1>3. O!Rows(acts) = {i \in 1..n : audit[i].action \in acts}
  BY DEF O!Rows
<1>4. \A i : i \in O!Rows(acts)' <=> i \in O!Rows(acts) \/ (i = n + 1 /\ a \in acts)
  BY <1>1, <1>2, <1>3
<1>5. QED
  BY <1>4

LEMMA AdminStatusKept ==
  ASSUME NEW n \in Nat, NEW a, a \notin {"active", "suspended", "suspend"},
         DOMAIN audit = 1..n, DOMAIN audit' = 1..(n + 1),
         \A i \in 1..n : audit'[i] = audit[i], audit'[n + 1].action = a
  PROVE  O!StatusByAudit' = O!StatusByAudit
<1>1. O!Rows({"active", "suspended", "suspend"})' = O!Rows({"active", "suspended", "suspend"})
  BY AdminRows
<1>2. \A i \in O!Rows({"active", "suspended", "suspend"}) : audit'[i] = audit[i]
  BY DEF O!Rows
<1>3. QED
  BY <1>1, <1>2 DEF O!StatusByAudit

LEMMA AdminStatusSet ==
  ASSUME NEW n \in Nat, NEW a \in {"active", "suspended", "suspend"},
         DOMAIN audit = 1..n, DOMAIN audit' = 1..(n + 1),
         \A i \in 1..n : audit'[i] = audit[i], audit'[n + 1].action = a
  PROVE  O!StatusByAudit' = IF a = "active" THEN "active" ELSE "suspended"
<1>1. /\ O!Rows({"active", "suspended", "suspend"})'
           = O!Rows({"active", "suspended", "suspend"}) \cup {n + 1}
      /\ O!Rows({"active", "suspended", "suspend"}) \subseteq 1..n
  BY AdminRows DEF O!Rows
<1>2. PICK all : all = O!Rows({"active", "suspended", "suspend"})'
  OBVIOUS
<1>3. n + 1 \in all /\ (\A j \in all : j <= n + 1) /\ all \subseteq 1..(n + 1)
  BY <1>1, <1>2
<1>4. \A i \in all : (\A j \in all : j <= i) => i = n + 1
  BY <1>3
<1>5. O!StatusByAudit' = IF \E i \in all : audit'[i].action # "active" /\ \A j \in all : j <= i
                         THEN "suspended" ELSE "active"
  BY <1>2 DEF O!StatusByAudit
<1>6. QED
  BY <1>3, <1>4, <1>5

\* Nothing is said of a log that stays.
LEMMA AdminSame ==
  ASSUME audit' = audit
  PROVE  /\ O!StatusByAudit' = O!StatusByAudit /\ (O!RolesHold => O!RolesHold')
         /\ \A acts : O!Rows(acts)' = O!Rows(acts)
  BY DEF O!StatusByAudit, O!Rows, O!RolesHold

\* The roles of a log with one row more.
LEMMA AdminRoles ==
  ASSUME NEW n \in Nat, NEW a, NEW r, O!RolesHold, r >= O!RoleOf(a),
         DOMAIN audit = 1..n, DOMAIN audit' = 1..(n + 1),
         \A i \in 1..n : audit'[i] = audit[i], audit'[n + 1].action = a, audit'[n + 1].role = r
  PROVE  O!RolesHold'
<1>1. \A i \in 1..(n + 1) : i \in 1..n \/ i = n + 1
  OBVIOUS
<1>2. QED
  BY <1>1 DEF O!RolesHold

\* A request's new state, where the facts it rests on stay.
LEMMA AdminJob ==
  ASSUME O!AdminInv, NEW h \in Handlers, NEW next, ojob' = [ojob EXCEPT ![h] = next],
         O!JobFits(next)',
         \A g \in Handlers \ {h} : O!JobFits(ojob[g])',
         next.at = "audit" => \A g \in Handlers : ojob[g].at # "audit",
         next.at = "file" => \A g \in Handlers : ojob[g].at # "file",
         unlogged' => refunded' /\ O!Rows({"refund"})' = {}
  PROVE  /\ (ojob = [g \in Handlers |-> ojob[g]])' /\ \A g \in Handlers : O!JobFits(ojob[g])'
         /\ O!OnceEach'
         /\ \A g \in Handlers : ojob'[g] = IF g = h THEN next ELSE ojob[g]
<1> USE AdminParts
<1>1. (ojob = [g \in Handlers |-> ojob[g]])' /\ \A g \in Handlers : ojob'[g] = IF g = h THEN next ELSE ojob[g]
  OBVIOUS
<1>2. \A g \in Handlers : O!JobFits(ojob[g])'
  <2>1. SUFFICES ASSUME NEW g \in Handlers PROVE O!JobFits(ojob[g])'
    OBVIOUS
  <2>2. CASE g = h
    BY <1>1, <2>2 DEF O!JobFits
  <2>3. CASE g # h
    BY <1>1, <2>3 DEF O!JobFits
  <2>4. QED
    BY <2>2, <2>3
<1>3. O!OnceEach'
  BY <1>1 DEF O!OnceEach
<1>4. QED
  BY <1>1, <1>2, <1>3

\* A log, a report and a user that stay.
LEMMA AdminKept ==
  ASSUME O!AdminInv, audit' = audit
  PROVE  /\ audit' \in Seq([action : O!Actions, role : O!Roles]) /\ O!RolesHold'
         /\ status' = status => O!StatusExplained'
         /\ report' = report => O!ReportExplained'
         /\ O!Rows({"refund"})' = O!Rows({"refund"})
<1> USE AdminParts, AdminSame
<1>1. audit' \in Seq([action : O!Actions, role : O!Roles]) /\ O!RolesHold'
  OBVIOUS
<1>2. status' = status => O!StatusExplained'
  BY DEF O!StatusExplained
<1>3. report' = report => O!ReportExplained'
  <2>1. O!Rows(O!Resolutions)' = O!Rows(O!Resolutions)
    OBVIOUS
  <2>2. QED
    BY <2>1 DEF O!ReportExplained, O!Closed
<1>4. QED
  BY <1>1, <1>2, <1>3

LEMMA AdminReport ==
  ASSUME O!AdminInv, NEW h \in Handlers, O!Report(h)
  PROVE  O!AdminInv'
<1> USE AdminParts
<1>1. UNCHANGED <<report, status, refunded, audit, unlogged, fate>>
  BY DEF O!Report
<1>2. PICK next : next = [at |-> "file"]
  OBVIOUS
<1>3. next.at = "file" /\ ojob' = [ojob EXCEPT ![h] = next] /\ ojob[h].at = "idle" /\ report = "none"
  BY <1>2 DEF O!Report, O!Become, O!Idle
<1>4. O!Rows({"refund"})' = O!Rows({"refund"})
  BY <1>1, AdminKept
<1>5. O!JobFits(next)' /\ \A g \in Handlers \ {h} : O!JobFits(ojob[g])'
  BY <1>1, <1>3, <1>4 DEF O!JobFits
<1>6. /\ (ojob = [g \in Handlers |-> ojob[g]])' /\ \A g \in Handlers : O!JobFits(ojob[g])'
      /\ O!OnceEach' /\ \A g \in Handlers : ojob'[g] = IF g = h THEN next ELSE ojob[g]
  <2>1. \A g \in Handlers : ojob[g].at # "file"
    BY DEF O!Report
  <2>2. unlogged' => refunded' /\ O!Rows({"refund"})' = {}
    BY <1>1, <1>4 DEF O!OnceEach
  <2>3. QED
    BY <1>3, <1>5, <2>1, <2>2, AdminJob
<1>7. O!RefundExplained'
  BY <1>1, <1>3, <1>4, <1>6 DEF O!RefundExplained
<1>8. O!StatusExplained' /\ O!ReportExplained' /\ O!RolesHold'
  BY <1>1, AdminKept
<1>9. O!TombstoneStays'
  BY <1>1 DEF O!TombstoneStays
<1>10. QED
  BY <1>1, <1>6, <1>7, <1>8, <1>9, AdminWhole

LEMMA AdminFileReport ==
  ASSUME O!AdminInv, NEW h \in Handlers, O!FileReport(h)
  PROVE  O!AdminInv'
<1> USE AdminParts
<1>1. /\ UNCHANGED <<status, refunded, audit, unlogged, fate>>
      /\ ojob[h].at = "file" /\ report' \in {report, "open"}
  BY DEF O!FileReport
<1>2. O!Idle.at = "idle" /\ ojob' = [ojob EXCEPT ![h] = O!Idle]
  BY DEF O!FileReport, O!Become, O!Idle
<1>3. report = "none"
  BY <1>1 DEF O!JobFits
<1>4. O!Rows({"refund"})' = O!Rows({"refund"})
  BY <1>1, AdminKept
<1>5. \A g \in Handlers \ {h} : ojob'[g] = ojob[g] /\ ojob[g].at # "file"
  BY <1>1, <1>2 DEF O!OnceEach
<1>6. O!JobFits(O!Idle)' /\ \A g \in Handlers \ {h} : O!JobFits(ojob[g])'
  BY <1>1, <1>2, <1>4, <1>5 DEF O!JobFits
<1>7. /\ (ojob = [g \in Handlers |-> ojob[g]])' /\ \A g \in Handlers : O!JobFits(ojob[g])'
      /\ O!OnceEach' /\ \A g \in Handlers : ojob'[g] = IF g = h THEN O!Idle ELSE ojob[g]
  <2>1. unlogged' => refunded' /\ O!Rows({"refund"})' = {}
    BY <1>1, <1>4 DEF O!OnceEach
  <2>2. QED
    BY <1>2, <1>6, <2>1, AdminJob
<1>8. O!RefundExplained'
  BY <1>1, <1>2, <1>4, <1>7 DEF O!RefundExplained
<1>9. O!StatusExplained' /\ O!RolesHold'
  BY <1>1, AdminKept
<1>10. O!ReportExplained'
  <2>1. O!Rows(O!Resolutions)' = O!Rows(O!Resolutions)
    BY <1>1, AdminSame
  <2>2. QED
    BY <1>1, <1>3, <2>1 DEF O!ReportExplained, O!Closed
<1>11. O!TombstoneStays'
  BY <1>1 DEF O!TombstoneStays
<1>12. report' \in {"none", "open", "actioned", "dismissed"}
  BY <1>1
<1>13. QED
  BY <1>1, <1>7, <1>8, <1>9, <1>10, <1>11, <1>12, AdminWhole

LEMMA AdminResolveReport ==
  ASSUME O!AdminInv, NEW h \in Handlers, NEW role \in O!Roles, NEW res \in O!Resolutions,
         O!ResolveReport(h, role, res)
  PROVE  O!AdminInv'
<1> USE AdminParts
<1>1. UNCHANGED <<report, status, refunded, audit, unlogged, fate>> /\ role >= O!MinRole(res)
  BY DEF O!ResolveReport
<1>2. PICK next : next = [at |-> "resolve", role |-> role, res |-> res]
  OBVIOUS
<1>3. /\ next.at = "resolve" /\ next.role = role /\ next.res = res
      /\ ojob' = [ojob EXCEPT ![h] = next] /\ ojob[h].at = "idle"
  BY <1>2 DEF O!ResolveReport, O!Become, O!Idle
<1>4. O!Rows({"refund"})' = O!Rows({"refund"})
  BY <1>1, AdminKept
<1>5. O!JobFits(next)' /\ \A g \in Handlers \ {h} : O!JobFits(ojob[g])'
  BY <1>1, <1>3, <1>4 DEF O!JobFits
<1>6. /\ (ojob = [g \in Handlers |-> ojob[g]])' /\ \A g \in Handlers : O!JobFits(ojob[g])'
      /\ O!OnceEach' /\ \A g \in Handlers : ojob'[g] = IF g = h THEN next ELSE ojob[g]
  <2>1. unlogged' => refunded' /\ O!Rows({"refund"})' = {}
    BY <1>1, <1>4 DEF O!OnceEach
  <2>2. QED
    BY <1>3, <1>5, <2>1, AdminJob
<1>7. O!RefundExplained'
  BY <1>1, <1>3, <1>4, <1>6 DEF O!RefundExplained
<1>8. O!StatusExplained' /\ O!ReportExplained' /\ O!RolesHold'
  BY <1>1, AdminKept
<1>9. O!TombstoneStays'
  BY <1>1 DEF O!TombstoneStays
<1>10. QED
  BY <1>1, <1>6, <1>7, <1>8, <1>9, AdminWhole

LEMMA AdminResolve ==
  ASSUME O!AdminInv, NEW h \in Handlers, O!Resolve(h)
  PROVE  O!AdminInv'
<1> USE AdminParts
<1>1. UNCHANGED <<refunded, unlogged, fate>> /\ ojob[h].at = "resolve"
  BY DEF O!Resolve
<1>2. O!Idle.at = "idle" /\ ojob' = [ojob EXCEPT ![h] = O!Idle]
  BY DEF O!Resolve, O!Become, O!Idle
<1>3. PICK res, role : res = ojob[h].res /\ role = ojob[h].role
  OBVIOUS
<1>4. res \in O!Resolutions /\ role \in O!Roles /\ role >= O!MinRole(res)
  BY <1>1, <1>3 DEF O!JobFits
<1>5. CASE report # "open"
  <2>1. UNCHANGED <<report, status, audit>>
    BY <1>5 DEF O!Resolve, O!StillOpen
  <2>2. O!Rows({"refund"})' = O!Rows({"refund"})
    BY <2>1, AdminKept
  <2>3. O!JobFits(O!Idle)' /\ \A g \in Handlers \ {h} : O!JobFits(ojob[g])'
    BY <1>1, <1>2, <2>1, <2>2 DEF O!JobFits
  <2>4. /\ (ojob = [g \in Handlers |-> ojob[g]])' /\ \A g \in Handlers : O!JobFits(ojob[g])'
        /\ O!OnceEach' /\ \A g \in Handlers : ojob'[g] = IF g = h THEN O!Idle ELSE ojob[g]
    <3>1. unlogged' => refunded' /\ O!Rows({"refund"})' = {}
      BY <1>1, <2>2 DEF O!OnceEach
    <3>2. QED
      BY <1>2, <2>3, <3>1, AdminJob
  <2>5. O!RefundExplained'
    BY <1>1, <1>2, <2>2, <2>4 DEF O!RefundExplained
  <2>6. O!StatusExplained' /\ O!ReportExplained' /\ O!RolesHold'
    BY <2>1, AdminKept
  <2>7. O!TombstoneStays'
    BY <1>1, <2>1 DEF O!TombstoneStays
  <2>8. QED
    BY <1>1, <2>1, <2>4, <2>5, <2>6, <2>7, AdminWhole
<1>6. CASE report = "open"
  <2>1. /\ report' = O!FinalState(res) /\ O!AppendAudit(res, role)
        /\ status' = IF res = "suspend" THEN O!Suspended("suspended") ELSE status
    BY <1>3, <1>6 DEF O!Resolve, O!StillOpen
  <2>2. res \in O!Actions /\ res \notin {"refund", "active", "suspended"}
    BY <1>4 DEF O!Actions, O!Resolutions
  <2>3. audit' \in Seq([action : O!Actions, role : O!Roles])
    BY <1>4, <2>1, <2>2, AdminRow
  <2>4. PICK n \in Nat : /\ DOMAIN audit = 1..n /\ DOMAIN audit' = 1..(n + 1)
                         /\ \A i \in 1..n : audit'[i] = audit[i]
                         /\ audit'[n + 1].action = res /\ audit'[n + 1].role = role
    BY <1>4, <2>1, <2>2, AdminRow
  <2>5. O!Rows({"refund"})' = O!Rows({"refund"})
    BY <2>2, <2>4, AdminRows
  <2>6. O!Rows(O!Resolutions)' = {n + 1}
    <3>1. O!Rows(O!Resolutions) = {}
      BY <1>6 DEF O!ReportExplained, O!Closed
    <3>2. QED
      BY <1>4, <2>4, <3>1, AdminRows
  <2>7. O!ReportExplained'
    <3>1. report' \notin {"none", "open"}
      BY <2>1 DEF O!FinalState
    <3>2. n + 1 \in DOMAIN audit' /\ report' = O!FinalState(audit'[n + 1].action)
      BY <2>1, <2>4
    <3>3. QED
      BY <2>6, <3>1, <3>2 DEF O!ReportExplained, O!Closed
  <2>8. O!StatusExplained'
    <3>1. CASE res = "suspend"
      <4>1. O!StatusByAudit' = "suspended"
        BY <2>4, <3>1, AdminStatusSet
      <4>2. status' \in {"suspended", "deleted"}
        BY <2>1, <3>1 DEF O!Suspended
      <4>3. QED
        BY <4>1, <4>2 DEF O!StatusExplained
    <3>2. CASE res # "suspend"
      <4>1. O!StatusByAudit' = O!StatusByAudit
        BY <2>2, <2>4, <3>2, AdminStatusKept
      <4>2. QED
        BY <2>1, <3>2, <4>1 DEF O!StatusExplained
    <3>3. QED
      BY <3>1, <3>2
  <2>9. O!RolesHold'
    <3>1. role >= O!RoleOf(res)
      BY <1>4 DEF O!MinRole, O!RoleOf, O!Resolutions, O!Roles
    <3>2. QED
      BY <2>4, <3>1, AdminRoles
  <2>10. O!JobFits(O!Idle)' /\ \A g \in Handlers \ {h} : O!JobFits(ojob[g])'
    BY <1>1, <1>2, <1>6, <2>5 DEF O!JobFits
  <2>11. /\ (ojob = [g \in Handlers |-> ojob[g]])' /\ \A g \in Handlers : O!JobFits(ojob[g])'
         /\ O!OnceEach' /\ \A g \in Handlers : ojob'[g] = IF g = h THEN O!Idle ELSE ojob[g]
    <3>1. unlogged' => refunded' /\ O!Rows({"refund"})' = {}
      BY <1>1, <2>5 DEF O!OnceEach
    <3>2. QED
      BY <1>2, <2>10, <3>1, AdminJob
  <2>12. O!RefundExplained'
    BY <1>1, <1>2, <2>5, <2>11 DEF O!RefundExplained
  <2>13. /\ O!TombstoneStays' /\ status' \in {"active", "suspended", "deleted"}
         /\ report' \in {"none", "open", "actioned", "dismissed"}
    BY <1>1, <2>1 DEF O!TombstoneStays, O!Suspended, O!FinalState
  <2>14. QED
    BY <1>1, <2>3, <2>7, <2>8, <2>9, <2>11, <2>12, <2>13, AdminWhole
<1>7. QED
  BY <1>5, <1>6

LEMMA AdminSetStatus ==
  ASSUME O!AdminInv, NEW role \in O!Roles, NEW new \in {"active", "suspended"},
         O!SetStatus(role, new)
  PROVE  O!AdminInv'
<1> USE AdminParts
<1>1. /\ UNCHANGED <<report, refunded, ojob, unlogged, fate>> /\ role >= 2
      /\ status # "deleted" /\ status' = new /\ O!AppendAudit(new, role)
  BY DEF O!SetStatus, O!Suspended
<1>2. new \in O!Actions /\ new \notin O!Resolutions /\ new # "refund"
  BY DEF O!Actions, O!Resolutions
<1>3. audit' \in Seq([action : O!Actions, role : O!Roles])
  BY <1>1, <1>2, AdminRow
<1>4. PICK n \in Nat : /\ DOMAIN audit = 1..n /\ DOMAIN audit' = 1..(n + 1)
                       /\ \A i \in 1..n : audit'[i] = audit[i]
                       /\ audit'[n + 1].action = new /\ audit'[n + 1].role = role
  BY <1>1, <1>2, AdminRow
<1>5. /\ O!Rows({"refund"})' = O!Rows({"refund"})
      /\ O!Rows(O!Resolutions)' = O!Rows(O!Resolutions)
  BY <1>2, <1>4, AdminRows
<1>6. O!ReportExplained'
  <2>1. O!Rows(O!Resolutions) \subseteq 1..n
    BY <1>4 DEF O!Rows
  <2>2. CASE O!Closed
    <3>1. PICK i \in DOMAIN audit : O!Rows(O!Resolutions) = {i} /\ report = O!FinalState(audit[i].action)
      BY <2>2 DEF O!ReportExplained
    <3>2. i \in DOMAIN audit' /\ audit'[i] = audit[i]
      BY <1>4
    <3>3. QED
      BY <1>1, <1>5, <2>2, <3>1, <3>2 DEF O!ReportExplained, O!Closed
  <2>3. CASE ~O!Closed
    BY <1>1, <1>5, <2>3 DEF O!ReportExplained, O!Closed
  <2>4. QED
    BY <2>2, <2>3
<1>7. O!StatusExplained'
  <2>1. O!StatusByAudit' = IF new = "active" THEN "active" ELSE "suspended"
    BY <1>4, AdminStatusSet
  <2>2. QED
    BY <1>1, <2>1 DEF O!StatusExplained
<1>8. O!RolesHold'
  <2>1. role >= O!RoleOf(new)
    BY <1>1 DEF O!RoleOf
  <2>2. QED
    BY <1>4, <2>1, AdminRoles
<1>9. \A g \in Handlers : O!JobFits(ojob[g])'
  BY <1>1, <1>5 DEF O!JobFits
<1>10. O!OnceEach' /\ O!RefundExplained' /\ O!TombstoneStays'
  BY <1>1, <1>5 DEF O!OnceEach, O!RefundExplained, O!TombstoneStays
<1>11. QED
  BY <1>1, <1>3, <1>6, <1>7, <1>8, <1>9, <1>10, AdminWhole

LEMMA AdminAdminRefund ==
  ASSUME O!AdminInv, NEW h \in Handlers, NEW role \in O!Roles, O!AdminRefund(h, role)
  PROVE  O!AdminInv'
<1> USE AdminParts
<1>1. UNCHANGED <<report, status, audit, unlogged, fate>> /\ role = 3 /\ ~refunded /\ refunded' = TRUE
  BY DEF O!AdminRefund, O!Roles
<1>2. PICK next : next = [at |-> "audit", role |-> role]
  OBVIOUS
<1>3. next.at = "audit" /\ next.role = role /\ ojob' = [ojob EXCEPT ![h] = next]
  BY <1>2 DEF O!AdminRefund, O!Become
<1>4. /\ O!Rows({"refund"})' = {} /\ O!Rows({"refund"}) = {} /\ ~unlogged
      /\ \A g \in Handlers : ojob[g].at # "audit"
  <2>1. O!Rows({"refund"})' = O!Rows({"refund"})
    BY <1>1, AdminKept
  <2>2. O!Rows({"refund"}) = {}
    BY <1>1 DEF O!RefundExplained
  <2>3. ~unlogged
    BY <1>1 DEF O!OnceEach
  <2>4. \A g \in Handlers : ojob[g].at # "audit"
    BY <1>1 DEF O!JobFits
  <2>5. QED
    BY <2>1, <2>2, <2>3, <2>4
<1>5. O!JobFits(next)' /\ \A g \in Handlers \ {h} : O!JobFits(ojob[g])'
  BY <1>1, <1>3, <1>4 DEF O!JobFits
<1>6. /\ (ojob = [g \in Handlers |-> ojob[g]])' /\ \A g \in Handlers : O!JobFits(ojob[g])'
      /\ O!OnceEach' /\ \A g \in Handlers : ojob'[g] = IF g = h THEN next ELSE ojob[g]
  BY <1>1, <1>3, <1>4, <1>5, AdminJob
<1>7. O!RefundExplained'
  BY <1>3, <1>4, <1>6 DEF O!RefundExplained
<1>8. O!StatusExplained' /\ O!ReportExplained' /\ O!RolesHold'
  BY <1>1, AdminKept
<1>9. O!TombstoneStays'
  BY <1>1 DEF O!TombstoneStays
<1>10. QED
  BY <1>1, <1>6, <1>7, <1>8, <1>9, AdminWhole

LEMMA AdminAuditRefund ==
  ASSUME O!AdminInv, NEW h \in Handlers, O!AuditRefund(h)
  PROVE  O!AdminInv'
<1> USE AdminParts
<1>1. UNCHANGED <<report, status, refunded, fate>> /\ ojob[h].at = "audit"
  BY DEF O!AuditRefund
<1>2. O!Idle.at = "idle" /\ ojob' = [ojob EXCEPT ![h] = O!Idle]
  BY DEF O!AuditRefund, O!Become, O!Idle
<1>3. /\ ojob[h].role = 3 /\ refunded /\ ~unlogged /\ O!Rows({"refund"}) = {}
      /\ \A g \in Handlers \ {h} : ojob'[g] = ojob[g] /\ ojob[g].at # "audit"
  BY <1>1, <1>2 DEF O!JobFits, O!OnceEach
<1>4. O!JobFits(O!Idle)' /\ \A g \in Handlers \ {h} : O!JobFits(ojob[g])'
  BY <1>1, <1>2, <1>3 DEF O!JobFits
<1>5. O!TombstoneStays'
  BY <1>1 DEF O!TombstoneStays
<1>6. CASE audit' = audit /\ unlogged' = TRUE
  <2>1. O!Rows({"refund"})' = {}
    BY <1>3, <1>6, AdminKept
  <2>2. /\ (ojob = [g \in Handlers |-> ojob[g]])' /\ \A g \in Handlers : O!JobFits(ojob[g])'
        /\ O!OnceEach'
    BY <1>1, <1>2, <1>3, <1>4, <1>6, <2>1, AdminJob
  <2>3. O!RefundExplained'
    BY <1>6, <2>1 DEF O!RefundExplained
  <2>4. O!StatusExplained' /\ O!ReportExplained' /\ O!RolesHold'
    BY <1>1, <1>6, AdminKept
  <2>5. QED
    BY <1>1, <1>5, <1>6, <2>2, <2>3, <2>4, AdminWhole
<1>7. CASE O!AppendAudit("refund", ojob[h].role) /\ unlogged' = unlogged
  <2>1. "refund" \in O!Actions /\ "refund" \notin O!Resolutions /\ 3 \in O!Roles
    BY DEF O!Actions, O!Resolutions, O!Roles
  <2>2. audit' \in Seq([action : O!Actions, role : O!Roles])
    BY <1>3, <1>7, <2>1, AdminRow
  <2>3. PICK n \in Nat : /\ DOMAIN audit = 1..n /\ DOMAIN audit' = 1..(n + 1)
                         /\ \A i \in 1..n : audit'[i] = audit[i]
                         /\ audit'[n + 1].action = "refund" /\ audit'[n + 1].role = 3
    BY <1>3, <1>7, <2>1, AdminRow
  <2>4. /\ O!Rows({"refund"})' # {}
        /\ O!Rows(O!Resolutions)' = O!Rows(O!Resolutions)
    <3>1. O!Rows({"refund"})' = O!Rows({"refund"}) \cup {n + 1}
      BY <2>3, AdminRows
    <3>2. O!Rows(O!Resolutions)' = O!Rows(O!Resolutions)
      BY <2>1, <2>3, AdminRows
    <3>3. QED
      BY <3>1, <3>2
  <2>5. O!ReportExplained'
    <3>1. CASE O!Closed
      <4>1. PICK i \in DOMAIN audit : O!Rows(O!Resolutions) = {i} /\ report = O!FinalState(audit[i].action)
        BY <3>1 DEF O!ReportExplained
      <4>2. i \in DOMAIN audit' /\ audit'[i] = audit[i]
        BY <2>3
      <4>3. QED
        BY <1>1, <2>4, <3>1, <4>1, <4>2 DEF O!ReportExplained, O!Closed
    <3>2. CASE ~O!Closed
      BY <1>1, <2>4, <3>2 DEF O!ReportExplained, O!Closed
    <3>3. QED
      BY <3>1, <3>2
  <2>6. O!StatusExplained'
    <3>1. O!StatusByAudit' = O!StatusByAudit
      BY <2>3, AdminStatusKept
    <3>2. QED
      BY <1>1, <3>1 DEF O!StatusExplained
  <2>7. O!RolesHold'
    <3>1. 3 >= O!RoleOf("refund")
      BY DEF O!RoleOf
    <3>2. QED
      BY <2>3, <3>1, AdminRoles
  <2>8. /\ (ojob = [g \in Handlers |-> ojob[g]])' /\ \A g \in Handlers : O!JobFits(ojob[g])'
        /\ O!OnceEach' /\ \A g \in Handlers : ojob'[g] = IF g = h THEN O!Idle ELSE ojob[g]
    BY <1>2, <1>3, <1>4, <1>7, AdminJob
  <2>9. O!RefundExplained'
    BY <1>1, <1>2, <1>3, <1>7, <2>4, <2>8 DEF O!RefundExplained
  <2>10. QED
    BY <1>1, <1>5, <1>7, <2>2, <2>5, <2>6, <2>7, <2>8, <2>9, AdminWhole
<1>8. QED
  BY <1>6, <1>7 DEF O!AuditRefund

LEMMA AdminDeleteUser ==
  ASSUME O!AdminInv, O!DeleteUser \/ UNCHANGED OVars
  PROVE  O!AdminInv'
<1> USE AdminParts
<1>1. UNCHANGED <<report, refunded, audit, ojob, unlogged>>
  BY DEF O!DeleteUser, OVars
<1>2. O!Rows({"refund"})' = O!Rows({"refund"}) /\ O!ReportExplained' /\ O!RolesHold'
  BY <1>1, AdminKept
<1>3. /\ \A g \in Handlers : O!JobFits(ojob[g])'
      /\ O!OnceEach' /\ O!RefundExplained'
  BY <1>1, <1>2 DEF O!JobFits, O!OnceEach, O!RefundExplained
<1>4. Len(audit) \in Nat
  OBVIOUS
<1>5. /\ status' \in {"active", "suspended", "deleted"} /\ fate' \in Int
      /\ O!TombstoneStays'
  BY <1>4 DEF O!DeleteUser, OVars, O!TombstoneStays
<1>6. O!StatusExplained'
  <2>1. CASE status' = status
    BY <1>1, <2>1, AdminKept
  <2>2. CASE status' = "deleted"
    BY <2>2 DEF O!StatusExplained
  <2>3. QED
    BY <2>1, <2>2 DEF O!DeleteUser, OVars
<1>7. QED
  BY <1>1, <1>2, <1>3, <1>5, <1>6, AdminWhole

LEMMA AdminStep == O!AdminInv /\ [O!Next]_OVars => O!AdminInv'
  BY AdminReport, AdminFileReport, AdminResolveReport, AdminResolve, AdminSetStatus,
     AdminAdminRefund, AdminAuditRefund, AdminDeleteUser
     DEF O!Next

-----------------------------------------------------------------------------
(* Analytics.                                                              *)

\* Counting users.
LEMMA DailyCounts ==
  /\ Y!Cardinality({}) = 0
  /\ \A s \in SUBSET Counted : Y!Cardinality(s) \in Nat
  /\ \A s, t \in SUBSET Counted : s \subseteq t =>
        Y!Cardinality(s) <= Y!Cardinality(t) /\ (Y!Cardinality(s) = Y!Cardinality(t) => s = t)
<1>1. \A s : Y!Cardinality(s) = Cardinality(s)
  BY DEF Y!Cardinality, Cardinality, Y!IsFiniteSet, IsFiniteSet
<1>2. \A s \in SUBSET Counted : IsFiniteSet(s) /\ Cardinality(s) \in Nat
  BY AnalyticsConstants, FS_Subset, FS_CardinalityType
<1>3. \A s, t \in SUBSET Counted : s \subseteq t =>
        Cardinality(s) <= Cardinality(t) /\ (Cardinality(s) = Cardinality(t) => s = t)
  BY <1>2, FS_Subset
<1>4. Cardinality({}) = 0
  BY FS_EmptySet
<1>5. QED
  BY <1>1, <1>2, <1>3, <1>4

\* The parts of the invariant.
LEMMA DailyParts ==
  ASSUME Y!AnalyticsInv
  PROVE  /\ today \in Y!Days /\ wire \subseteq Counted \cup {"signup"}
         /\ active \in [Y!Days -> SUBSET Counted] /\ signups \in [Y!Days -> Nat]
         /\ yrow \in [Y!Days -> Y!DailyRow]
         /\ (\A d \in Y!Days : Y!RowExact(d) /\ Y!SketchFits(d)) /\ Y!Ahead
         /\ sketch = [d \in Y!Days |-> sketch[d]] /\ yexpires = [d \in Y!Days |-> yexpires[d]]
         /\ yjob = [p \in Handlers |-> yjob[p]] /\ \A p \in Handlers : Y!JobFits(yjob[p])
  BY DEF Y!AnalyticsInv, Y!AnalyticsSound, Y!TypeOK, Y!RowsExact

LEMMA DailyWhole ==
  ASSUME today' \in Y!Days, wire' \subseteq Counted \cup {"signup"},
         active' \in [Y!Days -> SUBSET Counted], signups' \in [Y!Days -> Nat],
         yrow' \in [Y!Days -> Y!DailyRow],
         \A d \in Y!Days : Y!RowExact(d)', \A d \in Y!Days : Y!SketchFits(d)', Y!Ahead',
         (sketch = [d \in Y!Days |-> sketch[d]])', (yexpires = [d \in Y!Days |-> yexpires[d]])',
         (yjob = [p \in Handlers |-> yjob[p]])', \A p \in Handlers : Y!JobFits(yjob[p])'
  PROVE  Y!AnalyticsInv'
  BY DEF Y!AnalyticsInv, Y!AnalyticsSound, Y!TypeOK, Y!RowsExact

LEMMA DailyDays == \A d \in Y!Days : d \in Nat /\ d <= MaxDay
  BY AnalyticsConstants DEF Y!Days

LEMMA DailyPast ==
  ASSUME today \in Y!Days, NEW d \in 0..today
  PROVE  d \in Y!Days /\ d \in Nat /\ d <= today
  BY AnalyticsConstants DEF Y!Days

\* A month's users are users.
LEMMA DailyMonth ==
  ASSUME active \in [Y!Days -> SUBSET Counted]
  PROVE  \A d \in Y!Days : Y!Month(d) \in SUBSET Counted
<1>1. \A d \in Y!Days : Y!Trailing(d) \subseteq Y!Days
  BY DEF Y!Trailing
<1>2. QED
  BY <1>1 DEF Y!Month

LEMMA DailyInit == Y!Init => Y!AnalyticsInv
<1> SUFFICES ASSUME Y!Init PROVE Y!AnalyticsInv
  OBVIOUS
<1>1. Y!NoRow \in Y!DailyRow /\ Y!NoRow.dau = -1 /\ Y!NoRow.mau = -1 /\ Y!NoRow.signups = -1
  BY DEF Y!NoRow, Y!DailyRow
<1>2. /\ today = 0 /\ wire = {} /\ active = [d \in Y!Days |-> {}]
      /\ signups = [d \in Y!Days |-> 0] /\ yrow = [d \in Y!Days |-> Y!NoRow]
      /\ sketch = [d \in Y!Days |-> {}] /\ yexpires = [d \in Y!Days |-> d]
      /\ yjob = [p \in Handlers |-> Y!Idle]
  BY DEF Y!Init
<1>3. Y!TypeOK
  <2>1. today \in Y!Days
    BY <1>2, AnalyticsConstants DEF Y!Days
  <2>2. QED
    BY <1>1, <1>2, <2>1 DEF Y!TypeOK
<1>4. ASSUME NEW d \in Y!Days
      PROVE  Y!RowExact(d) /\ Y!SketchFits(d)
  <2>1. yrow[d].dau = -1 /\ yrow[d].mau = -1 /\ yrow[d].signups = -1 /\ signups[d] = 0
    BY <1>1, <1>2
  <2>2. Y!Cardinality(active[d]) \in Nat /\ Y!Cardinality(Y!Month(d)) \in Nat
    BY <1>3, DailyCounts, DailyMonth DEF Y!TypeOK
  <2>3. Y!RowExact(d)
    BY <2>1, <2>2 DEF Y!RowExact
  <2>4. d \in Int
    BY DailyDays
  <2>5. QED
    BY <1>2, <2>3, <2>4 DEF Y!SketchFits
<1>5. Y!Ahead
  BY <1>1, <1>2 DEF Y!Ahead
<1>6. Y!Idle.at = "idle"
  BY DEF Y!Idle
<1>7. \A p \in Handlers : Y!JobFits(yjob[p])
  BY <1>2, <1>6 DEF Y!JobFits
<1>8. QED
  BY <1>2, <1>3, <1>4, <1>5, <1>7 DEF Y!AnalyticsInv, Y!AnalyticsSound, Y!RowsExact

\* Where nobody is counted, a month stays.
LEMMA DailySameMonth ==
  ASSUME active' = active
  PROVE  \A d : Y!Month(d)' = Y!Month(d)
  BY DEF Y!Month

\* What a rollup holds still fits, when only days pass or fall behind.
LEMMA DailyHolds ==
  ASSUME today \in Int, today' \in Int, Slack \in Nat,
         active' = active, today <= today', NEW j, Y!JobFits(j),
         behind \subseteq behind' \/ j.at = "idle"
  PROVE  Y!JobFits(j)'
<1>1. CASE j.at = "idle"
  BY <1>1 DEF Y!JobFits
<1>2. CASE j.at # "idle"
  <2>1. /\ j.day \in 0..today /\ j.dau \in Nat /\ j.dau <= Y!Cardinality(active[j.day])
        /\ j.dau # Y!Cardinality(active[j.day]) => j.day \in behind
    BY <1>2 DEF Y!JobFits
  <2>2. j.day \in 0..today'
    BY <2>1
  <2>3. Y!Month(j.day)' = Y!Month(j.day)
    BY DailySameMonth
  <2>4. j.day \in Int /\ (today' <= j.day + 1 + Slack => today <= j.day + 1 + Slack)
    BY <2>1
  <2>5. j.at \in {"setdau", "setmau"} =>
            /\ j.mau \in Nat /\ j.mau <= Y!Cardinality(Y!Month(j.day)')
            /\ j.dau = Y!Cardinality(active[j.day]) /\ today' <= j.day + 1 + Slack
                => j.mau = Y!Cardinality(Y!Month(j.day)')
    BY <2>3, <2>4 DEF Y!JobFits
  <2>6. QED
    BY <1>2, <2>1, <2>2, <2>5 DEF Y!JobFits
<1>3. QED
  BY <1>1, <1>2

\* One rollup moves, the others stay.
LEMMA DailyJob ==
  ASSUME Y!AnalyticsInv, NEW p \in Handlers, NEW next, yjob' = [yjob EXCEPT ![p] = next],
         today' = today, active' = active, Y!JobFits(next)',
         behind \subseteq behind' \/ \A q \in Handlers \ {p} : yjob[q].at = "idle"
  PROVE  (yjob = [q \in Handlers |-> yjob[q]])' /\ \A q \in Handlers : Y!JobFits(yjob[q])'
<1> USE DailyParts
<1>1. /\ (yjob = [q \in Handlers |-> yjob[q]])'
      /\ \A q \in Handlers : yjob'[q] = IF q = p THEN next ELSE yjob[q]
  OBVIOUS
<1>2. ASSUME NEW q \in Handlers
      PROVE  Y!JobFits(yjob[q])'
  <2>1. CASE q = p
    BY <1>1, <2>1 DEF Y!JobFits
  <2>2. CASE q # p
    <3>1. PICK j : j = yjob[q]
      OBVIOUS
    <3>2. Y!JobFits(j) /\ yjob'[q] = j /\ (behind \subseteq behind' \/ j.at = "idle")
      BY <1>1, <2>2, <3>1
    <3>3. today \in Int /\ today' \in Int /\ today <= today'
      BY DailyDays
    <3>4. Y!JobFits(j)'
      BY <3>2, <3>3, DailyHolds, AnalyticsConstants
    <3>5. QED
      BY <3>2, <3>4 DEF Y!JobFits
  <2>3. QED
    BY <2>1, <2>2
<1>3. QED
  BY <1>1, <1>2

\* What is said of the sketches and the days to come stays with them.
LEMMA DailySketches ==
  ASSUME Y!AnalyticsInv, today' = today, active' = active, sketch' = sketch, yexpires' = yexpires
  PROVE  /\ \A d \in Y!Days : Y!SketchFits(d)'
         /\ (sketch = [d \in Y!Days |-> sketch[d]])' /\ (yexpires = [d \in Y!Days |-> yexpires[d]])'
  BY DailyParts DEF Y!SketchFits

\* The rows that stay.
LEMMA DailyRowStays ==
  ASSUME today' = today, active' = active, NEW d \in Y!Days, Y!RowExact(d), yrow'[d] = yrow[d],
         signups'[d] = signups[d], d \in behind => d \in behind'
  PROVE  Y!RowExact(d)'
  BY DailySameMonth DEF Y!RowExact, Y!Kept

LEMMA DailyEmit ==
  ASSUME Y!AnalyticsInv, NEW e \in Counted \cup {"signup"}, Y!Emit(e)
  PROVE  Y!AnalyticsInv'
<1> USE DailyParts
<1>1. /\ UNCHANGED <<today, sketch, yexpires, yrow, yjob, active, signups, behind>>
      /\ wire' \subseteq Counted \cup {"signup"}
  BY DEF Y!Emit
<1>2. \A d \in Y!Days : Y!RowExact(d)'
  BY <1>1, DailyRowStays
<1>3. Y!Ahead'
  BY <1>1 DEF Y!Ahead
<1>4. \A p \in Handlers : Y!JobFits(yjob[p])'
  BY <1>1, DailySameMonth DEF Y!JobFits
<1>5. QED
  BY <1>1, <1>2, <1>3, <1>4, DailySketches, DailyWhole

LEMMA DailyCountDaily ==
  ASSUME Y!AnalyticsInv, NEW p \in Handlers, Y!CountDaily(p)
  PROVE  Y!AnalyticsInv'
<1> USE DailyParts
<1>1. UNCHANGED <<today, wire, sketch, yexpires, yrow, active, signups, behind>>
  BY DEF Y!CountDaily
<1>2. PICK next : next = [at |-> "month", day |-> today, dau |-> Y!Cardinality(sketch[today])]
  OBVIOUS
<1>3. /\ next.at = "month" /\ next.day = today /\ next.dau = Y!Cardinality(sketch[today])
      /\ yjob' = [yjob EXCEPT ![p] = next]
  BY <1>2 DEF Y!CountDaily
<1>4. sketch[today] = active[today] /\ today \in 0..today
  <2>1. today \in Nat /\ Y!Ttl \in Nat
    BY DailyDays, AnalyticsConstants DEF Y!Ttl
  <2>2. QED
    BY <2>1 DEF Y!SketchFits
<1>5. Y!Cardinality(active[today]) \in Nat
  BY DailyCounts
<1>6. Y!JobFits(next)'
  BY <1>1, <1>3, <1>4, <1>5 DEF Y!JobFits
<1>7. \A d \in Y!Days : Y!RowExact(d)'
  BY <1>1, DailyRowStays
<1>8. Y!Ahead'
  BY <1>1 DEF Y!Ahead
<1>9. (yjob = [q \in Handlers |-> yjob[q]])' /\ \A q \in Handlers : Y!JobFits(yjob[q])'
  BY <1>1, <1>3, <1>6, DailyJob
<1>10. QED
  BY <1>1, <1>7, <1>8, <1>9, DailySketches, DailyWhole

\* The sketches of a window are its users, until the oldest has expired.
LEMMA DailyUnion ==
  ASSUME Y!AnalyticsInv, NEW d \in Y!Days
  PROVE  /\ Y!Union(Y!Trailing(d)) \subseteq Y!Month(d)
         /\ today <= d + 1 + Slack => Y!Union(Y!Trailing(d)) = Y!Month(d)
<1> USE DailyParts
<1>1. \A e \in Y!Trailing(d) : e \in Y!Days /\ sketch[e] \subseteq active[e]
  BY DEF Y!Trailing, Y!SketchFits
<1>2. Y!Union(Y!Trailing(d)) \subseteq Y!Month(d)
  BY <1>1 DEF Y!Union, Y!Month
<1>3. ASSUME today <= d + 1 + Slack
      PROVE  \A e \in Y!Trailing(d) : sketch[e] = active[e]
  <2>1. SUFFICES ASSUME NEW e \in Y!Days, e > d - MAUWindow PROVE sketch[e] = active[e]
    BY DEF Y!Trailing
  <2>2. /\ today \in Int /\ d \in Int /\ e \in Int /\ MAUWindow \in Nat /\ Slack \in Nat
        /\ Y!Ttl = MAUWindow + Slack
    BY DailyDays, AnalyticsConstants DEF Y!Ttl
  <2>3. today <= e + Y!Ttl
    BY <1>3, <2>1, <2>2
  <2>4. QED
    BY <2>3 DEF Y!SketchFits
<1>4. today <= d + 1 + Slack => Y!Union(Y!Trailing(d)) = Y!Month(d)
  BY <1>3 DEF Y!Union, Y!Month
<1>5. QED
  BY <1>2, <1>4

LEMMA DailyCountMonthly ==
  ASSUME Y!AnalyticsInv, NEW p \in Handlers, Y!CountMonthly(p)
  PROVE  Y!AnalyticsInv'
<1> USE DailyParts
<1>1. UNCHANGED <<today, wire, sketch, yexpires, yrow, active, signups, behind>> /\ yjob[p].at = "month"
  BY DEF Y!CountMonthly
<1>2. PICK d : d = yjob[p].day
  OBVIOUS
<1>3. /\ d \in 0..today /\ yjob[p].dau \in Nat /\ yjob[p].dau <= Y!Cardinality(active[d])
      /\ yjob[p].dau # Y!Cardinality(active[d]) => d \in behind
  BY <1>1, <1>2 DEF Y!JobFits
<1>4. PICK next : next = [at |-> "setdau", day |-> d, dau |-> yjob[p].dau,
                          mau |-> Y!Cardinality(Y!Union(Y!Trailing(d)))]
  OBVIOUS
<1>5. /\ next.at = "setdau" /\ next.day = d /\ next.dau = yjob[p].dau
      /\ next.mau = Y!Cardinality(Y!Union(Y!Trailing(d)))
  BY <1>4
<1>6. yjob' = [yjob EXCEPT ![p] = next]
  BY <1>2, <1>4 DEF Y!CountMonthly
<1>7. d \in Y!Days
  BY <1>3, DailyPast
<1>8. Y!Month(d) \in SUBSET Counted
  BY <1>7, DailyMonth
<1>9. Y!Union(Y!Trailing(d)) \in SUBSET Counted
  BY <1>7, <1>8, DailyUnion
<1>10. /\ next.mau \in Nat /\ next.mau <= Y!Cardinality(Y!Month(d))
       /\ today <= d + 1 + Slack => next.mau = Y!Cardinality(Y!Month(d))
  <2>1. PICK c, m : c = Y!Union(Y!Trailing(d)) /\ m = Y!Month(d)
    OBVIOUS
  <2>2. c \in SUBSET Counted /\ m \in SUBSET Counted /\ c \subseteq m /\ (today <= d + 1 + Slack => c = m)
    BY <1>7, <1>8, <1>9, <2>1, DailyUnion
  <2>3. Y!Cardinality(c) \in Nat /\ Y!Cardinality(c) <= Y!Cardinality(m)
    BY <2>2, DailyCounts
  <2>4. QED
    BY <1>5, <2>1, <2>2, <2>3
<1>11. Y!Month(d)' = Y!Month(d)
  BY <1>1, DailySameMonth
<1>12. Y!JobFits(next)'
  BY <1>1, <1>3, <1>5, <1>10, <1>11 DEF Y!JobFits
<1>13. \A e \in Y!Days : Y!RowExact(e)'
  BY <1>1, DailyRowStays
<1>14. Y!Ahead'
  BY <1>1 DEF Y!Ahead
<1>15. (yjob = [q \in Handlers |-> yjob[q]])' /\ \A q \in Handlers : Y!JobFits(yjob[q])'
  BY <1>1, <1>6, <1>12, DailyJob
<1>16. QED
  BY <1>1, <1>13, <1>14, <1>15, DailySketches, DailyWhole

LEMMA DailyFails ==
  ASSUME Y!AnalyticsInv, NEW p \in Handlers, Y!RollupFails(p)
  PROVE  Y!AnalyticsInv'
<1> USE DailyParts
<1>1. /\ UNCHANGED <<today, wire, sketch, yexpires, yrow, active, signups>>
      /\ behind \subseteq behind' /\ yjob' = [yjob EXCEPT ![p] = Y!Idle]
  BY DEF Y!RollupFails
<1>2. Y!Idle.at = "idle"
  BY DEF Y!Idle
<1>3. Y!JobFits(Y!Idle)'
  BY <1>2 DEF Y!JobFits
<1>4. \A d \in Y!Days : Y!RowExact(d)'
  BY <1>1, DailyRowStays
<1>5. Y!Ahead'
  BY <1>1 DEF Y!Ahead
<1>6. (yjob = [q \in Handlers |-> yjob[q]])' /\ \A q \in Handlers : Y!JobFits(yjob[q])'
  BY <1>1, <1>3, DailyJob
<1>7. QED
  BY <1>1, <1>4, <1>5, <1>6, DailySketches, DailyWhole

LEMMA DailyMidnight ==
  ASSUME Y!AnalyticsInv, Y!Midnight
  PROVE  Y!AnalyticsInv'
<1> USE DailyParts
<1>1. /\ UNCHANGED <<wire, yexpires, yrow, yjob, active, signups, behind>>
      /\ today' = today + 1 /\ today < MaxDay
      /\ sketch' = [d \in Y!Days |-> IF d <= today /\ yexpires[d] < today' THEN {} ELSE sketch[d]]
  BY DEF Y!Midnight
<1>2. today \in Nat /\ today' \in Nat /\ today' \in Y!Days /\ today <= today' /\ Y!Ttl \in Nat
  BY <1>1, DailyDays, AnalyticsConstants DEF Y!Days, Y!Ttl
<1>3. ASSUME NEW d \in Y!Days
      PROVE  Y!SketchFits(d)'
  <2>1. d \in Nat /\ yexpires[d] \in Int
    BY DailyDays DEF Y!SketchFits
  <2>2. sketch'[d] = IF d <= today /\ yexpires[d] < today' THEN {} ELSE sketch[d]
    BY <1>1
  <2>3. sketch'[d] \subseteq active[d]
    BY <2>2 DEF Y!SketchFits
  <2>4. today' <= d + Y!Ttl => sketch'[d] = active[d]
    <3>1. CASE d <= today /\ yexpires[d] < today'
      <4>1. active[d] # {} => yexpires[d] = d + Y!Ttl
        BY DEF Y!SketchFits
      <4>2. today' <= d + Y!Ttl => active[d] = {}
        BY <1>2, <2>1, <3>1, <4>1
      <4>3. QED
        BY <2>2, <3>1, <4>2
    <3>2. CASE ~(d <= today /\ yexpires[d] < today')
      <4>1. today' <= d + Y!Ttl => today <= d + Y!Ttl
        BY <1>1, <1>2, <2>1
      <4>2. QED
        BY <2>2, <3>2, <4>1 DEF Y!SketchFits
    <3>3. QED
      BY <3>1, <3>2
  <2>5. active[d] # {} => yexpires[d] = d + Y!Ttl
    BY DEF Y!SketchFits
  <2>6. Y!Ttl' = Y!Ttl
    BY DEF Y!Ttl
  <2>7. QED
    BY <1>1, <2>1, <2>3, <2>4, <2>5, <2>6 DEF Y!SketchFits
<1>4. ASSUME NEW d \in Y!Days
      PROVE  Y!RowExact(d)'
  <2>1. d \in Nat /\ Retention \in Nat
    BY DailyDays, AnalyticsConstants
  <2>2. Y!Kept(d)' => Y!Kept(d)
    BY <1>1, <1>2, <2>1 DEF Y!Kept
  <2>3. QED
    BY <1>1, <2>2, DailySameMonth DEF Y!RowExact
<1>5. Y!Ahead'
  BY <1>1, <1>2, DailyDays DEF Y!Ahead
<1>6. ASSUME NEW q \in Handlers
      PROVE  Y!JobFits(yjob[q])'
  <2>1. PICK j : j = yjob[q]
    OBVIOUS
  <2>2. Y!JobFits(j) /\ yjob'[q] = j
    BY <1>1, <2>1
  <2>3. Y!JobFits(j)'
    BY <1>1, <1>2, <2>2, DailyHolds, AnalyticsConstants
  <2>4. QED
    BY <2>2, <2>3 DEF Y!JobFits
<1>7. (sketch = [d \in Y!Days |-> sketch[d]])'
  BY <1>1
<1>8. QED
  BY <1>1, <1>2, <1>3, <1>4, <1>5, <1>6, <1>7, DailyWhole

LEMMA DailyPurge ==
  ASSUME Y!AnalyticsInv, Y!Purge
  PROVE  Y!AnalyticsInv'
<1> USE DailyParts
<1>1. /\ UNCHANGED <<today, wire, sketch, yexpires, yjob, active, signups, behind>>
      /\ yrow' = [d \in Y!Days |-> IF d < today - Retention THEN Y!NoRow ELSE yrow[d]]
  BY DEF Y!Purge
<1>2. Y!NoRow \in Y!DailyRow /\ Y!NoRow.dau = -1 /\ Y!NoRow.mau = -1 /\ Y!NoRow.signups = -1
  BY DEF Y!NoRow, Y!DailyRow
<1>3. yrow' \in [Y!Days -> Y!DailyRow]
  BY <1>1, <1>2
<1>4. ASSUME NEW d \in Y!Days
      PROVE  Y!RowExact(d)'
  <2>1. CASE d < today - Retention
    <3>1. d \in Nat /\ today \in Nat /\ Retention \in Nat
      BY DailyDays, AnalyticsConstants
    <3>2. ~Y!Kept(d)' /\ yrow'[d] = Y!NoRow
      BY <1>1, <2>1, <3>1 DEF Y!Kept
    <3>3. Y!Cardinality(active[d]) \in Nat /\ Y!Cardinality(Y!Month(d)) \in Nat
      BY DailyCounts, DailyMonth
    <3>4. Y!Month(d)' = Y!Month(d)
      BY <1>1, DailySameMonth
    <3>5. QED
      BY <1>1, <1>2, <3>2, <3>3, <3>4 DEF Y!RowExact
  <2>2. CASE ~(d < today - Retention)
    <3>1. yrow'[d] = yrow[d]
      BY <1>1, <2>2
    <3>2. QED
      BY <1>1, <3>1, DailyRowStays
  <2>3. QED
    BY <2>1, <2>2
<1>5. Y!Ahead'
  BY <1>1, <1>2 DEF Y!Ahead
<1>6. \A p \in Handlers : Y!JobFits(yjob[p])'
  BY <1>1, DailySameMonth DEF Y!JobFits
<1>7. QED
  BY <1>1, <1>3, <1>4, <1>5, <1>6, DailySketches, DailyWhole

\* One row is written, the others stay.
LEMMA DailyNewRow ==
  ASSUME Y!AnalyticsInv, NEW d \in Y!Days, d <= today, NEW r \in Y!DailyRow,
         yrow' = [yrow EXCEPT ![d] = r], today' = today, active' = active,
         \A e \in Y!Days \ {d} : signups'[e] = signups[e] /\ (e \in behind => e \in behind'),
         Y!RowExact(d)'
  PROVE  yrow' \in [Y!Days -> Y!DailyRow] /\ Y!Ahead' /\ \A e \in Y!Days : Y!RowExact(e)'
<1> USE DailyParts
<1>1. yrow' \in [Y!Days -> Y!DailyRow] /\ \A e \in Y!Days \ {d} : yrow'[e] = yrow[e]
  OBVIOUS
<1>2. \A e \in Y!Days : e > today => e # d
  BY DailyDays
<1>3. Y!Ahead'
  BY <1>1, <1>2 DEF Y!Ahead
<1>4. ASSUME NEW e \in Y!Days
      PROVE  Y!RowExact(e)'
  <2>1. CASE e = d
    BY <2>1
  <2>2. CASE e # d
    BY <1>1, <2>2, DailyRowStays
  <2>3. QED
    BY <2>1, <2>2
<1>5. QED
  BY <1>1, <1>3, <1>4

LEMMA DailySetDaily ==
  ASSUME Y!AnalyticsInv, NEW p \in Handlers, Y!SetDaily(p)
  PROVE  Y!AnalyticsInv'
<1> USE DailyParts
<1>1. UNCHANGED <<today, wire, sketch, yexpires, active, signups, behind>> /\ yjob[p].at = "setdau"
  BY DEF Y!SetDaily
<1>2. PICK d, u : d = yjob[p].day /\ u = yjob[p].dau
  OBVIOUS
<1>3. /\ d \in 0..today /\ u \in Nat /\ u <= Y!Cardinality(active[d])
      /\ u # Y!Cardinality(active[d]) => d \in behind
  BY <1>1, <1>2 DEF Y!JobFits
<1>4. d \in Y!Days /\ d <= today
  BY <1>3, DailyPast
<1>5. PICK r : r = [yrow[d] EXCEPT !.dau = u]
  OBVIOUS
<1>6. /\ r \in Y!DailyRow /\ r.dau = u /\ r.mau = yrow[d].mau /\ r.signups = yrow[d].signups
  <2>1. yrow[d] \in Y!DailyRow
    BY <1>4
  <2>2. QED
    BY <1>3, <1>5, <2>1 DEF Y!DailyRow
<1>7. yrow' = [yrow EXCEPT ![d] = r]
  BY <1>2, <1>5 DEF Y!SetDaily
<1>8. Y!RowExact(d)'
  <2>1. yrow'[d] = r
    BY <1>4, <1>7
  <2>2. Y!Month(d)' = Y!Month(d) /\ Y!Kept(d)' = Y!Kept(d)
    BY <1>1, DailySameMonth DEF Y!Kept
  <2>3. Y!RowExact(d)
    BY <1>4
  <2>4. QED
    BY <1>1, <1>3, <1>6, <2>1, <2>2, <2>3 DEF Y!RowExact
<1>9. yrow' \in [Y!Days -> Y!DailyRow] /\ Y!Ahead' /\ \A e \in Y!Days : Y!RowExact(e)'
  BY <1>1, <1>4, <1>6, <1>7, <1>8, DailyNewRow
<1>10. PICK next : next = [at |-> "setmau", day |-> yjob[p].day, dau |-> yjob[p].dau,
                           mau |-> yjob[p].mau]
  OBVIOUS
<1>11. yjob' = [yjob EXCEPT ![p] = next]
  BY <1>10 DEF Y!SetDaily
<1>12. PICK j : j = yjob[p]
  OBVIOUS
<1>13. Y!JobFits(next)'
  <2>1. next.day = j.day /\ next.dau = j.dau /\ next.mau = j.mau /\ next.at = "setmau"
    BY <1>10, <1>12
  <2>2. Y!JobFits(j) /\ j.at = "setdau" /\ Y!Month(j.day)' = Y!Month(j.day)
    BY <1>1, <1>12, DailySameMonth
  <2>3. QED
    BY <1>1, <2>1, <2>2 DEF Y!JobFits
<1>14. (yjob = [q \in Handlers |-> yjob[q]])' /\ \A q \in Handlers : Y!JobFits(yjob[q])'
  BY <1>1, <1>11, <1>13, DailyJob
<1>15. QED
  BY <1>1, <1>9, <1>14, DailySketches, DailyWhole

LEMMA DailySetMonthly ==
  ASSUME Y!AnalyticsInv, NEW p \in Handlers, Y!SetMonthly(p)
  PROVE  Y!AnalyticsInv'
<1> USE DailyParts
<1>1. UNCHANGED <<today, wire, sketch, yexpires, active, signups>> /\ yjob[p].at = "setmau"
  BY DEF Y!SetMonthly
<1>2. PICK d, u, m : d = yjob[p].day /\ u = yjob[p].dau /\ m = yjob[p].mau
  OBVIOUS
<1>3. /\ d \in 0..today /\ u \in Nat /\ u <= Y!Cardinality(active[d])
      /\ m \in Nat /\ m <= Y!Cardinality(Y!Month(d))
      /\ u = Y!Cardinality(active[d]) /\ today <= d + 1 + Slack => m = Y!Cardinality(Y!Month(d))
  BY <1>1, <1>2 DEF Y!JobFits
<1>4. d \in Y!Days /\ d <= today
  BY <1>3, DailyPast
<1>5. PICK r : r = [yrow[d] EXCEPT !.mau = m]
  OBVIOUS
<1>6. /\ r \in Y!DailyRow /\ r.mau = m /\ r.dau = yrow[d].dau /\ r.signups = yrow[d].signups
  <2>1. yrow[d] \in Y!DailyRow
    BY <1>4
  <2>2. QED
    BY <1>3, <1>5, <2>1 DEF Y!DailyRow
<1>7. /\ yrow' = [yrow EXCEPT ![d] = r] /\ yjob' = [yjob EXCEPT ![p] = Y!Idle]
      /\ behind' = IF /\ u = Y!Cardinality(active[d]) /\ r.dau = u
                      /\ (\A q \in Handlers \ {p} : yjob[q] = Y!Idle) /\ today <= d + 1 + Slack
                   THEN behind \ {d} ELSE behind \cup {d}
  BY <1>2, <1>5 DEF Y!SetMonthly
<1>8. Y!RowExact(d)'
  <2>1. yrow'[d] = r
    BY <1>4, <1>7
  <2>2. Y!Month(d)' = Y!Month(d) /\ Y!Kept(d)' = Y!Kept(d)
    BY <1>1, DailySameMonth DEF Y!Kept
  <2>3. Y!RowExact(d)
    BY <1>4
  <2>4. d \notin behind' => r.dau = Y!Cardinality(active[d]) /\ m = Y!Cardinality(Y!Month(d))
    BY <1>3, <1>7
  <2>5. QED
    BY <1>1, <1>3, <1>6, <2>1, <2>2, <2>3, <2>4 DEF Y!RowExact
<1>9. yrow' \in [Y!Days -> Y!DailyRow] /\ Y!Ahead' /\ \A e \in Y!Days : Y!RowExact(e)'
  <2>1. \A e \in Y!Days \ {d} : signups'[e] = signups[e] /\ (e \in behind => e \in behind')
    BY <1>1, <1>7
  <2>2. QED
    BY <1>1, <1>4, <1>6, <1>7, <1>8, <2>1, DailyNewRow
<1>10. Y!Idle.at = "idle"
  BY DEF Y!Idle
<1>11. Y!JobFits(Y!Idle)'
  BY <1>10 DEF Y!JobFits
<1>12. behind \subseteq behind' \/ \A q \in Handlers \ {p} : yjob[q].at = "idle"
  BY <1>7, <1>10
<1>13. (yjob = [q \in Handlers |-> yjob[q]])' /\ \A q \in Handlers : Y!JobFits(yjob[q])'
  BY <1>1, <1>7, <1>11, <1>12, DailyJob
<1>14. QED
  BY <1>1, <1>9, <1>13, DailySketches, DailyWhole

\* A user is counted today.
LEMMA DailyGrows ==
  ASSUME Y!AnalyticsInv, NEW e \in Counted, active' = [active EXCEPT ![today] = @ \cup {e}]
  PROVE  /\ active' \in [Y!Days -> SUBSET Counted]
         /\ \A d \in Y!Days : /\ active[d] \subseteq active'[d]
                              /\ Y!Month(d) \subseteq Y!Month(d)' /\ Y!Month(d)' \in SUBSET Counted
                              /\ d < today => active'[d] = active[d] /\ Y!Month(d)' = Y!Month(d)
         /\ active'[today] = active[today] => active' = active
<1> USE DailyParts
<1>1. active' \in [Y!Days -> SUBSET Counted]
  OBVIOUS
<1>2. \A d \in Y!Days : active[d] \subseteq active'[d] /\ (d # today => active'[d] = active[d])
  OBVIOUS
<1>3. ASSUME NEW d \in Y!Days
      PROVE  Y!Month(d) \subseteq Y!Month(d)' /\ Y!Month(d)' \in SUBSET Counted
  <2>1. Y!Trailing(d) \subseteq Y!Days
    BY DEF Y!Trailing
  <2>2. Y!Month(d) = UNION {active[c] : c \in Y!Trailing(d)} /\ Y!Month(d)' = UNION {active'[c] : c \in Y!Trailing(d)}
    BY DEF Y!Month, Y!Trailing, Y!Days
  <2>3. QED
    BY <1>1, <1>2, <2>1, <2>2
<1>4. ASSUME NEW d \in Y!Days, d < today
      PROVE  active'[d] = active[d] /\ Y!Month(d)' = Y!Month(d)
  <2>1. \A c \in Y!Trailing(d) : c \in Y!Days /\ c <= d
    BY DEF Y!Trailing
  <2>2. d \in Nat /\ today \in Nat /\ \A c \in Y!Days : c \in Nat
    BY DailyDays
  <2>3. \A c \in Y!Trailing(d) : c \in Y!Days /\ c # today
    BY <1>4, <2>1, <2>2
  <2>4. \A c \in Y!Trailing(d) : active'[c] = active[c]
    BY <1>2, <2>3
  <2>5. Y!Month(d) = UNION {active[c] : c \in Y!Trailing(d)} /\ Y!Month(d)' = UNION {active'[c] : c \in Y!Trailing(d)}
    BY DEF Y!Month, Y!Trailing, Y!Days
  <2>6. d # today
    BY <1>4, <2>2
  <2>7. QED
    BY <1>2, <2>4, <2>5, <2>6
<1>5. active'[today] = active[today] => active' = active
  OBVIOUS
<1>6. QED
  BY <1>1, <1>2, <1>3, <1>4, <1>5

LEMMA DailyGrownJob ==
  ASSUME Y!AnalyticsInv, NEW e \in Counted, active' = [active EXCEPT ![today] = @ \cup {e}],
         today' = today, behind' = behind \cup {today}, NEW j, Y!JobFits(j)
  PROVE  Y!JobFits(j)'
<1> USE DailyParts
<1>1. CASE j.at = "idle"
  BY <1>1 DEF Y!JobFits
<1>2. CASE j.at # "idle"
  <2>1. PICK d, u : d = j.day /\ u = j.dau
    OBVIOUS
  <2>2. /\ j.at \in {"month", "setdau", "setmau"}
        /\ d \in 0..today /\ u \in Nat /\ u <= Y!Cardinality(active[d])
        /\ u # Y!Cardinality(active[d]) => d \in behind
        /\ j.at \in {"setdau", "setmau"} =>
            /\ j.mau \in Nat /\ j.mau <= Y!Cardinality(Y!Month(d))
            /\ u = Y!Cardinality(active[d]) /\ today <= d + 1 + Slack
                => j.mau = Y!Cardinality(Y!Month(d))
    BY <1>2, <2>1 DEF Y!JobFits
  <2>3. d \in Y!Days /\ d \in Nat /\ d <= today /\ today \in Nat
    BY <2>2, DailyPast, DailyDays
  <2>4. PICK a, b, m, n : a = active[d] /\ b = active'[d] /\ m = Y!Month(d) /\ n = Y!Month(d)'
    OBVIOUS
  <2>5. /\ a \in SUBSET Counted /\ b \in SUBSET Counted /\ a \subseteq b
        /\ m \in SUBSET Counted /\ n \in SUBSET Counted /\ m \subseteq n
        /\ d < today => a = b /\ m = n
    BY <2>3, <2>4, DailyGrows, DailyMonth
  <2>6. /\ Y!Cardinality(a) \in Nat /\ Y!Cardinality(b) \in Nat /\ Y!Cardinality(a) <= Y!Cardinality(b)
        /\ Y!Cardinality(m) \in Nat /\ Y!Cardinality(n) \in Nat /\ Y!Cardinality(m) <= Y!Cardinality(n)
        /\ Y!Cardinality(a) = Y!Cardinality(b) => a = b
    BY <2>5, DailyCounts
  <2>7. d = today \/ d < today
    BY <2>3
  <2>8. a = b => m = n
    <3>1. CASE d = today
      <4>1. a = b => active' = active
        BY <2>4, <3>1, DailyGrows
      <4>2. QED
        BY <2>4, <4>1, DailySameMonth
    <3>2. QED
      BY <2>5, <2>7, <3>1
  <2>9. u <= Y!Cardinality(b) /\ (u # Y!Cardinality(b) => d \in behind')
    <3>1. u <= Y!Cardinality(b)
      BY <2>2, <2>4, <2>6
    <3>2. CASE d = today
      BY <3>1, <3>2
    <3>3. CASE d < today
      BY <2>2, <2>4, <2>5, <3>1, <3>3
    <3>4. QED
      BY <2>7, <3>2, <3>3
  <2>10. u = Y!Cardinality(b) => a = b
    BY <2>2, <2>4, <2>6
  <2>11. j.at \in {"setdau", "setmau"} =>
            /\ j.mau \in Nat /\ j.mau <= Y!Cardinality(n)
            /\ u = Y!Cardinality(b) /\ today <= d + 1 + Slack => j.mau = Y!Cardinality(n)
    <3>1. SUFFICES ASSUME j.at \in {"setdau", "setmau"}
                   PROVE  /\ j.mau \in Nat /\ j.mau <= Y!Cardinality(n)
                          /\ u = Y!Cardinality(b) /\ today <= d + 1 + Slack => j.mau = Y!Cardinality(n)
      OBVIOUS
    <3>2. j.mau \in Nat /\ j.mau <= Y!Cardinality(m)
      BY <2>2, <2>4, <3>1
    <3>3. j.mau <= Y!Cardinality(n)
      BY <2>6, <3>2
    <3>4. u = Y!Cardinality(b) /\ today <= d + 1 + Slack => j.mau = Y!Cardinality(n)
      BY <2>2, <2>4, <2>8, <2>10, <3>1
    <3>5. QED
      BY <3>2, <3>3, <3>4
  <2>12. QED
    BY <2>1, <2>2, <2>4, <2>9, <2>11 DEF Y!JobFits
<1>3. QED
  BY <1>1, <1>2

LEMMA DailyGrownRow ==
  ASSUME Y!AnalyticsInv, NEW e \in Counted, active' = [active EXCEPT ![today] = @ \cup {e}],
         today' = today, behind' = behind \cup {today}, yrow' = yrow, signups' = signups,
         NEW d \in Y!Days
  PROVE  Y!RowExact(d)'
<1> USE DailyParts
<1>1. PICK a, b, m, n : a = active[d] /\ b = active'[d] /\ m = Y!Month(d) /\ n = Y!Month(d)'
  OBVIOUS
<1>2. /\ a \in SUBSET Counted /\ b \in SUBSET Counted /\ a \subseteq b
      /\ m \in SUBSET Counted /\ n \in SUBSET Counted /\ m \subseteq n
      /\ d < today => a = b /\ m = n
  BY <1>1, DailyGrows, DailyMonth
<1>3. /\ Y!Cardinality(a) \in Nat /\ Y!Cardinality(b) \in Nat /\ Y!Cardinality(a) <= Y!Cardinality(b)
      /\ Y!Cardinality(m) \in Nat /\ Y!Cardinality(n) \in Nat /\ Y!Cardinality(m) <= Y!Cardinality(n)
  BY <1>2, DailyCounts
<1>4. PICK r : r = yrow[d]
  OBVIOUS
<1>5. r.dau \in Int /\ r.mau \in Int
  <2>1. r \in Y!DailyRow
    BY <1>4
  <2>2. QED
    BY <2>1 DEF Y!DailyRow
<1>6. /\ r.dau <= Y!Cardinality(a) /\ r.mau <= Y!Cardinality(m)
      /\ Y!Kept(d) => signups[d] = IF r.signups = -1 THEN 0 ELSE r.signups
      /\ r.mau >= 0 /\ d \notin behind => r.dau = Y!Cardinality(a) /\ r.mau = Y!Cardinality(m)
  BY <1>1, <1>4 DEF Y!RowExact
<1>7. r.dau <= Y!Cardinality(b) /\ r.mau <= Y!Cardinality(n)
  BY <1>3, <1>5, <1>6
<1>8. ASSUME r.mau >= 0, d \notin behind'
      PROVE  r.dau = Y!Cardinality(b) /\ r.mau = Y!Cardinality(n)
  <2>1. d # today /\ d \notin behind
    BY <1>8
  <2>2. ~(d > today)
    BY <1>4, <1>8 DEF Y!Ahead
  <2>3. d < today
    BY <2>1, <2>2, DailyDays
  <2>4. QED
    BY <1>2, <1>6, <1>8, <2>1, <2>3
<1>9. Y!Kept(d)' = Y!Kept(d)
  BY DEF Y!Kept
<1>10. QED
  BY <1>1, <1>4, <1>6, <1>7, <1>8, <1>9 DEF Y!RowExact

LEMMA DailyIngestUser ==
  ASSUME Y!AnalyticsInv, NEW e \in Counted, wire' \subseteq wire,
         sketch' = [sketch EXCEPT ![today] = @ \cup {e}],
         yexpires' = [yexpires EXCEPT ![today] = today + Y!Ttl],
         active' = [active EXCEPT ![today] = @ \cup {e}],
         behind' = behind \cup {today}, UNCHANGED <<today, yrow, yjob, signups>>
  PROVE  Y!AnalyticsInv'
<1> USE DailyParts
<1>1. today \in Nat /\ Y!Ttl \in Nat
  BY DailyDays, AnalyticsConstants DEF Y!Ttl
<1>2. active' \in [Y!Days -> SUBSET Counted]
  BY DailyGrows
<1>3. ASSUME NEW d \in Y!Days
      PROVE  Y!SketchFits(d)'
  <2>1. Y!Ttl' = Y!Ttl
    BY DEF Y!Ttl
  <2>2. CASE d = today
    <3>1. sketch[today] = active[today]
      BY <1>1 DEF Y!SketchFits
    <3>2. sketch'[today] = active'[today] /\ yexpires'[today] = today + Y!Ttl
      BY <3>1
    <3>3. today + Y!Ttl \in Int
      BY <1>1
    <3>4. QED
      BY <2>1, <2>2, <3>2, <3>3 DEF Y!SketchFits
  <2>3. CASE d # today
    <3>1. sketch'[d] = sketch[d] /\ active'[d] = active[d] /\ yexpires'[d] = yexpires[d]
      BY <2>3
    <3>2. QED
      BY <2>1, <3>1 DEF Y!SketchFits
  <2>4. QED
    BY <2>2, <2>3
<1>4. Y!Ahead'
  <2>1. \A d \in Y!Days : d > today => active'[d] = active[d]
    BY <1>1, DailyDays
  <2>2. QED
    BY <2>1 DEF Y!Ahead
<1>5. \A d \in Y!Days : Y!RowExact(d)'
  BY DailyGrownRow
<1>6. ASSUME NEW p \in Handlers
      PROVE  Y!JobFits(yjob[p])'
  <2>1. PICK j : j = yjob[p]
    OBVIOUS
  <2>2. Y!JobFits(j)' /\ yjob'[p] = j
    BY <2>1, DailyGrownJob
  <2>3. QED
    BY <2>2 DEF Y!JobFits
<1>7. /\ (sketch = [d \in Y!Days |-> sketch[d]])' /\ (yexpires = [d \in Y!Days |-> yexpires[d]])'
      /\ (yjob = [p \in Handlers |-> yjob[p]])' /\ wire' \subseteq Counted \cup {"signup"}
  OBVIOUS
<1>8. QED
  BY <1>2, <1>3, <1>4, <1>5, <1>6, <1>7, DailyWhole

LEMMA DailyIngestSignup ==
  ASSUME Y!AnalyticsInv, wire' \subseteq wire,
         yrow' = [yrow EXCEPT ![today].signups = IF @ = -1 THEN 1 ELSE @ + 1],
         signups' = [signups EXCEPT ![today] = @ + 1],
         UNCHANGED <<today, sketch, yexpires, yjob, active, behind>>
  PROVE  Y!AnalyticsInv'
<1> USE DailyParts
<1>1. PICK s : s = IF yrow[today].signups = -1 THEN 1 ELSE yrow[today].signups + 1
  OBVIOUS
<1>2. PICK r : r = [yrow[today] EXCEPT !.signups = s]
  OBVIOUS
<1>3. yrow[today] \in Y!DailyRow
  OBVIOUS
<1>4. s \in Nat /\ s # -1 /\ s = (IF yrow[today].signups = -1 THEN 0 ELSE yrow[today].signups) + 1
  BY <1>1, <1>3 DEF Y!DailyRow
<1>5. r \in Y!DailyRow /\ r.signups = s /\ r.dau = yrow[today].dau /\ r.mau = yrow[today].mau
  BY <1>2, <1>3, <1>4 DEF Y!DailyRow
<1>6. yrow' = [yrow EXCEPT ![today] = r]
  BY <1>1, <1>2
<1>7. today \in Nat /\ Retention \in Nat /\ signups \in [Y!Days -> Nat]
  BY DailyDays, AnalyticsConstants
<1>8. signups' \in [Y!Days -> Nat] /\ signups'[today] = signups[today] + 1
  BY <1>7
<1>9. PICK d : d = today
  OBVIOUS
<1>10. d \in Y!Days /\ d <= today /\ yrow' = [yrow EXCEPT ![d] = r] /\ yrow'[d] = r
  <2>1. d \in Y!Days /\ yrow' = [yrow EXCEPT ![d] = r]
    BY <1>6, <1>9
  <2>2. d <= today
    BY <1>7, <1>9
  <2>3. QED
    BY <2>1, <2>2
<1>11. Y!RowExact(d)'
  <2>1. Y!Month(d)' = Y!Month(d) /\ Y!Kept(d)
    BY <1>7, <1>9, DailySameMonth DEF Y!Kept
  <2>2. Y!RowExact(d)
    BY <1>10
  <2>3. signups[d] = IF yrow[d].signups = -1 THEN 0 ELSE yrow[d].signups
    BY <2>1, <2>2 DEF Y!RowExact
  <2>4. signups'[d] = s
    BY <1>4, <1>8, <1>9, <2>3
  <2>5. r.dau = yrow[d].dau /\ r.mau = yrow[d].mau
    BY <1>5, <1>9
  <2>6. QED
    BY <1>4, <1>5, <1>10, <2>1, <2>2, <2>4, <2>5 DEF Y!RowExact
<1>12. yrow' \in [Y!Days -> Y!DailyRow] /\ Y!Ahead' /\ \A e \in Y!Days : Y!RowExact(e)'
  <2>1. \A e \in Y!Days \ {d} : signups'[e] = signups[e] /\ (e \in behind => e \in behind')
    BY <1>9
  <2>2. QED
    BY <1>5, <1>10, <1>11, <2>1, DailyNewRow
<1>13. \A p \in Handlers : Y!JobFits(yjob[p])'
  BY DailySameMonth DEF Y!JobFits
<1>14. QED
  BY <1>8, <1>12, <1>13, DailySketches, DailyWhole

LEMMA DailyLost ==
  ASSUME Y!AnalyticsInv, wire' \subseteq wire,
         UNCHANGED <<today, sketch, yexpires, yrow, yjob, active, signups, behind>>
  PROVE  Y!AnalyticsInv'
<1> USE DailyParts
<1>1. \A d \in Y!Days : Y!RowExact(d)'
  BY DailyRowStays
<1>2. Y!Ahead'
  BY DEF Y!Ahead
<1>3. \A p \in Handlers : Y!JobFits(yjob[p])'
  BY DailySameMonth DEF Y!JobFits
<1>4. QED
  BY <1>1, <1>2, <1>3, DailySketches, DailyWhole

LEMMA DailyIngest ==
  ASSUME Y!AnalyticsInv, NEW e \in Counted \cup {"signup"}, Y!Ingest(e)
  PROVE  Y!AnalyticsInv'
<1>1. wire' \subseteq wire /\ today' = today /\ yjob' = yjob
  BY DEF Y!Ingest
<1>2. CASE /\ e \in Counted
           /\ sketch' = [sketch EXCEPT ![today] = @ \cup {e}]
           /\ yexpires' = [yexpires EXCEPT ![today] = today + Y!Ttl]
           /\ active' = [active EXCEPT ![today] = @ \cup {e}]
           /\ behind' = behind \cup {today}
           /\ UNCHANGED <<yrow, signups>>
  BY <1>1, <1>2, DailyIngestUser
<1>3. CASE /\ yrow' = [yrow EXCEPT ![today].signups = IF @ = -1 THEN 1 ELSE @ + 1]
           /\ signups' = [signups EXCEPT ![today] = @ + 1]
           /\ UNCHANGED <<sketch, yexpires, active, behind>>
  BY <1>1, <1>3, DailyIngestSignup
<1>4. CASE UNCHANGED <<sketch, yexpires, yrow, active, signups, behind>>
  BY <1>1, <1>4, DailyLost
<1>5. QED
  BY <1>2, <1>3, <1>4 DEF Y!Ingest

LEMMA DailyStep == Y!AnalyticsInv /\ [Y!Next]_YVars => Y!AnalyticsInv'
<1> SUFFICES ASSUME Y!AnalyticsInv, [Y!Next]_YVars PROVE Y!AnalyticsInv'
  OBVIOUS
<1>1. CASE UNCHANGED YVars
  BY <1>1, DailyLost DEF YVars
<1>2. CASE Y!Next
  BY <1>2, DailyMidnight, DailyPurge, DailyEmit, DailyIngest, DailyCountDaily, DailyCountMonthly,
     DailySetDaily, DailySetMonthly, DailyFails DEF Y!Next
<1>3. QED
  BY <1>1, <1>2
=============================================================================
