------------------------------ MODULE MCServices ----------------------------
(***************************************************************************)
(* The services around calls and conversations, and those the product is   *)
(* operated with, on small instances: webinars, breakout rooms, recording  *)
(* consent, shared notes, polls, whiteboards, contacts, stories; media,    *)
(* backups, push, reminders and quiet hours, feature flags, the rate       *)
(* limiter, the admin console, analytics. Each keeps its own state, so a   *)
(* behaviour of this module exercises the one that `part' names, and the   *)
(* variables of the others stay at Off. Those that operate the product are *)
(* declared, and proved about, in Operations.                              *)
(*                                                                         *)
(* The configuration gives the constants small values; the theorems hold   *)
(* for all of them.                                                        *)
(***************************************************************************)
EXTENDS Operations, TLC

CONSTANTS Hosted, Host,                                 \* webinars
          Seated, Rooms, MaxStreams,                    \* breakout rooms
          MaxRequests,                                  \* recording
          MaxVersion,                                   \* notes
          Options, Multi,                               \* polls
          Clients, MaxSeq, SyncLimit,                   \* whiteboards
          Numbers, SyncDailyLimit, MaxMoves,            \* contacts
          Author                                        \* stories

ASSUME WebinarConstants == Host \in Hosted

ASSUME BreakoutConstants == IsFiniteSet(Seated) /\ MaxStreams \in Nat

ASSUME RecordingConstants == IsFiniteSet(Users) /\ MaxRequests \in Nat

ASSUME CollabConstants == 0 \notin Handlers /\ MaxVersion \in Nat \ {0}

ASSUME PollConstants == IsFiniteSet(Users) /\ IsFiniteSet(Options)

ASSUME BoardConstants == MaxSeq \in Nat

ASSUME ContactConstants == SyncDailyLimit \in Nat

ASSUME StoryConstants == Author \notin Users

VARIABLES
    part,
    webinar, wpart, wjob, wtoken, spoke, let, wfaults,
    bsession, room, assigned, ref, running, streams, bjob, bcrossed, bfaults,
    consent, recording, rjob, resets, rcrossed, rfaults,
    note, revisions, task, cmember, cjob, clost, undone, ccrossed, cfaults,
    poll, past, votes, pjob, doubled, plate, final, pfaults,
    dmember, board, known, cursor, sending, reply, dlate, cut, dlost, dfaults,
    holder, edge, spent, invite, favorite, ajob, found, acrossed, moves, afaults,
    contacts, story, views, sjob, chosen, slate, sfaults

W == INSTANCE Webinar WITH part <- wpart, job <- wjob, token <- wtoken, faults <- wfaults,
        Users <- Hosted

B == INSTANCE Breakout WITH session <- bsession, job <- bjob, crossed <- bcrossed,
        faults <- bfaults, Users <- Seated

R == INSTANCE Recording WITH job <- rjob, crossed <- rcrossed, faults <- rfaults

C == INSTANCE Collab WITH member <- cmember, job <- cjob, lost <- clost,
        crossed <- ccrossed, faults <- cfaults

P == INSTANCE Polls WITH job <- pjob, late <- plate, faults <- pfaults,
        Voters <- Users

D == INSTANCE Whiteboard WITH member <- dmember, late <- dlate, lost <- dlost,
        faults <- dfaults

A == INSTANCE Contacts WITH job <- ajob, crossed <- acrossed, faults <- afaults

S == INSTANCE Stories WITH job <- sjob, late <- slate, faults <- sfaults

WVars == <<webinar, wpart, wjob, wtoken, spoke, let, wfaults>>
BVars == <<bsession, room, assigned, ref, running, streams, bjob, bcrossed, bfaults>>
RVars == <<consent, recording, rjob, resets, rcrossed, rfaults>>
CVars == <<note, revisions, task, cmember, cjob, clost, undone, ccrossed, cfaults>>
PVars == <<poll, past, votes, pjob, doubled, plate, final, pfaults>>
DVars == <<dmember, board, known, cursor, sending, reply, dlate, cut, dlost, dfaults>>
AVars == <<holder, edge, spent, invite, favorite, ajob, found, acrossed, moves, afaults>>
SVars == <<contacts, story, views, sjob, chosen, slate, sfaults>>
vars == <<part, WVars, BVars, RVars, CVars, PVars, DVars, AVars, SVars, MVars, KVars,
          UVars, NVars, FVars, LVars, OVars, YVars>>

WOff == /\ webinar = Off /\ wpart = Off /\ wjob = Off /\ wtoken = Off /\ spoke = Off
        /\ let = Off /\ wfaults = Off
BOff == /\ bsession = Off /\ room = Off /\ assigned = Off /\ ref = Off
        /\ running = Off /\ streams = Off /\ bjob = Off /\ bcrossed = Off
        /\ bfaults = Off
ROff == /\ consent = Off /\ recording = Off /\ rjob = Off /\ resets = Off
        /\ rcrossed = Off /\ rfaults = Off
COff == /\ note = Off /\ revisions = Off /\ task = Off /\ cmember = Off /\ cjob = Off
        /\ clost = Off /\ undone = Off /\ ccrossed = Off /\ cfaults = Off
POff == /\ poll = Off /\ past = Off /\ votes = Off /\ pjob = Off /\ doubled = Off
        /\ plate = Off /\ final = Off /\ pfaults = Off
DOff == /\ dmember = Off /\ board = Off /\ known = Off /\ cursor = Off
        /\ sending = Off /\ reply = Off /\ dlate = Off /\ cut = Off /\ dlost = Off
        /\ dfaults = Off
AOff == /\ holder = Off /\ edge = Off /\ spent = Off /\ invite = Off /\ favorite = Off
        /\ ajob = Off /\ found = Off /\ acrossed = Off /\ moves = Off /\ afaults = Off
SOff == /\ contacts = Off /\ story = Off /\ views = Off /\ sjob = Off /\ chosen = Off
        /\ slate = Off /\ sfaults = Off
Init ==
    \/ part = "webinar" /\ W!Init /\ BOff /\ ROff /\ COff /\ POff /\ DOff /\ AOff
          /\ SOff /\ MOff /\ KOff /\ UOff /\ NOff /\ FOff /\ LOff /\ OOff /\ YOff
    \/ part = "breakout" /\ B!Init /\ WOff /\ ROff /\ COff /\ POff /\ DOff /\ AOff
          /\ SOff /\ MOff /\ KOff /\ UOff /\ NOff /\ FOff /\ LOff /\ OOff /\ YOff
    \/ part = "recording" /\ R!Init /\ WOff /\ BOff /\ COff /\ POff /\ DOff /\ AOff
          /\ SOff /\ MOff /\ KOff /\ UOff /\ NOff /\ FOff /\ LOff /\ OOff /\ YOff
    \/ part = "collab" /\ C!Init /\ WOff /\ BOff /\ ROff /\ POff /\ DOff /\ AOff /\ SOff
          /\ MOff /\ KOff /\ UOff /\ NOff /\ FOff /\ LOff /\ OOff /\ YOff
    \/ part = "polls" /\ P!Init /\ WOff /\ BOff /\ ROff /\ COff /\ DOff /\ AOff /\ SOff
          /\ MOff /\ KOff /\ UOff /\ NOff /\ FOff /\ LOff /\ OOff /\ YOff
    \/ part = "whiteboard" /\ D!Init /\ WOff /\ BOff /\ ROff /\ COff /\ POff /\ AOff
          /\ SOff /\ MOff /\ KOff /\ UOff /\ NOff /\ FOff /\ LOff /\ OOff /\ YOff
    \/ part = "contacts" /\ A!Init /\ WOff /\ BOff /\ ROff /\ COff /\ POff /\ DOff
          /\ SOff /\ MOff /\ KOff /\ UOff /\ NOff /\ FOff /\ LOff /\ OOff /\ YOff
    \/ part = "stories" /\ S!Init /\ WOff /\ BOff /\ ROff /\ COff /\ POff /\ DOff
          /\ AOff /\ MOff /\ KOff /\ UOff /\ NOff /\ FOff /\ LOff /\ OOff /\ YOff
    \/ part = "media" /\ M!Init /\ WOff /\ BOff /\ ROff /\ COff /\ POff /\ DOff /\ AOff
          /\ SOff /\ KOff /\ UOff /\ NOff /\ FOff /\ LOff /\ OOff /\ YOff
    \/ part = "backups" /\ K!Init /\ WOff /\ BOff /\ ROff /\ COff /\ POff /\ DOff
          /\ AOff /\ SOff /\ MOff /\ UOff /\ NOff /\ FOff /\ LOff /\ OOff /\ YOff
    \/ part = "push" /\ U!Init /\ WOff /\ BOff /\ ROff /\ COff /\ POff /\ DOff /\ AOff
          /\ SOff /\ MOff /\ KOff /\ NOff /\ FOff /\ LOff /\ OOff /\ YOff
    \/ part = "prefs" /\ N!Init /\ WOff /\ BOff /\ ROff /\ COff /\ POff /\ DOff /\ AOff
          /\ SOff /\ MOff /\ KOff /\ UOff /\ FOff /\ LOff /\ OOff /\ YOff
    \/ part = "flags" /\ F!Init /\ WOff /\ BOff /\ ROff /\ COff /\ POff /\ DOff /\ AOff
          /\ SOff /\ MOff /\ KOff /\ UOff /\ NOff /\ LOff /\ OOff /\ YOff
    \/ part = "limiter" /\ L!Init /\ WOff /\ BOff /\ ROff /\ COff /\ POff /\ DOff
          /\ AOff /\ SOff /\ MOff /\ KOff /\ UOff /\ NOff /\ FOff /\ OOff /\ YOff
    \/ part = "admin" /\ O!Init /\ WOff /\ BOff /\ ROff /\ COff /\ POff /\ DOff /\ AOff
          /\ SOff /\ MOff /\ KOff /\ UOff /\ NOff /\ FOff /\ LOff /\ YOff
    \/ part = "analytics" /\ Y!Init /\ WOff /\ BOff /\ ROff /\ COff /\ POff /\ DOff
          /\ AOff /\ SOff /\ MOff /\ KOff /\ UOff /\ NOff /\ FOff /\ LOff /\ OOff

Next ==
    \/ part = "webinar" /\ W!Next
       /\ UNCHANGED <<part, BVars, RVars, CVars, PVars, DVars, AVars, SVars, MVars,
                      KVars, UVars, NVars, FVars, LVars, OVars, YVars>>
    \/ part = "breakout" /\ B!Next
       /\ UNCHANGED <<part, WVars, RVars, CVars, PVars, DVars, AVars, SVars, MVars,
                      KVars, UVars, NVars, FVars, LVars, OVars, YVars>>
    \/ part = "recording" /\ R!Next
       /\ UNCHANGED <<part, WVars, BVars, CVars, PVars, DVars, AVars, SVars, MVars,
                      KVars, UVars, NVars, FVars, LVars, OVars, YVars>>
    \/ part = "collab" /\ C!Next
       /\ UNCHANGED <<part, WVars, BVars, RVars, PVars, DVars, AVars, SVars, MVars,
                      KVars, UVars, NVars, FVars, LVars, OVars, YVars>>
    \/ part = "polls" /\ P!Next
       /\ UNCHANGED <<part, WVars, BVars, RVars, CVars, DVars, AVars, SVars, MVars,
                      KVars, UVars, NVars, FVars, LVars, OVars, YVars>>
    \/ part = "whiteboard" /\ D!Next
       /\ UNCHANGED <<part, WVars, BVars, RVars, CVars, PVars, AVars, SVars, MVars,
                      KVars, UVars, NVars, FVars, LVars, OVars, YVars>>
    \/ part = "contacts" /\ A!Next
       /\ UNCHANGED <<part, WVars, BVars, RVars, CVars, PVars, DVars, SVars, MVars,
                      KVars, UVars, NVars, FVars, LVars, OVars, YVars>>
    \/ part = "stories" /\ S!Next
       /\ UNCHANGED <<part, WVars, BVars, RVars, CVars, PVars, DVars, AVars, MVars,
                      KVars, UVars, NVars, FVars, LVars, OVars, YVars>>
    \/ part = "media" /\ M!Next
       /\ UNCHANGED <<part, WVars, BVars, RVars, CVars, PVars, DVars, AVars, SVars,
                      KVars, UVars, NVars, FVars, LVars, OVars, YVars>>
    \/ part = "backups" /\ K!Next
       /\ UNCHANGED <<part, WVars, BVars, RVars, CVars, PVars, DVars, AVars, SVars,
                      MVars, UVars, NVars, FVars, LVars, OVars, YVars>>
    \/ part = "push" /\ U!Next
       /\ UNCHANGED <<part, WVars, BVars, RVars, CVars, PVars, DVars, AVars, SVars,
                      MVars, KVars, NVars, FVars, LVars, OVars, YVars>>
    \/ part = "prefs" /\ N!Next
       /\ UNCHANGED <<part, WVars, BVars, RVars, CVars, PVars, DVars, AVars, SVars,
                      MVars, KVars, UVars, FVars, LVars, OVars, YVars>>
    \/ part = "flags" /\ F!Next
       /\ UNCHANGED <<part, WVars, BVars, RVars, CVars, PVars, DVars, AVars, SVars,
                      MVars, KVars, UVars, NVars, LVars, OVars, YVars>>
    \/ part = "limiter" /\ L!Next
       /\ UNCHANGED <<part, WVars, BVars, RVars, CVars, PVars, DVars, AVars, SVars,
                      MVars, KVars, UVars, NVars, FVars, OVars, YVars>>
    \/ part = "admin" /\ O!Next
       /\ UNCHANGED <<part, WVars, BVars, RVars, CVars, PVars, DVars, AVars, SVars,
                      MVars, KVars, UVars, NVars, FVars, LVars, YVars>>
    \/ part = "analytics" /\ Y!Next
       /\ UNCHANGED <<part, WVars, BVars, RVars, CVars, PVars, DVars, AVars, SVars,
                      MVars, KVars, UVars, NVars, FVars, LVars, OVars>>

Spec == Init /\ [][Next]_vars

(* The rollout slots of the configuration: one of the subject, one of none. *)
Slots == [a |-> 70, nobody |-> 10]

Symmetry == Permutations(Handlers) \cup Permutations(Users)

-----------------------------------------------------------------------------
(* Rooms: tokens only for the admitted, one host; no stream runs unknown   *)
(* to its session and everybody is called back from a closed room unless   *)
(* operations overlapped or failed; consent is asked again for every       *)
(* recording (Webinar, Breakout, Recording).                               *)
RoomsSound ==
    /\ part = "webinar" => W!WebinarInv
    /\ part = "breakout" => B!BreakoutInv
    /\ part = "recording" => R!RecordingInv

(* What members write together: no edit is overwritten, no voter has two   *)
(* choices, no drawn operation is passed over by a cursor, except where    *)
(* the module names the overlap that does it (Collab, Polls, Whiteboard).  *)
SharedSound ==
    /\ part = "collab" => C!CollabInv
    /\ part = "polls" => P!PollsInv
    /\ part = "whiteboard" => D!WhiteboardInv

(* What users keep of each other: the address book follows the last match, *)
(* and a story keeps its audience and no view outlives it (Contacts,       *)
(* Stories).                                                               *)
SocialSound ==
    /\ part = "contacts" => A!ContactsInv
    /\ part = "stories" => S!StoriesInv

(* Media that a message holds is there, bytes leak and backups vanish only *)
(* by a failed call or an overlap the modules name (Media, Backups).       *)
MediaSound ==
    /\ part = "media" => M!MediaInv
    /\ part = "backups" => K!BackupsInv

(* A push is dropped only behind an open breaker or another failure, a     *)
(* breaker stays half-open only behind a refused token; a reminder fires   *)
(* once and quiet hours go round midnight (Push, NotifyPrefs).             *)
NotifySound ==
    /\ part = "push" => U!PushInv
    /\ part = "prefs" => N!NotifyPrefsInv

(* A feature is on only by a stored rule; the limiter keeps its rate and   *)
(* both backends agree; the audit log explains every status; daily rows    *)
(* count everybody once (Flags, Limiter, Admin, Analytics).                *)
PlatformSound ==
    /\ part = "flags" => F!FlagsInv
    /\ part = "limiter" => L!LimiterInv
    /\ part = "admin" => O!AdminInv
    /\ part = "analytics" => Y!AnalyticsInv

-----------------------------------------------------------------------------
(* Webinars.                                                               *)

\* The parts of the invariant.
LEMMA WebinarParts ==
  ASSUME W!WebinarInv
  PROVE  /\ W!TypeOK /\ W!TokensAreGranted /\ W!HostStays
         /\ wjob = [h \in Handlers |-> wjob[h]] /\ \A h \in Handlers : W!JobFits(wjob[h])
         /\ \A u \in Hosted \ {Host} : wpart[u].status = "admitted" => u \in let
  BY DEF W!WebinarInv, W!WebinarSound

LEMMA WebinarWhole ==
  ASSUME W!TypeOK', W!TokensAreGranted', W!HostStays',
         (wjob = [h \in Handlers |-> wjob[h]])', \A h \in Handlers : W!JobFits(wjob[h])',
         \A u \in Hosted \ {Host} : wpart'[u].status = "admitted" => u \in let'
  PROVE  W!WebinarInv'
  BY DEF W!WebinarInv, W!WebinarSound

LEMMA WebinarInit == W!Init => W!WebinarInv
<1> SUFFICES ASSUME W!Init PROVE W!WebinarInv
  OBVIOUS
<1>1. W!TypeOK
  BY DEF W!Init, W!TypeOK, W!NoPart
<1>2. W!TokensAreGranted /\ W!HostStays /\ \A u \in Hosted \ {Host} : wpart[u].status = "admitted" => u \in let
  BY WebinarConstants DEF W!Init, W!TokensAreGranted, W!HostStays, W!NoPart
<1>3. wjob = [h \in Handlers |-> wjob[h]] /\ \A h \in Handlers : W!JobFits(wjob[h])
  BY DEF W!Init, W!Idle, W!JobFits
<1>4. QED
  BY <1>1, <1>2, <1>3 DEF W!WebinarInv, W!WebinarSound

\* A handler goes on to `next': the others stay.
LEMMA WebinarJob ==
  ASSUME W!WebinarInv, NEW h \in Handlers, NEW next, W!JobFits(next), wjob' = [wjob EXCEPT ![h] = next]
  PROVE  (wjob = [g \in Handlers |-> wjob[g]])' /\ \A g \in Handlers : W!JobFits(wjob[g])'
<1>1. /\ wjob' = [g \in Handlers |-> wjob'[g]]
      /\ \A g \in Handlers : wjob'[g] = IF g = h THEN next ELSE wjob[g]
  BY WebinarParts
<1>2. ASSUME NEW g \in Handlers PROVE W!JobFits(wjob[g])'
  BY <1>1, WebinarParts DEF W!JobFits
<1>3. QED
  BY <1>1, <1>2

\* Steps that leave the rows, the tokens and the histories alone.
LEMMA WebinarAside ==
  ASSUME W!WebinarInv, UNCHANGED <<wpart, wtoken, spoke, let>>, webinar' \in {"none", "live", "ended"},
         (wjob = [h \in Handlers |-> wjob[h]])', \A h \in Handlers : W!JobFits(wjob[h])'
  PROVE  W!WebinarInv'
<1>1. W!TypeOK' /\ W!TokensAreGranted' /\ W!HostStays'
  BY WebinarParts DEF W!TypeOK, W!TokensAreGranted, W!HostStays
<1>2. QED
  BY <1>1, WebinarParts, WebinarWhole

\* A row is written; the role in it is the one it had or the one granted.
LEMMA WebinarWrite ==
  ASSUME W!WebinarInv, NEW h \in Handlers, NEW next, W!JobFits(next), wjob' = [wjob EXCEPT ![h] = next],
         NEW u \in Hosted, NEW r, wpart' = [wpart EXCEPT ![u] = r],
         r \in [role : {"none", "attendee", "speaker", "host"},
                status : {"none", "waiting", "admitted", "left"}, hand : BOOLEAN],
         u # Host => /\ r.role # "host" /\ (r.role = "speaker" => u \in spoke')
                     /\ r.status = "admitted" => u \in let',
         u = Host => r.role \in {"none", "host"},
         spoke \subseteq spoke', let \subseteq let', webinar' = webinar,
         \/ wtoken' = wtoken
         \/ wtoken' = [wtoken EXCEPT ![Host] = wtoken[Host] \cup {TRUE}]
  PROVE  W!WebinarInv'
<1>1. /\ \A v \in Hosted : wpart'[v] = IF v = u THEN r ELSE wpart[v]
      /\ \A v \in Hosted : v # Host => wtoken'[v] = wtoken[v]
  BY WebinarParts DEF W!TypeOK
<1>2. wpart' \in [Hosted -> [role : {"none", "attendee", "speaker", "host"},
                             status : {"none", "waiting", "admitted", "left"}, hand : BOOLEAN]]
  BY WebinarParts DEF W!TypeOK
<1>3. wtoken' \in [Hosted -> SUBSET BOOLEAN]
  <2>1. wtoken \in [Hosted -> SUBSET BOOLEAN]
    BY WebinarParts DEF W!TypeOK
  <2>2. PICK grants : grants = wtoken[Host] \cup {TRUE}
    OBVIOUS
  <2>3. grants \in SUBSET BOOLEAN
    BY <2>1, <2>2, WebinarConstants, Zenon
  <2>4. wtoken' = wtoken \/ wtoken' = [wtoken EXCEPT ![Host] = grants]
    BY <2>2
  <2>5. QED
    BY <2>1, <2>3, <2>4
<1>4. W!TypeOK'
  BY <1>2, <1>3, WebinarParts DEF W!TypeOK
<1>5. W!TokensAreGranted'
  BY <1>1, WebinarParts DEF W!TokensAreGranted
<1>6. W!HostStays' /\ \A v \in Hosted \ {Host} : wpart'[v].status = "admitted" => v \in let'
  BY <1>1, WebinarParts, WebinarConstants DEF W!HostStays
<1>7. QED
  BY <1>4, <1>5, <1>6, WebinarJob, WebinarWhole

(* Create, Join, SetStatus, Leave, SetRole and SetHand: the request is let *)
(* through and nothing is written yet.                                     *)
LEMMA WebinarDecide ==
  ASSUME W!WebinarInv, NEW h \in Handlers, NEW u \in Hosted,
         \/ W!Create(h) \/ W!Join(h, u) \/ W!Leave(h, u)
         \/ \E st \in {"admitted", "left"} : W!SetStatus(h, u, st)
         \/ \E r \in {"speaker", "attendee"} : W!SetRole(h, u, r)
         \/ \E up \in BOOLEAN : W!SetHand(h, u, up)
  PROVE  W!WebinarInv'
<1>1. UNCHANGED <<wpart, wtoken, spoke, let>> /\ webinar' \in {"none", "live", "ended"}
  BY WebinarParts DEF W!Create, W!Join, W!Leave, W!SetStatus, W!SetRole, W!SetHand, W!Decide, W!TypeOK
<1>2. PICK next : wjob' = [wjob EXCEPT ![h] = next] /\ W!JobFits(next)
  <2>1. CASE W!Create(h)
    <3>1. PICK next : next = [at |-> "host"]
      OBVIOUS
    <3>2. wjob' = [wjob EXCEPT ![h] = next]
      BY <2>1, <3>1 DEF W!Create, W!Become
    <3>3. W!JobFits(next)
      BY <2>1, <3>1 DEF W!JobFits
    <3>4. QED
      BY <3>2, <3>3
  <2>2. CASE W!Join(h, u)
    <3>1. PICK next : next = [at |-> "wait", u |-> u]
      OBVIOUS
    <3>2. wjob' = [wjob EXCEPT ![h] = next]
      BY <2>2, <3>1 DEF W!Join, W!Decide, W!Become
    <3>3. W!JobFits(next)
      BY <2>2, <3>1 DEF W!Join, W!JobFits
    <3>4. QED
      BY <3>2, <3>3
  <2>3. CASE W!Leave(h, u)
    <3>1. PICK next : next = [at |-> "status", u |-> u, st |-> "left"]
      OBVIOUS
    <3>2. wjob' = [wjob EXCEPT ![h] = next]
      BY <2>3, <3>1 DEF W!Leave, W!Decide, W!Become
    <3>3. W!JobFits(next)
      BY <2>3, <3>1 DEF W!JobFits
    <3>4. QED
      BY <3>2, <3>3
  <2>4. ASSUME NEW st \in {"admitted", "left"}, W!SetStatus(h, u, st)
        PROVE  \E next : wjob' = [wjob EXCEPT ![h] = next] /\ W!JobFits(next)
    <3>1. PICK next : next = [at |-> "status", u |-> u, st |-> st]
      OBVIOUS
    <3>2. wjob' = [wjob EXCEPT ![h] = next]
      BY <2>4, <3>1 DEF W!SetStatus, W!Decide, W!Become
    <3>3. W!JobFits(next)
      BY <2>4, <3>1 DEF W!JobFits
    <3>4. QED
      BY <3>2, <3>3
  <2>5. ASSUME NEW r \in {"speaker", "attendee"}, W!SetRole(h, u, r)
        PROVE  \E next : wjob' = [wjob EXCEPT ![h] = next] /\ W!JobFits(next)
    <3>1. PICK next : next = [at |-> "role", u |-> u, r |-> r]
      OBVIOUS
    <3>2. wjob' = [wjob EXCEPT ![h] = next]
      BY <2>5, <3>1 DEF W!SetRole, W!Decide, W!Become
    <3>3. W!JobFits(next)
      BY <2>5, <3>1 DEF W!SetRole, W!JobFits
    <3>4. QED
      BY <3>2, <3>3
  <2>6. ASSUME NEW up \in BOOLEAN, W!SetHand(h, u, up)
        PROVE  \E next : wjob' = [wjob EXCEPT ![h] = next] /\ W!JobFits(next)
    <3>1. PICK next : next = [at |-> "hand", u |-> u, up |-> up]
      OBVIOUS
    <3>2. wjob' = [wjob EXCEPT ![h] = next]
      BY <2>6, <3>1 DEF W!SetHand, W!Decide, W!Become
    <3>3. W!JobFits(next)
      BY <2>6, <3>1 DEF W!JobFits
    <3>4. QED
      BY <3>2, <3>3
  <2>7. QED
    BY <2>1, <2>2, <2>3, <2>4, <2>5, <2>6
<1>3. QED
  BY <1>1, <1>2, WebinarJob, WebinarAside

(* AddHost, Wait, WriteStatus, WriteRole and WriteHand.                    *)
LEMMA WebinarRows ==
  ASSUME W!WebinarInv, NEW h \in Handlers,
         W!AddHost(h) \/ W!Wait(h) \/ W!WriteStatus(h) \/ W!WriteRole(h) \/ W!WriteHand(h)
  PROVE  W!WebinarInv'
<1> DEFINE Row == [role : {"none", "attendee", "speaker", "host"},
                   status : {"none", "waiting", "admitted", "left"}, hand : BOOLEAN]
<1>0. /\ W!JobFits(W!Idle) /\ W!JobFits(wjob[h])
      /\ wpart \in [Hosted -> Row] /\ wpart = [v \in Hosted |-> wpart[v]]
  BY WebinarParts DEF W!JobFits, W!Idle, W!TypeOK
<1>1. ASSUME NEW u \in Hosted
      PROVE  /\ wpart[u] \in Row
             /\ u # Host => /\ wpart[u].role # "host" /\ (wpart[u].role = "speaker" => u \in spoke)
                            /\ wpart[u].status = "admitted" => u \in let
             /\ u = Host => wpart[u].role \in {"none", "host"}
  BY <1>0, WebinarParts DEF W!HostStays
<1>2. CASE W!AddHost(h)
  <2>1. PICK r : r = IF wpart[Host] = W!NoPart THEN [role |-> "host", status |-> "admitted", hand |-> FALSE] ELSE wpart[Host]
    OBVIOUS
  <2>2. /\ wpart' = [wpart EXCEPT ![Host] = r] /\ wtoken' = [wtoken EXCEPT ![Host] = wtoken[Host] \cup {TRUE}]
        /\ wjob' = [wjob EXCEPT ![h] = W!Idle] /\ UNCHANGED <<webinar, spoke, let>>
    BY <1>2, <2>1 DEF W!AddHost, W!Mint, W!Become
  <2>3. r \in Row /\ r.role \in {"none", "host"}
    BY <1>1, <2>1, WebinarConstants
  <2>4. QED
    BY <1>0, <2>2, <2>3, WebinarConstants, WebinarWrite
<1>3. CASE W!Wait(h)
  <2>1. PICK u : u = wjob[h].u /\ u \in Hosted /\ u # Host
    BY <1>0, <1>3 DEF W!Wait, W!JobFits
  <2>2. PICK r : r = IF wpart[u] = W!NoPart THEN [role |-> "attendee", status |-> "waiting", hand |-> FALSE] ELSE wpart[u]
    OBVIOUS
  <2>3. /\ wpart' = [wpart EXCEPT ![u] = r] /\ wjob' = [wjob EXCEPT ![h] = W!Idle]
        /\ UNCHANGED <<webinar, wtoken, spoke, let>>
    BY <1>3, <2>1, <2>2 DEF W!Wait, W!Become
  <2>4. /\ r \in Row /\ r.role # "host" /\ (r.role = "speaker" => u \in spoke)
        /\ r.status = "admitted" => u \in let
    BY <1>1, <2>1, <2>2
  <2>5. QED
    BY <1>0, <2>1, <2>3, <2>4, WebinarWrite
<1>4. CASE W!WriteStatus(h)
  <2>1. PICK u : u = wjob[h].u /\ u \in Hosted /\ wjob[h].st \in {"admitted", "left"}
    BY <1>0, <1>4 DEF W!WriteStatus, W!JobFits
  <2>2. PICK r : r = [wpart[u] EXCEPT !.status = wjob[h].st]
    OBVIOUS
  <2>3. /\ wpart' = [wpart EXCEPT ![u] = r] /\ wjob' = [wjob EXCEPT ![h] = W!Idle]
        /\ UNCHANGED <<webinar, wtoken, spoke>>
        /\ let' = IF wjob[h].st = "admitted" THEN let \cup {u} ELSE let
    BY <1>4, <2>1, <2>2 DEF W!WriteStatus, W!Become
  <2>4. r \in Row /\ r.role = wpart[u].role /\ (r.status = "admitted" => u \in let') /\ let \subseteq let'
    BY <1>1, <2>1, <2>2, <2>3
  <2>5. QED
    BY <1>0, <1>1, <2>1, <2>3, <2>4, WebinarWrite
<1>5. CASE W!WriteRole(h)
  <2>1. PICK u : u = wjob[h].u /\ u \in Hosted /\ u # Host /\ wjob[h].r \in {"speaker", "attendee"}
    BY <1>0, <1>5 DEF W!WriteRole, W!JobFits
  <2>2. PICK r : r = [wpart[u] EXCEPT !.role = wjob[h].r]
    OBVIOUS
  <2>3. PICK next : next = IF wjob[h].r = "speaker" THEN [at |-> "hand", u |-> u, up |-> FALSE] ELSE W!Idle
    OBVIOUS
  <2>4. /\ wpart' = [wpart EXCEPT ![u] = r] /\ wjob' = [wjob EXCEPT ![h] = next]
        /\ UNCHANGED <<webinar, wtoken, let>>
        /\ spoke' = IF wjob[h].r = "speaker" THEN spoke \cup {u} ELSE spoke
    BY <1>5, <2>1, <2>2, <2>3 DEF W!WriteRole, W!Become
  <2>5. /\ r \in Row /\ r.role = wjob[h].r /\ r.status = wpart[u].status /\ spoke \subseteq spoke'
        /\ r.role = "speaker" => u \in spoke'
    BY <1>1, <2>1, <2>2, <2>4
  <2>6. W!JobFits(next)
    BY <1>0, <2>1, <2>3 DEF W!JobFits
  <2>7. QED
    BY <1>1, <2>1, <2>4, <2>5, <2>6, WebinarWrite
<1>6. CASE W!WriteHand(h)
  <2>1. PICK u : u = wjob[h].u /\ u \in Hosted /\ wjob[h].up \in BOOLEAN
    BY <1>0, <1>6 DEF W!WriteHand, W!JobFits
  <2>2. PICK r : r = [wpart[u] EXCEPT !.hand = wjob[h].up]
    OBVIOUS
  <2>3. /\ wpart' = [wpart EXCEPT ![u] = r] /\ wjob' = [wjob EXCEPT ![h] = W!Idle]
        /\ UNCHANGED <<webinar, wtoken, spoke, let>>
    BY <1>6, <2>1, <2>2 DEF W!WriteHand, W!Become
  <2>4. r \in Row /\ r.role = wpart[u].role /\ r.status = wpart[u].status
    BY <1>1, <2>1, <2>2
  <2>5. QED
    BY <1>0, <1>1, <2>1, <2>3, <2>4, WebinarWrite
<1>7. QED
  BY <1>2, <1>3, <1>4, <1>5, <1>6

(* Me: the token says what the row says.                                   *)
LEMMA WebinarMe ==
  ASSUME W!WebinarInv, NEW u \in Hosted, W!Me(u)
  PROVE  W!WebinarInv'
<1>1. PICK publish : publish = W!CanPublish(wpart[u].role)
  OBVIOUS
<1>2. /\ wpart[u].status = "admitted" /\ wtoken' = [wtoken EXCEPT ![u] = wtoken[u] \cup {publish}]
      /\ UNCHANGED <<webinar, wpart, wjob, spoke, let>>
  BY <1>1 DEF W!Me, W!MayJoin, W!Mint
<1>3. publish \in BOOLEAN /\ (publish => wpart[u].role \in {"speaker", "host"})
  <2>1. publish = (wpart[u].role \in {"speaker", "host"})
    BY <1>1 DEF W!CanPublish
  <2>2. (wpart[u].role \in {"speaker", "host"}) \in BOOLEAN
    OBVIOUS
  <2>3. publish \in BOOLEAN
    BY <2>1, <2>2
  <2>4. publish => wpart[u].role \in {"speaker", "host"}
    BY <2>1
  <2>5. QED
    BY <2>3, <2>4
<1>4. /\ wtoken' \in [Hosted -> SUBSET BOOLEAN]
      /\ \A v \in Hosted : wtoken'[v] = IF v = u THEN wtoken[u] \cup {publish} ELSE wtoken[v]
  <2>1. wtoken \in [Hosted -> SUBSET BOOLEAN]
    BY WebinarParts DEF W!TypeOK
  <2>2. PICK grants : grants = wtoken[u] \cup {publish}
    OBVIOUS
  <2>3. grants \in SUBSET BOOLEAN
    BY <1>3, <2>1, <2>2, Zenon
  <2>4. QED
    BY <1>2, <2>1, <2>2, <2>3
<1>5. W!TypeOK'
  BY <1>2, <1>4, WebinarParts DEF W!TypeOK
<1>6. W!TokensAreGranted'
  <2>1. u # Host => u \in let /\ (publish => u \in spoke)
    BY <1>2, <1>3, WebinarParts DEF W!HostStays
  <2>2. ASSUME NEW v \in Hosted \ {Host}
        PROVE  /\ wtoken'[v] # {} => v \in let
               /\ TRUE \in wtoken'[v] => v \in spoke
    <3>1. CASE v = u
      <4>1. v \in let /\ wtoken'[v] = wtoken[v] \cup {publish}
        BY <1>4, <2>1, <2>2, <3>1
      <4>2. TRUE \in wtoken'[v] => TRUE \in wtoken[v] \/ publish
        BY <4>1, Zenon
      <4>3. QED
        BY <2>1, <2>2, <3>1, <4>1, <4>2, WebinarParts DEF W!TokensAreGranted
    <3>2. CASE v # u
      BY <1>4, <2>2, <3>2, WebinarParts DEF W!TokensAreGranted
    <3>3. QED
      BY <3>1, <3>2
  <2>3. QED
    BY <1>2, <2>2 DEF W!TokensAreGranted
<1>7. W!HostStays' /\ \A g \in Handlers : W!JobFits(wjob[g])'
  BY <1>2, WebinarParts DEF W!HostStays, W!JobFits
<1>8. QED
  BY <1>2, <1>5, <1>6, <1>7, WebinarParts, WebinarWhole

LEMMA WebinarStep ==
  ASSUME W!WebinarInv, [W!Next]_WVars
  PROVE  W!WebinarInv'
<1>1. CASE UNCHANGED WVars \/ W!End
  <2>1. UNCHANGED <<wpart, wtoken, spoke, let, wjob>> /\ webinar' \in {"none", "live", "ended"}
    BY <1>1, WebinarParts DEF WVars, W!End, W!TypeOK
  <2>2. \A h \in Handlers : W!JobFits(wjob[h])'
    BY <2>1, WebinarParts DEF W!JobFits
  <2>3. QED
    BY <2>1, <2>2, WebinarParts, WebinarAside
<1>2. ASSUME NEW h \in Handlers, W!Abandon(h) PROVE W!WebinarInv'
  <2>1. UNCHANGED <<wpart, wtoken, spoke, let, webinar>> /\ wjob' = [wjob EXCEPT ![h] = W!Idle]
    BY <1>2 DEF W!Abandon, W!Become
  <2>2. W!JobFits(W!Idle) /\ webinar \in {"none", "live", "ended"}
    BY WebinarParts DEF W!JobFits, W!Idle, W!TypeOK
  <2>3. QED
    BY <2>1, <2>2, WebinarJob, WebinarAside
<1>3. QED
  BY <1>1, <1>2, WebinarConstants, WebinarDecide, WebinarRows, WebinarMe DEF W!Next

-----------------------------------------------------------------------------
(* Breakout rooms and the outbound stream.                                 *)

\* Breakout has its own copy of FiniteSets.
LEMMA BreakoutCardinality == ASSUME NEW X PROVE B!Cardinality(X) = Cardinality(X)
  BY DEF B!Cardinality, Cardinality, B!IsFiniteSet, IsFiniteSet

\* A room somebody is assigned to counts somebody.
LEMMA SomebodyCounted ==
  ASSUME NEW where, NEW u \in Seated
  PROVE  B!Cardinality({v \in Seated : where[v] = where[u]}) > 0
<1>1. PICK X : X = {v \in Seated : where[v] = where[u]}
  OBVIOUS
<1>2. X \in SUBSET Seated /\ u \in X
  BY <1>1
<1>3. IsFiniteSet(X)
  BY <1>2, BreakoutConstants, FS_Subset
<1>4. Cardinality(X) \in Nat /\ Cardinality(X) # 0
  BY <1>2, <1>3, FS_CardinalityType, FS_EmptySet
<1>5. QED
  BY <1>1, <1>4, BreakoutCardinality

\* The parts of the invariant.
LEMMA BreakoutParts ==
  ASSUME B!BreakoutInv
  PROVE  /\ B!TypeOK
         /\ "stream" \notin bcrossed /\ bfaults = 0 =>
              \A s \in running : s = ref \/ \E h \in Handlers : bjob[h].at = "started" /\ bjob[h].ref = s
         /\ bjob = [h \in Handlers |-> bjob[h]] /\ \A h \in Handlers : B!JobFits(bjob[h])
         /\ streams \in 0..MaxStreams /\ bfaults \in Nat
         /\ B!OneAtTheStream /\ B!InOpenRooms
<1>1. "stream" \notin bcrossed => bcrossed \cap {"stream"} = {}
  OBVIOUS
<1>2. QED
  BY <1>1 DEF B!BreakoutInv, B!BreakoutSound, B!NoOrphanStream

\* What participants are told follows from the rest.
LEMMA BreakoutWhole ==
  ASSUME B!TypeOK',
         "stream" \notin bcrossed' /\ bfaults' = 0 =>
              \A s \in running' : s = ref' \/ \E h \in Handlers : bjob'[h].at = "started" /\ bjob'[h].ref = s,
         (bjob = [h \in Handlers |-> bjob[h]])', \A h \in Handlers : B!JobFits(bjob[h])',
         streams' \in 0..MaxStreams, bfaults' \in Nat, B!OneAtTheStream', B!InOpenRooms'
  PROVE  B!BreakoutInv'
<1>1. B!NoOrphanStream'
  BY DEF B!NoOrphanStream
<1>2. \A u \in Seated : B!Me(u)' \in B!OpenRooms' \cup {B!Main}
  BY DEF B!Me, B!ResolveRoom
<1>3. ASSUME bcrossed' \cap {"rooms"} = {}, bfaults' = 0, ~B!Doing({"clear"})', NEW u \in Seated
      PROVE  B!Status(u)'.mine = B!Me(u)' /\ (B!Me(u)' # B!Main => B!Status(u)'.rooms[B!Me(u)'] > 0)
  <2>1. assigned'[u] \in B!OpenRooms' \cup {B!Main}
    BY <1>3 DEF B!InOpenRooms
  <2>2. B!Me(u)' = assigned'[u]
    BY <2>1 DEF B!Me, B!ResolveRoom, B!GetAssignment
  <2>3. B!Status(u)'.mine = assigned'[u] /\ B!Status(u)'.rooms = B!RoomsWithCounts'
    BY DEF B!Status, B!GetAssignment
  <2>4. ASSUME assigned'[u] # B!Main PROVE B!RoomsWithCounts'[assigned'[u]] > 0
    <3>1. B!RoomsWithCounts'[assigned'[u]] = B!Cardinality({v \in Seated : assigned'[v] = assigned'[u]})
      BY <2>1, <2>4 DEF B!RoomsWithCounts, B!CountByRoom
    <3>2. PICK where : where = assigned'
      OBVIOUS
    <3>3. QED
      BY <3>1, <3>2, SomebodyCounted
  <2>5. QED
    BY <2>2, <2>3, <2>4
<1>4. B!CalledBack'
  BY <1>2, <1>3 DEF B!CalledBack
<1>5. QED
  BY <1>1, <1>4 DEF B!BreakoutInv, B!BreakoutSound

LEMMA BreakoutInit == B!Init => B!BreakoutInv
<1> SUFFICES ASSUME B!Init PROVE B!BreakoutInv
  OBVIOUS
<1>1. B!TypeOK /\ streams \in 0..MaxStreams /\ bfaults \in Nat
  BY BreakoutConstants DEF B!Init, B!TypeOK, B!NoStream, B!Main
<1>2. \A h \in Handlers : bjob[h] = B!Idle /\ bjob[h].at = "idle"
  BY DEF B!Init, B!Idle
<1>3. bjob = [h \in Handlers |-> bjob[h]] /\ \A h \in Handlers : B!JobFits(bjob[h])
  BY <1>2 DEF B!Init, B!JobFits
<1>4. B!NoOrphanStream /\ B!OneAtTheStream
  BY <1>2 DEF B!Init, B!NoOrphanStream, B!OneAtTheStream, B!StreamSteps
<1>5. \A u \in Seated : assigned[u] = B!Main /\ B!Me(u) = B!Main /\ B!Status(u).mine = B!Main
  BY DEF B!Init, B!Me, B!Status, B!GetAssignment
<1>6. B!InOpenRooms
  BY <1>2, <1>5 DEF B!InOpenRooms
<1>7. B!CalledBack
  BY <1>5 DEF B!CalledBack
<1>8. QED
  BY <1>1, <1>3, <1>4, <1>6, <1>7 DEF B!BreakoutInv, B!BreakoutSound

\* A handler goes on to `next': the others stay.
LEMMA BreakoutJob ==
  ASSUME B!BreakoutInv, NEW h \in Handlers, NEW next, B!JobFits(next), bjob' = [bjob EXCEPT ![h] = next]
  PROVE  /\ (bjob = [g \in Handlers |-> bjob[g]])' /\ \A g \in Handlers : B!JobFits(bjob[g])'
         /\ \A g \in Handlers : bjob'[g] = IF g = h THEN next ELSE bjob[g]
<1>1. /\ bjob' = [g \in Handlers |-> bjob'[g]]
      /\ \A g \in Handlers : bjob'[g] = IF g = h THEN next ELSE bjob[g]
  BY BreakoutParts
<1>2. ASSUME NEW g \in Handlers PROVE B!JobFits(bjob[g])'
  BY <1>1, BreakoutParts DEF B!JobFits
<1>3. QED
  BY <1>1, <1>2

\* A step of a handler that is not at the stream leaves the stream alone.
LEMMA StreamAside ==
  ASSUME B!BreakoutInv, NEW h \in Handlers, NEW next, B!JobFits(next), bjob' = [bjob EXCEPT ![h] = next],
         bjob[h].at \notin B!StreamSteps, next.at \notin B!StreamSteps, UNCHANGED <<ref, running>>,
         "stream" \in bcrossed => "stream" \in bcrossed', bfaults' = 0 => bfaults = 0
  PROVE  /\ "stream" \notin bcrossed' /\ bfaults' = 0 =>
              \A s \in running' : s = ref' \/ \E g \in Handlers : bjob'[g].at = "started" /\ bjob'[g].ref = s
         /\ B!OneAtTheStream'
<1>1. \A g \in Handlers : bjob'[g] = IF g = h THEN next ELSE bjob[g]
  BY BreakoutJob
<1>2. ASSUME "stream" \notin bcrossed', bfaults' = 0, NEW s \in running'
      PROVE  s = ref' \/ \E g \in Handlers : bjob'[g].at = "started" /\ bjob'[g].ref = s
  <2>1. CASE s = ref
    BY <2>1
  <2>2. CASE s # ref
    <3>1. PICK g \in Handlers : bjob[g].at = "started" /\ bjob[g].ref = s
      BY <1>2, <2>2, BreakoutParts
    <3>2. QED
      BY <1>1, <3>1 DEF B!StreamSteps
  <2>3. QED
    BY <2>1, <2>2
<1>3. B!OneAtTheStream'
  BY <1>1, BreakoutParts DEF B!OneAtTheStream, B!StreamSteps
<1>4. QED
  BY <1>2, <1>3

\* A step that touches no room, of a handler that neither assigns nor was to
\* call anybody back, leaves the rooms alone.
LEMMA RoomsAside ==
  ASSUME B!BreakoutInv, NEW h \in Handlers, NEW next, B!JobFits(next), bjob' = [bjob EXCEPT ![h] = next],
         bjob[h].at # "clear", next.at # "assign", UNCHANGED <<room, assigned>>,
         "rooms" \in bcrossed => "rooms" \in bcrossed', bfaults' = 0 => bfaults = 0
  PROVE  B!InOpenRooms'
<1>1. \A g \in Handlers : bjob'[g] = IF g = h THEN next ELSE bjob[g]
  BY BreakoutJob
<1>2. B!OpenRooms' = B!OpenRooms
  BY DEF B!OpenRooms
<1>3. SUFFICES ASSUME "rooms" \notin bcrossed', bfaults' = 0
               PROVE  /\ \A g \in Handlers : bjob'[g].at = "assign" => bjob'[g].r \in B!OpenRooms' \cup {B!Main}
                      /\ B!Doing({"clear"})' \/ \A u \in Seated : assigned'[u] \in B!OpenRooms' \cup {B!Main}
  BY DEF B!InOpenRooms
<1>4. "rooms" \notin bcrossed /\ bfaults = 0
  BY <1>3
<1>5. \A g \in Handlers : bjob'[g].at = "assign" => bjob'[g].r \in B!OpenRooms' \cup {B!Main}
  BY <1>1, <1>2, <1>4, BreakoutParts DEF B!InOpenRooms
<1>6. B!Doing({"clear"}) => B!Doing({"clear"})'
  BY <1>1 DEF B!Doing
<1>7. QED
  BY <1>2, <1>4, <1>5, <1>6, BreakoutParts DEF B!InOpenRooms

\* After a fault only the types are left.
LEMMA BreakoutFault ==
  ASSUME B!BreakoutInv, NEW h \in Handlers, NEW next, B!JobFits(next), bjob' = [bjob EXCEPT ![h] = next],
         bfaults' = bfaults + 1, UNCHANGED <<bsession, room, assigned, ref, running, streams>>
  PROVE  B!BreakoutInv'
<1>1. bfaults' \in Nat /\ bfaults' # 0
  BY BreakoutParts
<1>2. B!TypeOK'
  BY BreakoutParts DEF B!TypeOK
<1>3. B!OneAtTheStream' /\ B!InOpenRooms'
  BY <1>1 DEF B!OneAtTheStream, B!InOpenRooms
<1>4. QED
  BY <1>1, <1>2, <1>3, BreakoutParts, BreakoutJob, BreakoutWhole

(* CreateRooms, Assign, SetAssignment, CloseRooms, CloseRows,              *)
(* ClearAssignments and EndSession: the rooms.                             *)
LEMMA BreakoutRooms ==
  ASSUME B!BreakoutInv, NEW h \in Handlers,
         \/ \E u \in Seated, r \in Rooms \cup {B!Main} : B!Assign(h, u, r)
         \/ B!SetAssignment(h) \/ B!CloseRooms(h) \/ B!CloseRows(h) \/ B!ClearAssignments(h) \/ B!EndSession(h)
  PROVE  B!BreakoutInv'
<1>0. /\ B!TypeOK /\ B!JobFits(bjob[h]) /\ B!JobFits(B!Idle) /\ B!Idle.at = "idle"
      /\ streams \in 0..MaxStreams /\ bfaults \in Nat
  BY BreakoutParts DEF B!JobFits, B!Idle
<1>1. ASSUME NEW next, B!JobFits(next), bjob' = [bjob EXCEPT ![h] = next],
             bjob[h].at \notin B!StreamSteps, next.at \notin B!StreamSteps,
             UNCHANGED <<ref, running, streams, bfaults>>, bcrossed \subseteq bcrossed',
             "stream" \in bcrossed' => "stream" \in bcrossed, B!TypeOK', B!InOpenRooms'
      PROVE  B!BreakoutInv'
  BY <1>0, <1>1, BreakoutJob, StreamAside, BreakoutWhole
<1>2. ASSUME NEW u \in Seated, NEW r \in Rooms \cup {B!Main}, B!Assign(h, u, r) PROVE B!BreakoutInv'
  <2>1. PICK next : next = [at |-> "assign", u |-> u, r |-> r]
    OBVIOUS
  <2>2. /\ bjob[h] = B!Idle /\ bjob' = [bjob EXCEPT ![h] = next] /\ r \in B!OpenRooms \cup {B!Main}
        /\ UNCHANGED <<bsession, room, assigned, ref, running, streams, bfaults, bcrossed>>
    BY <1>2, <2>1 DEF B!Assign, B!RequireHost, B!Become, B!RoomState, B!StreamState
  <2>3. B!JobFits(next) /\ next.at \notin B!StreamSteps /\ bjob[h].at \notin B!StreamSteps /\ next.at # "clear"
    BY <1>0, <2>1, <2>2 DEF B!JobFits, B!StreamSteps
  <2>4. \A g \in Handlers : bjob'[g] = IF g = h THEN next ELSE bjob[g]
    BY <2>2, <2>3, BreakoutJob
  <2>5. B!OpenRooms' = B!OpenRooms /\ B!TypeOK'
    BY <1>0, <2>2 DEF B!OpenRooms, B!TypeOK
  <2>6. B!Doing({"clear"}) => B!Doing({"clear"})'
    BY <1>0, <2>2, <2>4 DEF B!Doing
  <2>7. B!InOpenRooms'
    BY <2>1, <2>2, <2>4, <2>5, <2>6, BreakoutParts DEF B!InOpenRooms
  <2>8. QED
    BY <1>1, <2>2, <2>3, <2>5, <2>7
<1>3. CASE B!SetAssignment(h)
  <2>1. /\ bjob[h].at = "assign" /\ bjob' = [bjob EXCEPT ![h] = B!Idle]
        /\ assigned' = [assigned EXCEPT ![bjob[h].u] = bjob[h].r]
        /\ UNCHANGED <<bsession, room, ref, running, streams, bfaults, bcrossed>>
    BY <1>3 DEF B!SetAssignment, B!Become, B!StreamState
  <2>2. PICK u \in Seated, r \in Rooms \cup {B!Main} : u = bjob[h].u /\ r = bjob[h].r
    BY <1>0, <2>1 DEF B!JobFits
  <2>3. \A g \in Handlers : bjob'[g] = IF g = h THEN B!Idle ELSE bjob[g]
    BY <1>0, <2>1, BreakoutJob
  <2>4. /\ assigned' \in [Seated -> Rooms \cup {B!Main}]
        /\ \A v \in Seated : assigned'[v] = IF v = u THEN r ELSE assigned[v]
    BY <1>0, <2>1, <2>2 DEF B!TypeOK
  <2>5. B!OpenRooms' = B!OpenRooms /\ B!TypeOK'
    BY <1>0, <2>1, <2>4 DEF B!OpenRooms, B!TypeOK
  <2>6. B!Doing({"clear"}) => B!Doing({"clear"})'
    BY <1>0, <2>1, <2>3 DEF B!Doing
  <2>7. B!InOpenRooms'
    <3>1. SUFFICES ASSUME "rooms" \notin bcrossed', bfaults' = 0
                   PROVE  /\ \A g \in Handlers : bjob'[g].at = "assign" => bjob'[g].r \in B!OpenRooms' \cup {B!Main}
                          /\ B!Doing({"clear"})' \/ \A v \in Seated : assigned'[v] \in B!OpenRooms' \cup {B!Main}
      BY DEF B!InOpenRooms
    <3>2. /\ \A g \in Handlers : bjob[g].at = "assign" => bjob[g].r \in B!OpenRooms \cup {B!Main}
          /\ B!Doing({"clear"}) \/ \A v \in Seated : assigned[v] \in B!OpenRooms \cup {B!Main}
      BY <2>1, <3>1, BreakoutParts DEF B!InOpenRooms
    <3>3. QED
      BY <1>0, <2>1, <2>2, <2>3, <2>4, <2>5, <2>6, <3>2
  <2>8. QED
    BY <1>0, <1>1, <2>1, <2>5, <2>7 DEF B!StreamSteps
<1>4. CASE B!CloseRooms(h)
  <2>1. PICK next : next = [at |-> "closing", whole |-> FALSE]
    OBVIOUS
  <2>2. /\ bjob[h] = B!Idle /\ bjob' = [bjob EXCEPT ![h] = next]
        /\ UNCHANGED <<bsession, room, assigned, ref, running, streams, bfaults, bcrossed>>
    BY <1>4, <2>1 DEF B!CloseRooms, B!RequireHost, B!Become, B!RoomState, B!StreamState
  <2>3. B!JobFits(next) /\ next.at = "closing" /\ bjob[h].at = "idle"
    BY <1>0, <2>1, <2>2 DEF B!JobFits
  <2>4. B!TypeOK'
    BY <1>0, <2>2 DEF B!TypeOK
  <2>5. QED
    BY <1>1, <2>2, <2>3, <2>4, RoomsAside DEF B!StreamSteps
<1>5. CASE B!CloseRows(h)
  <2>1. PICK next \in {[at |-> "end"], [at |-> "clear"]} :
          /\ next = IF bjob[h].whole THEN [at |-> "end"] ELSE [at |-> "clear"]
          /\ bjob[h].at = "closing" /\ bjob' = [bjob EXCEPT ![h] = next]
    BY <1>5 DEF B!CloseRows, B!Become
  <2>2. /\ room' = [r \in Rooms |-> IF room[r] = "open" THEN "closed" ELSE room[r]]
        /\ IF B!Doing({"assign"}) \/ (bjob[h].whole /\ \E u \in Seated : assigned[u] # B!Main)
             THEN bcrossed' = bcrossed \cup {"rooms"} ELSE bcrossed' = bcrossed
        /\ UNCHANGED <<bsession, assigned, ref, running, streams, bfaults>>
    BY <1>5 DEF B!CloseRows, B!Cross, B!StreamState
  <2>3. B!JobFits(next) /\ next.at \in {"end", "clear"}
    BY <2>1 DEF B!JobFits
  <2>4. B!TypeOK'
    BY <1>0, <2>2 DEF B!TypeOK
  <2>5. bcrossed \subseteq bcrossed' /\ ("stream" \in bcrossed' => "stream" \in bcrossed)
    BY <2>2
  <2>6. \A g \in Handlers : bjob'[g] = IF g = h THEN next ELSE bjob[g]
    BY <2>1, <2>3, BreakoutJob
  <2>7. B!InOpenRooms'
    <3>1. SUFFICES ASSUME "rooms" \notin bcrossed', bfaults' = 0
                   PROVE  /\ \A g \in Handlers : bjob'[g].at = "assign" => bjob'[g].r \in B!OpenRooms' \cup {B!Main}
                          /\ B!Doing({"clear"})' \/ \A v \in Seated : assigned'[v] \in B!OpenRooms' \cup {B!Main}
      BY DEF B!InOpenRooms
    <3>2. ~B!Doing({"assign"}) /\ ~(bjob[h].whole /\ \E u \in Seated : assigned[u] # B!Main)
      BY <2>2, <3>1
    <3>3. \A g \in Handlers : bjob'[g].at # "assign"
      BY <2>3, <2>6, <3>2 DEF B!Doing
    <3>4. CASE bjob[h].whole
      BY <2>2, <3>2, <3>3, <3>4
    <3>5. CASE ~bjob[h].whole
      <4>1. bjob'[h].at = "clear"
        BY <2>1, <2>6, <3>5
      <4>2. QED
        BY <3>3, <4>1 DEF B!Doing
    <3>6. QED
      BY <3>4, <3>5
  <2>8. QED
    BY <1>1, <2>1, <2>2, <2>3, <2>4, <2>5, <2>7 DEF B!StreamSteps
<1>6. CASE B!ClearAssignments(h)
  <2>1. /\ bjob[h].at = "clear" /\ bjob' = [bjob EXCEPT ![h] = B!Idle]
        /\ assigned' = [u \in Seated |-> B!Main]
        /\ UNCHANGED <<bsession, room, ref, running, streams, bfaults, bcrossed>>
    BY <1>6 DEF B!ClearAssignments, B!Become, B!StreamState
  <2>2. \A g \in Handlers : bjob'[g] = IF g = h THEN B!Idle ELSE bjob[g]
    BY <1>0, <2>1, BreakoutJob
  <2>3. B!OpenRooms' = B!OpenRooms /\ B!TypeOK'
    BY <1>0, <2>1 DEF B!OpenRooms, B!TypeOK
  <2>4. B!InOpenRooms'
    BY <1>0, <2>1, <2>2, <2>3, BreakoutParts DEF B!InOpenRooms
  <2>5. QED
    BY <1>0, <1>1, <2>1, <2>3, <2>4 DEF B!StreamSteps
<1>7. CASE B!EndSession(h)
  <2>1. /\ bjob[h].at = "end" /\ bjob' = [bjob EXCEPT ![h] = B!Idle] /\ bsession' = "ended"
        /\ UNCHANGED <<room, assigned, ref, running, streams, bfaults, bcrossed>>
    BY <1>7 DEF B!EndSession, B!Become, B!RoomState, B!StreamState
  <2>2. B!TypeOK'
    BY <1>0, <2>1 DEF B!TypeOK
  <2>3. QED
    BY <1>0, <1>1, <2>1, <2>2, RoomsAside DEF B!StreamSteps
<1>8. QED
  BY <1>2, <1>3, <1>4, <1>5, <1>6, <1>7

LEMMA BreakoutOpen ==
  ASSUME B!BreakoutInv, B!Open \/ \E h \in Handlers, r \in Rooms : B!CreateRooms(h, r)
  PROVE  B!BreakoutInv'
<1>1. UNCHANGED <<assigned, ref, running, streams, bjob, bfaults, bcrossed>>
  BY DEF B!Open, B!CreateRooms, B!RoomState, B!StreamState
<1>2. B!TypeOK' /\ B!OpenRooms \subseteq B!OpenRooms'
  <2>1. CASE B!Open
    BY <2>1, BreakoutParts DEF B!Open, B!RoomState, B!StreamState, B!TypeOK, B!OpenRooms
  <2>2. ASSUME NEW h \in Handlers, NEW r \in Rooms, B!CreateRooms(h, r)
        PROVE  B!TypeOK' /\ B!OpenRooms \subseteq B!OpenRooms'
    BY <2>2, BreakoutParts DEF B!CreateRooms, B!StreamState, B!TypeOK, B!OpenRooms
  <2>3. QED
    BY <2>1, <2>2
<1>3. B!OneAtTheStream' /\ \A h \in Handlers : B!JobFits(bjob[h])'
  BY <1>1, BreakoutParts DEF B!OneAtTheStream, B!JobFits
<1>4. B!InOpenRooms'
  BY <1>1, <1>2, BreakoutParts DEF B!InOpenRooms, B!Doing
<1>5. QED
  BY <1>1, <1>2, <1>3, <1>4, BreakoutParts, BreakoutWhole

(* StartEgress, EgressStart, SetEgressLive, StopEgress, EgressStop and     *)
(* SetEgressOff: the stream.  A handler that read the row knows of all     *)
(* that runs as long as it was alone.                                      *)
LEMMA BreakoutStream ==
  ASSUME B!BreakoutInv, NEW h \in Handlers,
         \/ B!StartEgress(h) \/ B!EgressStart(h) \/ B!SetEgressLive(h) \/ B!SetEgressOff(h)
         \/ \E b \in BOOLEAN : B!StopEgress(h, b) \/ B!EgressStop(h, b)
  PROVE  B!BreakoutInv'
<1>0. /\ B!TypeOK /\ B!JobFits(bjob[h]) /\ B!JobFits(B!Idle) /\ B!Idle.at = "idle"
      /\ streams \in 0..MaxStreams /\ bfaults \in Nat
  BY BreakoutParts DEF B!JobFits, B!Idle
<1> DEFINE Alone == "stream" \notin bcrossed /\ bfaults = 0
           Known(x, runs, jobs) == \A s \in runs : s = x \/ \E g \in Handlers : jobs[g].at = "started" /\ jobs[g].ref = s
<1>1. ASSUME NEW next, B!JobFits(next), bjob' = [bjob EXCEPT ![h] = next],
             bjob[h].at # "clear", next.at # "assign", UNCHANGED <<bsession, room, assigned, bfaults>>,
             bcrossed \subseteq bcrossed', ref' \in 0..MaxStreams, running' \subseteq 1..MaxStreams,
             streams' \in 0..MaxStreams,
             "stream" \notin bcrossed' /\ bfaults' = 0 => Known(ref', running', bjob'),
             B!OneAtTheStream'
      PROVE  B!BreakoutInv'
  <2>1. B!TypeOK'
    BY <1>0, <1>1 DEF B!TypeOK
  <2>2. B!InOpenRooms'
    BY <1>1, RoomsAside
  <2>3. QED
    BY <1>0, <1>1, <2>1, <2>2, BreakoutJob, BreakoutWhole
<1>2. ASSUME Alone, ~B!Doing(B!StreamSteps) PROVE running \subseteq {ref}
  BY <1>2, BreakoutParts DEF B!Doing, B!StreamSteps
<1>3. ASSUME Alone, bjob[h].at \in B!StreamSteps
      PROVE  \A g \in Handlers : bjob[g].at \in B!StreamSteps => g = h
  BY <1>3, BreakoutParts DEF B!OneAtTheStream
<1>4. ASSUME Alone
      PROVE  /\ bjob[h].at \in {"start", "stopped"} => running = {}
             /\ bjob[h].at = "started" => running \subseteq {bjob[h].ref}
             /\ bjob[h].at = "stop" => bjob[h].ref = ref
  BY <1>4, BreakoutParts DEF B!OneAtTheStream
<1>5. CASE B!StartEgress(h)
  <2>1. PICK next : next = [at |-> "start"]
    OBVIOUS
  <2>2. /\ ref = 0 /\ bjob[h] = B!Idle /\ bjob' = [bjob EXCEPT ![h] = next]
        /\ IF B!Doing(B!StreamSteps) THEN bcrossed' = bcrossed \cup {"stream"} ELSE bcrossed' = bcrossed
        /\ UNCHANGED <<bsession, room, assigned, ref, running, streams, bfaults>>
    BY <1>5, <2>1 DEF B!StartEgress, B!RequireHost, B!Become, B!Cross, B!RoomState, B!StreamState, B!NoStream
  <2>3. B!JobFits(next) /\ next.at = "start" /\ bjob[h].at = "idle"
    BY <1>0, <2>1, <2>2 DEF B!JobFits, B!StreamSteps
  <2>4. \A g \in Handlers : bjob'[g] = IF g = h THEN next ELSE bjob[g]
    BY <2>2, <2>3, BreakoutJob
  <2>5. ASSUME "stream" \notin bcrossed', bfaults' = 0
        PROVE  Alone /\ ~B!Doing(B!StreamSteps) /\ running = {}
    <3>1. Alone /\ ~B!Doing(B!StreamSteps)
      BY <2>2, <2>5
    <3>2. QED
      BY <1>0, <1>2, <2>2, <3>1 DEF B!TypeOK
  <2>6. "stream" \notin bcrossed' /\ bfaults' = 0 => Known(ref', running', bjob')
    BY <2>2, <2>5
  <2>7. B!OneAtTheStream'
    BY <2>2, <2>3, <2>4, <2>5 DEF B!OneAtTheStream, B!Doing, B!StreamSteps
  <2>8. QED
    BY <1>0, <1>1, <2>2, <2>3, <2>6, <2>7 DEF B!TypeOK
<1>6. CASE B!EgressStart(h)
  <2>1. PICK next : next = [at |-> "started", ref |-> streams + 1]
    OBVIOUS
  <2>2. /\ bjob[h].at = "start" /\ bjob' = [bjob EXCEPT ![h] = next] /\ streams < MaxStreams
        /\ streams' = streams + 1 /\ running' = running \cup {streams + 1}
        /\ UNCHANGED <<bsession, room, assigned, ref, bcrossed, bfaults>>
    BY <1>6, <2>1 DEF B!EgressStart, B!Become, B!RoomState
  <2>3. streams + 1 \in 1..MaxStreams /\ streams + 1 \in 0..MaxStreams
    BY <1>0, <2>2, BreakoutConstants
  <2>4. B!JobFits(next) /\ next.at = "started" /\ next.ref = streams + 1
    BY <2>1, <2>3 DEF B!JobFits, B!StreamSteps
  <2>5. \A g \in Handlers : bjob'[g] = IF g = h THEN next ELSE bjob[g]
    BY <2>2, <2>4, BreakoutJob
  <2>6. ASSUME "stream" \notin bcrossed', bfaults' = 0
        PROVE  /\ running' = {streams + 1}
               /\ \A g \in Handlers : bjob[g].at \in B!StreamSteps => g = h
    <3>1. Alone
      BY <2>2, <2>6
    <3>2. running = {}
      BY <1>4, <2>2, <3>1
    <3>3. \A g \in Handlers : bjob[g].at \in B!StreamSteps => g = h
      BY <1>3, <2>2, <3>1 DEF B!StreamSteps
    <3>4. QED
      BY <2>2, <3>2, <3>3
  <2>7. "stream" \notin bcrossed' /\ bfaults' = 0 => Known(ref', running', bjob')
    BY <2>4, <2>5, <2>6
  <2>8. B!OneAtTheStream'
    BY <2>4, <2>5, <2>6 DEF B!OneAtTheStream, B!StreamSteps
  <2>9. QED
    BY <1>0, <1>1, <2>2, <2>3, <2>4, <2>7, <2>8 DEF B!TypeOK
<1>7. CASE B!SetEgressLive(h)
  <2>1. /\ bjob[h].at = "started" /\ bjob' = [bjob EXCEPT ![h] = B!Idle] /\ ref' = bjob[h].ref
        /\ UNCHANGED <<bsession, room, assigned, running, streams, bcrossed, bfaults>>
    BY <1>7 DEF B!SetEgressLive, B!Become, B!RoomState
  <2>2. ref' \in 0..MaxStreams
    BY <1>0, <2>1 DEF B!JobFits
  <2>3. \A g \in Handlers : bjob'[g] = IF g = h THEN B!Idle ELSE bjob[g]
    BY <1>0, <2>1, BreakoutJob
  <2>4. ASSUME "stream" \notin bcrossed', bfaults' = 0
        PROVE  running' \subseteq {ref'} /\ \A g \in Handlers : bjob[g].at \in B!StreamSteps => g = h
    <3>1. Alone
      BY <2>1, <2>4
    <3>2. QED
      BY <1>3, <1>4, <2>1, <3>1 DEF B!StreamSteps
  <2>5. "stream" \notin bcrossed' /\ bfaults' = 0 => Known(ref', running', bjob')
    BY <2>4
  <2>6. B!OneAtTheStream'
    BY <1>0, <2>3, <2>4 DEF B!OneAtTheStream, B!StreamSteps
  <2>7. QED
    BY <1>0, <1>1, <2>1, <2>2, <2>5, <2>6 DEF B!TypeOK
<1>8. CASE B!SetEgressOff(h)
  <2>1. PICK next : next = IF bjob[h].whole THEN [at |-> "closing", whole |-> TRUE] ELSE B!Idle
    OBVIOUS
  <2>2. /\ bjob[h].at = "stopped" /\ bjob' = [bjob EXCEPT ![h] = next] /\ ref' = 0
        /\ UNCHANGED <<bsession, room, assigned, running, streams, bcrossed, bfaults>>
    BY <1>8, <2>1 DEF B!SetEgressOff, B!Become, B!RoomState, B!NoStream
  <2>3. B!JobFits(next) /\ next.at \in {"idle", "closing"}
    BY <1>0, <2>1 DEF B!JobFits
  <2>4. \A g \in Handlers : bjob'[g] = IF g = h THEN next ELSE bjob[g]
    BY <2>2, <2>3, BreakoutJob
  <2>5. ASSUME "stream" \notin bcrossed', bfaults' = 0
        PROVE  running' = {} /\ \A g \in Handlers : bjob[g].at \in B!StreamSteps => g = h
    <3>1. Alone
      BY <2>2, <2>5
    <3>2. QED
      BY <1>3, <1>4, <2>2, <3>1 DEF B!StreamSteps
  <2>6. "stream" \notin bcrossed' /\ bfaults' = 0 => Known(ref', running', bjob')
    BY <2>5
  <2>7. B!OneAtTheStream'
    BY <2>3, <2>4, <2>5 DEF B!OneAtTheStream, B!StreamSteps
  <2>8. ref' \in 0..MaxStreams
    BY <2>2, BreakoutConstants
  <2>9. QED
    BY <1>0, <1>1, <2>2, <2>3, <2>6, <2>7, <2>8 DEF B!TypeOK
<1>9. ASSUME NEW b \in BOOLEAN, B!StopEgress(h, b) PROVE B!BreakoutInv'
  <2>1. PICK next : next = IF ref # 0 THEN [at |-> "stop", ref |-> ref, whole |-> b]
                                      ELSE [at |-> "closing", whole |-> TRUE]
    OBVIOUS
  <2>2. /\ bjob[h] = B!Idle /\ bjob' = [bjob EXCEPT ![h] = next]
        /\ IF B!Doing(B!StreamSteps) THEN bcrossed' = bcrossed \cup {"stream"} ELSE bcrossed' = bcrossed
        /\ UNCHANGED <<bsession, room, assigned, ref, running, streams, bfaults>>
    BY <1>9, <2>1 DEF B!StopEgress, B!RequireHost, B!Become, B!Cross, B!RoomState, B!StreamState, B!NoStream
  <2>3. /\ B!JobFits(next) /\ next.at \in {"stop", "closing"} /\ (next.at = "stop" => next.ref = ref)
        /\ bjob[h].at = "idle"
    BY <1>0, <2>1, <2>2 DEF B!JobFits, B!StreamSteps
  <2>4. \A g \in Handlers : bjob'[g] = IF g = h THEN next ELSE bjob[g]
    BY <2>2, <2>3, BreakoutJob
  <2>5. ASSUME "stream" \notin bcrossed', bfaults' = 0
        PROVE  ~B!Doing(B!StreamSteps) /\ running \subseteq {ref}
    <3>1. Alone /\ ~B!Doing(B!StreamSteps)
      BY <2>2, <2>5
    <3>2. QED
      BY <1>2, <3>1
  <2>6. "stream" \notin bcrossed' /\ bfaults' = 0 => Known(ref', running', bjob')
    BY <2>2, <2>5
  <2>7. B!OneAtTheStream'
    BY <2>2, <2>3, <2>4, <2>5 DEF B!OneAtTheStream, B!Doing, B!StreamSteps
  <2>8. QED
    BY <1>0, <1>1, <2>2, <2>3, <2>6, <2>7 DEF B!TypeOK
<1>10. ASSUME NEW b \in BOOLEAN, B!EgressStop(h, b) PROVE B!BreakoutInv'
  <2>1. PICK next : next = [at |-> "stopped", whole |-> bjob[h].whole]
    OBVIOUS
  <2>2. /\ bjob[h].at = "stop" /\ bjob' = [bjob EXCEPT ![h] = next]
        /\ bfaults' = IF b THEN bfaults ELSE bfaults + 1
        /\ running' = IF b THEN running \ {bjob[h].ref} ELSE running
        /\ UNCHANGED <<bsession, room, assigned, ref, streams, bcrossed>>
    BY <1>10, <2>1 DEF B!EgressStop, B!Become, B!RoomState
  <2>3. B!JobFits(next) /\ next.at = "stopped"
    BY <2>1 DEF B!JobFits, B!StreamSteps
  <2>4. CASE ~b
    BY <2>2, <2>3, <2>4, BreakoutFault
  <2>5. CASE b
    <3>1. \A g \in Handlers : bjob'[g] = IF g = h THEN next ELSE bjob[g]
      BY <2>2, <2>3, BreakoutJob
    <3>2. ASSUME "stream" \notin bcrossed', bfaults' = 0
          PROVE  running' = {} /\ \A g \in Handlers : bjob[g].at \in B!StreamSteps => g = h
      <4>1. Alone
        BY <2>2, <2>5, <3>2
      <4>2. \A g \in Handlers : bjob[g].at \in B!StreamSteps => g = h
        BY <1>3, <2>2, <4>1 DEF B!StreamSteps
      <4>3. \A g \in Handlers : bjob[g].at # "started"
        BY <2>2, <4>2 DEF B!StreamSteps
      <4>4. running \subseteq {ref} /\ bjob[h].ref = ref
        BY <1>4, <2>2, <4>1, <4>3, BreakoutParts
      <4>5. QED
        BY <2>2, <2>5, <4>2, <4>4
    <3>3. "stream" \notin bcrossed' /\ bfaults' = 0 => Known(ref', running', bjob')
      BY <3>2
    <3>4. B!OneAtTheStream'
      BY <2>3, <3>1, <3>2 DEF B!OneAtTheStream, B!StreamSteps
    <3>5. QED
      BY <1>0, <1>1, <2>2, <2>3, <2>5, <3>3, <3>4 DEF B!TypeOK
  <2>6. QED
    BY <2>4, <2>5
<1>11. QED
  BY <1>5, <1>6, <1>7, <1>8, <1>9, <1>10

LEMMA BreakoutAbandon ==
  ASSUME B!BreakoutInv, NEW h \in Handlers, B!Abandon(h)
  PROVE  B!BreakoutInv'
<1>1. /\ bjob' = [bjob EXCEPT ![h] = B!Idle] /\ bfaults' = bfaults + 1
      /\ UNCHANGED <<bsession, room, assigned, ref, running, streams>>
  BY DEF B!Abandon, B!Become, B!RoomState, B!StreamState
<1>2. B!JobFits(B!Idle)
  BY DEF B!JobFits, B!Idle
<1>3. QED
  BY <1>1, <1>2, BreakoutFault

LEMMA BreakoutStep ==
  ASSUME B!BreakoutInv, [B!Next]_BVars
  PROVE  B!BreakoutInv'
<1>1. CASE UNCHANGED BVars
  <2>1. UNCHANGED <<bsession, room, assigned, ref, running, streams, bjob, bcrossed, bfaults>>
    BY <1>1 DEF BVars
  <2>2. B!TypeOK' /\ B!OneAtTheStream' /\ \A h \in Handlers : B!JobFits(bjob[h])'
    BY <2>1, BreakoutParts DEF B!TypeOK, B!OneAtTheStream, B!JobFits
  <2>3. B!InOpenRooms'
    BY <2>1, BreakoutParts DEF B!InOpenRooms, B!OpenRooms, B!Doing
  <2>4. QED
    BY <2>1, <2>2, <2>3, BreakoutParts, BreakoutWhole
<1>2. QED
  BY <1>1, BreakoutOpen, BreakoutRooms, BreakoutStream, BreakoutAbandon DEF B!Next

-----------------------------------------------------------------------------
(* Recording consent.                                                      *)

\* Recording has its own copy of FiniteSets.
LEMMA RecordingCardinality == ASSUME NEW X PROVE R!Cardinality(X) = Cardinality(X)
  BY DEF R!Cardinality, Cardinality, R!IsFiniteSet, IsFiniteSet

\* Whatever the answers, each user is counted once.
LEMMA CountedOnce ==
  ASSUME NEW said \in [Users -> {"none", "yes", "no"}]
  PROVE  Cardinality({u \in {v \in Users : said[v] # "none"} : said[u] = "yes"})
         + Cardinality({u \in {v \in Users : said[v] # "none"} : said[u] = "no"})
         + Cardinality(Users \ {v \in Users : said[v] # "none"}) = Cardinality(Users)
<1>1. PICK all, yes, no : /\ all = {v \in Users : said[v] # "none"}
                          /\ yes = {u \in all : said[u] = "yes"}
                          /\ no = {u \in all : said[u] = "no"}
  OBVIOUS
<1>2. /\ all \in SUBSET Users /\ yes \in SUBSET Users /\ no \in SUBSET Users
      /\ yes \cup no = all /\ yes \cap no = {} /\ Users \cap all = all
  BY <1>1
<1>3. IsFiniteSet(all)
  BY <1>2, RecordingConstants, FS_Subset
<1>4. IsFiniteSet(yes)
  BY <1>2, RecordingConstants, FS_Subset
<1>5. IsFiniteSet(no)
  BY <1>2, RecordingConstants, FS_Subset
<1>6. /\ Cardinality(all) \in Nat /\ Cardinality(yes) \in Nat /\ Cardinality(no) \in Nat
      /\ Cardinality(Users) \in Nat
  BY <1>3, <1>4, <1>5, RecordingConstants, FS_CardinalityType
<1>7. Cardinality(yes \cup no) = Cardinality(yes) + Cardinality(no) - Cardinality(yes \cap no)
  BY <1>4, <1>5, FS_Union
<1>8. Cardinality(all) = Cardinality(yes) + Cardinality(no)
  <2>1. Cardinality(all) = Cardinality(yes) + Cardinality(no) - Cardinality({})
    BY <1>2, <1>7, Zenon
  <2>2. QED
    BY <1>6, <2>1, FS_EmptySet
<1>9. Cardinality(Users \ all) = Cardinality(Users) - Cardinality(all)
  <2>1. Cardinality(Users \ all) = Cardinality(Users) - Cardinality(Users \cap all)
    BY RecordingConstants, FS_Difference
  <2>2. QED
    BY <1>2, <2>1, Zenon
<1>10. Cardinality(yes) + Cardinality(no) + Cardinality(Users \ all) = Cardinality(Users)
  BY <1>6, <1>8, <1>9
<1>11. QED
  BY <1>1, <1>10

\* The parts of the invariant.
LEMMA RecordingParts ==
  ASSUME R!RecordingInv
  PROVE  /\ R!TypeOK
         /\ \A u \in Users : consent[u].is # "none" => consent[u].in = resets \/ u \in rcrossed
         /\ rjob = [h \in Handlers |-> rjob[h]] /\ \A h \in Handlers : R!JobFits(rjob[h])
  BY DEF R!RecordingInv, R!RecordingSound, R!AskedAgain

\* What the tally adds up to follows from the rest.
LEMMA RecordingWhole ==
  ASSUME R!TypeOK',
         \A u \in Users : consent'[u].is # "none" => consent'[u].in = resets' \/ u \in rcrossed',
         (rjob = [h \in Handlers |-> rjob[h]])', \A h \in Handlers : R!JobFits(rjob[h])'
  PROVE  R!RecordingInv'
<1>1. PICK said : said = [u \in Users |-> consent'[u].is]
  OBVIOUS
<1>2. said \in [Users -> {"none", "yes", "no"}] /\ \A u \in Users : said[u] = consent'[u].is
  BY <1>1 DEF R!TypeOK
<1>3. R!ListConsents' = {v \in Users : said[v] # "none"}
  BY <1>2 DEF R!ListConsents
<1>4. /\ R!Tally("yes")' = Cardinality({u \in {v \in Users : said[v] # "none"} : said[u] = "yes"})
      /\ R!Tally("no")' = Cardinality({u \in {v \in Users : said[v] # "none"} : said[u] = "no"})
      /\ R!Tally("none")' = Cardinality(Users \ {v \in Users : said[v] # "none"})
  <2>1. ASSUME NEW a \in {"yes", "no"}
        PROVE  {u \in R!ListConsents' : consent'[u].is = a} = {u \in {v \in Users : said[v] # "none"} : said[u] = a}
    BY <1>2, <1>3
  <2>2. QED
    BY <1>3, <2>1, RecordingCardinality DEF R!Tally
<1>5. R!Tally("yes")' + R!Tally("no")' + R!Tally("none")' = R!Cardinality(Users)
  BY <1>2, <1>4, CountedOnce, RecordingCardinality
<1>6. R!AskedAgain'
  BY <1>5 DEF R!AskedAgain
<1>7. QED
  BY <1>6 DEF R!RecordingInv, R!RecordingSound

LEMMA RecordingInit == R!Init => R!RecordingInv
<1> SUFFICES ASSUME R!Init PROVE R!RecordingInv
  OBVIOUS
<1>1. R!TypeOK
  BY RecordingConstants DEF R!Init, R!TypeOK, R!NoAnswer
<1>2. rjob = [h \in Handlers |-> rjob[h]] /\ \A h \in Handlers : R!JobFits(rjob[h])
  BY DEF R!Init, R!Idle, R!JobFits
<1>3. \A u \in Users : consent[u].is = "none"
  BY DEF R!Init, R!NoAnswer
<1>4. R!ListConsents = {}
  BY <1>3 DEF R!ListConsents
<1>5. R!Tally("yes") = Cardinality({u \in {} : consent[u].is = "yes"}) /\ R!Tally("no") = Cardinality({u \in {} : consent[u].is = "no"})
      /\ R!Tally("none") = Cardinality(Users \ {})
  BY <1>4, RecordingCardinality DEF R!Tally
<1>6. {u \in {} : consent[u].is = "yes"} = {} /\ {u \in {} : consent[u].is = "no"} = {} /\ Users \ {} = Users
  OBVIOUS
<1>7. R!Tally("yes") + R!Tally("no") + R!Tally("none") = R!Cardinality(Users)
  BY <1>5, <1>6, FS_EmptySet, FS_CardinalityType, RecordingConstants, RecordingCardinality
<1>8. QED
  BY <1>1, <1>2, <1>3, <1>7 DEF R!RecordingInv, R!RecordingSound, R!AskedAgain

\* A handler goes on to `next', and nothing is cleared.
LEMMA RecordingJob ==
  ASSUME R!RecordingInv, NEW h \in Handlers, NEW next, R!JobFits(next), rjob' = [rjob EXCEPT ![h] = next],
         UNCHANGED <<resets, rcrossed>>
  PROVE  (rjob = [g \in Handlers |-> rjob[g]])' /\ \A g \in Handlers : R!JobFits(rjob[g])'
<1>1. /\ rjob' = [g \in Handlers |-> rjob'[g]]
      /\ \A g \in Handlers : rjob'[g] = IF g = h THEN next ELSE rjob[g]
  BY RecordingParts
<1>2. ASSUME NEW g \in Handlers PROVE R!JobFits(rjob[g])'
  BY <1>1, RecordingParts DEF R!JobFits
<1>3. QED
  BY <1>1, <1>2

\* Steps that write no answer and clear none.
LEMMA RecordingAside ==
  ASSUME R!RecordingInv, NEW h \in Handlers, NEW next, R!JobFits(next), rjob' = [rjob EXCEPT ![h] = next],
         UNCHANGED <<consent, resets, rcrossed>>, recording' \in {"off", "requested", "active"}
  PROVE  R!RecordingInv'
<1>1. R!TypeOK'
  BY RecordingParts DEF R!TypeOK
<1>2. QED
  BY <1>1, RecordingParts, RecordingJob, RecordingWhole

(* RequestRecording, StartRecording, StopRecording and Consent begin;      *)
(* SetRecording and Abandon end.                                           *)
LEMMA RecordingDecide ==
  ASSUME R!RecordingInv, NEW h \in Handlers,
         \/ R!RequestRecording(h) \/ R!StartRecording(h) \/ R!StopRecording(h)
         \/ R!SetRecording(h) \/ R!Abandon(h)
         \/ \E u \in Users, a \in {"yes", "no"} : R!Consent(h, u, a)
  PROVE  R!RecordingInv'
<1>0. /\ R!JobFits(R!Idle) /\ R!JobFits(rjob[h]) /\ recording \in {"off", "requested", "active"}
      /\ resets \in 0..MaxRequests
  BY RecordingParts DEF R!JobFits, R!Idle, R!TypeOK
<1>1. CASE R!RequestRecording(h)
  <2>1. PICK next : next = [at |-> "reset"]
    OBVIOUS
  <2>2. rjob' = [rjob EXCEPT ![h] = next] /\ UNCHANGED <<consent, recording, resets, rcrossed>>
    BY <1>1, <2>1 DEF R!RequestRecording, R!Decide, R!Become
  <2>3. R!JobFits(next)
    BY <2>1 DEF R!JobFits
  <2>4. QED
    BY <1>0, <2>2, <2>3, RecordingAside
<1>2. CASE R!StartRecording(h) \/ R!StopRecording(h)
  <2>1. PICK to \in {"active", "off"} :
           rjob' = [rjob EXCEPT ![h] = [at |-> "record", to |-> to]] /\ UNCHANGED <<consent, recording, resets, rcrossed>>
    BY <1>2 DEF R!StartRecording, R!StopRecording, R!Decide, R!Become
  <2>2. R!JobFits([at |-> "record", to |-> to])
    BY <2>1 DEF R!JobFits
  <2>3. QED
    BY <1>0, <2>1, <2>2, RecordingAside
<1>3. CASE R!SetRecording(h)
  <2>1. /\ rjob' = [rjob EXCEPT ![h] = R!Idle] /\ recording' = rjob[h].to /\ rjob[h].at = "record"
        /\ UNCHANGED <<consent, resets, rcrossed>>
    BY <1>3 DEF R!SetRecording, R!Become
  <2>2. recording' \in {"off", "requested", "active"}
    BY <1>0, <2>1 DEF R!JobFits
  <2>3. QED
    BY <1>0, <2>1, <2>2, RecordingAside
<1>4. CASE R!Abandon(h)
  <2>1. rjob' = [rjob EXCEPT ![h] = R!Idle] /\ UNCHANGED <<consent, recording, resets, rcrossed>>
    BY <1>4 DEF R!Abandon, R!Become
  <2>2. QED
    BY <1>0, <2>1, RecordingAside
<1>5. ASSUME NEW u \in Users, NEW a \in {"yes", "no"}, R!Consent(h, u, a) PROVE R!RecordingInv'
  <2>1. PICK answered : answered = [is |-> a, in |-> resets]
    OBVIOUS
  <2>2. PICK next : next = [at |-> "consent", u |-> u, row |-> answered]
    OBVIOUS
  <2>3. rjob' = [rjob EXCEPT ![h] = next] /\ UNCHANGED <<consent, recording, resets, rcrossed>>
    BY <1>5, <2>1, <2>2 DEF R!Consent, R!Decide, R!Become
  <2>4. answered \in [is : {"yes", "no"}, in : 0..MaxRequests] /\ answered.in = resets
    BY <1>0, <2>1
  <2>5. R!JobFits(next)
    BY <2>2, <2>4 DEF R!JobFits
  <2>6. QED
    BY <1>0, <2>3, <2>5, RecordingAside
<1>6. QED
  BY <1>1, <1>2, <1>3, <1>4, <1>5

(* ResetConsents: no answer stands, and those on their way are late.       *)
LEMMA RecordingReset ==
  ASSUME R!RecordingInv, NEW h \in Handlers, R!ResetConsents(h)
  PROVE  R!RecordingInv'
<1>1. PICK next : next = [at |-> "record", to |-> "requested"]
  OBVIOUS
<1>2. /\ rjob[h].at = "reset" /\ resets < MaxRequests
      /\ consent' = [u \in Users |-> R!NoAnswer] /\ resets' = resets + 1
      /\ rcrossed' = {u \in Users : \E g \in Handlers : rjob[g].at = "consent" /\ rjob[g].u = u}
      /\ rjob' = [rjob EXCEPT ![h] = next] /\ recording' = recording
  BY <1>1 DEF R!ResetConsents, R!Cleared, R!Become
<1>3. R!NoAnswer \in [is : {"none", "yes", "no"}, in : 0..MaxRequests] /\ R!NoAnswer.is = "none"
  BY RecordingConstants DEF R!NoAnswer
<1>4. R!TypeOK'
  <2>1. resets' \in 0..MaxRequests
    BY <1>2, RecordingParts, RecordingConstants DEF R!TypeOK
  <2>2. consent' \in [Users -> [is : {"none", "yes", "no"}, in : 0..MaxRequests]]
    BY <1>2, <1>3
  <2>3. QED
    BY <1>2, <2>1, <2>2, RecordingParts DEF R!TypeOK
<1>5. \A u \in Users : consent'[u].is = "none"
  BY <1>2, <1>3
<1>6. /\ rjob' = [g \in Handlers |-> rjob'[g]]
      /\ \A g \in Handlers : rjob'[g] = IF g = h THEN next ELSE rjob[g]
  BY <1>2, RecordingParts
<1>7. ASSUME NEW g \in Handlers PROVE R!JobFits(rjob[g])'
  <2>1. CASE g = h
    BY <1>1, <1>6, <2>1 DEF R!JobFits
  <2>2. CASE g # h
    <3>1. rjob'[g] = rjob[g] /\ R!JobFits(rjob[g])
      BY <1>6, <2>2, RecordingParts
    <3>2. rjob[g].at = "consent" => rjob[g].u \in rcrossed'
      BY <1>2, <3>1 DEF R!JobFits
    <3>3. QED
      BY <3>1, <3>2 DEF R!JobFits
  <2>3. QED
    BY <2>1, <2>2
<1>8. QED
  BY <1>4, <1>5, <1>6, <1>7, RecordingWhole

(* SetConsent: the answer is written, to whatever request it was given.    *)
LEMMA RecordingAnswer ==
  ASSUME R!RecordingInv, NEW h \in Handlers, R!SetConsent(h)
  PROVE  R!RecordingInv'
<1>1. /\ rjob[h].at = "consent" /\ consent' = [consent EXCEPT ![rjob[h].u] = rjob[h].row]
      /\ rjob' = [rjob EXCEPT ![h] = R!Idle] /\ UNCHANGED <<recording, resets, rcrossed>>
  BY DEF R!SetConsent, R!Become
<1>2. PICK u \in Users, r \in [is : {"yes", "no"}, in : 0..MaxRequests] :
        u = rjob[h].u /\ r = rjob[h].row /\ (r.in = resets \/ u \in rcrossed)
  BY <1>1, RecordingParts DEF R!JobFits
<1>3. consent \in [Users -> [is : {"none", "yes", "no"}, in : 0..MaxRequests]]
  BY RecordingParts DEF R!TypeOK
<1>4. r \in [is : {"none", "yes", "no"}, in : 0..MaxRequests]
  OBVIOUS
<1>5. /\ consent' \in [Users -> [is : {"none", "yes", "no"}, in : 0..MaxRequests]]
      /\ \A v \in Users : consent'[v] = IF v = u THEN r ELSE consent[v]
  BY <1>1, <1>2, <1>3, <1>4
<1>6. R!TypeOK'
  BY <1>1, <1>5, RecordingParts DEF R!TypeOK
<1>7. \A v \in Users : consent'[v].is # "none" => consent'[v].in = resets \/ v \in rcrossed
  BY <1>2, <1>5, RecordingParts
<1>8. R!JobFits(R!Idle)
  BY DEF R!JobFits, R!Idle
<1>9. QED
  BY <1>1, <1>6, <1>7, <1>8, RecordingJob, RecordingWhole

LEMMA RecordingStep ==
  ASSUME R!RecordingInv, [R!Next]_RVars
  PROVE  R!RecordingInv'
<1>1. CASE UNCHANGED RVars
  <2>1. R!TypeOK' /\ \A h \in Handlers : R!JobFits(rjob[h])'
    BY <1>1, RecordingParts DEF RVars, R!TypeOK, R!JobFits
  <2>2. QED
    BY <1>1, <2>1, RecordingParts, RecordingWhole DEF RVars
<1>2. QED
  BY <1>1, RecordingDecide, RecordingReset, RecordingAnswer DEF R!Next

-----------------------------------------------------------------------------
(* Notes and tasks.                                                        *)

\* The parts of the invariant.
LEMMA CollabParts ==
  ASSUME C!CollabInv
  PROVE  /\ C!TypeOK /\ note.version \in 0..MaxVersion
         /\ C!LostNeedsOverlap /\ C!ApprovalStands
         /\ cjob = [h \in Handlers |-> cjob[h]] /\ \A h \in Handlers : C!JobFits(cjob[h])
         /\ cfaults \in Nat
         /\ C!AllCovered /\ C!EditsAlone /\ C!DecisionsAlone
  BY DEF C!CollabInv, C!CollabSound, C!TypeOK

\* That the history is whole follows from the rest.
LEMMA CollabWhole ==
  ASSUME C!TypeOK', C!LostNeedsOverlap', C!ApprovalStands',
         (cjob = [h \in Handlers |-> cjob[h]])', \A h \in Handlers : C!JobFits(cjob[h])',
         cfaults' \in Nat, C!AllCovered', C!EditsAlone', C!DecisionsAlone'
  PROVE  C!CollabInv'
<1>1. C!HistoryWhole'
  <2>1. SUFFICES ASSUME cfaults' = 0, NEW v \in 1..note'.version
        PROVE  \/ \E h \in Handlers : cjob'[h].at = "revise" /\ cjob'[h].version = v
               \/ /\ revisions'[v] # C!Nobody
                  /\ v = note'.version /\ "edit" \notin ccrossed' => revisions'[v] = note'.by
    BY DEF C!HistoryWhole
  <2>2. v \in C!Versions /\ v <= note'.version
    BY CollabConstants DEF C!TypeOK, C!Versions
  <2>3. C!Covered(v)'
    BY <2>1, <2>2 DEF C!AllCovered
  <2>4. v = note'.version /\ "edit" \notin ccrossed' => revisions'[v] \in {C!Nobody, note'.by}
    BY <2>2 DEF C!EditsAlone
  <2>5. QED
    BY <2>3, <2>4 DEF C!Covered
<1>2. QED
  BY <1>1 DEF C!CollabInv, C!CollabSound

LEMMA CollabInit == C!Init => C!CollabInv
<1> SUFFICES ASSUME C!Init PROVE C!CollabInv
  OBVIOUS
<1>1. C!TypeOK /\ note.version = 0 /\ cfaults = 0
  BY CollabConstants DEF C!Init, C!TypeOK
<1>2. \A h \in Handlers : cjob[h].at = "idle"
  BY DEF C!Init, C!Idle
<1>3. cjob = [h \in Handlers |-> cjob[h]] /\ \A h \in Handlers : C!JobFits(cjob[h])
  BY <1>2 DEF C!Init, C!JobFits
<1>4. C!LostNeedsOverlap /\ C!ApprovalStands /\ \A v \in C!Versions : revisions[v] = C!Nobody
  BY DEF C!Init, C!LostNeedsOverlap, C!ApprovalStands
<1>5. C!HistoryWhole
  BY <1>1 DEF C!HistoryWhole
<1>6. C!AllCovered
  BY <1>1, <1>2 DEF C!AllCovered, C!Versions
<1>7. C!EditsAlone
  BY <1>1, <1>2, <1>4 DEF C!EditsAlone, C!Versions
<1>8. C!DecisionsAlone
  BY <1>2 DEF C!DecisionsAlone
<1>9. QED
  BY <1>1, <1>3, <1>4, <1>5, <1>6, <1>7, <1>8 DEF C!CollabInv, C!CollabSound

\* A handler goes to a place where it neither edits nor revises, and leaves
\* none; note and revisions stay, and what it changes besides is given.
LEMMA CollabAside ==
  ASSUME C!CollabInv, NEW h \in Handlers, NEW next,
         cjob' = [cjob EXCEPT ![h] = next], C!JobFits(next),
         cjob[h].at \notin {"edit", "revise"}, next.at \notin {"edit", "revise"},
         UNCHANGED <<revisions, clost>>, note'.version = note.version, note'.by = note.by,
         "edit" \in ccrossed <=> "edit" \in ccrossed', cfaults' \in Nat, cfaults' = 0 => cfaults = 0,
         C!TypeOK', C!ApprovalStands', C!DecisionsAlone'
  PROVE  C!CollabInv'
<1>1. /\ cjob' = [g \in Handlers |-> cjob'[g]]
      /\ \A g \in Handlers : cjob'[g] = IF g = h THEN next ELSE cjob[g]
  BY CollabParts
<1>2. ASSUME NEW g \in Handlers PROVE C!JobFits(cjob[g])'
  BY <1>1, CollabParts DEF C!JobFits
<1>3. ASSUME NEW g \in Handlers, cjob'[g].at \in {"edit", "revise"} \/ cjob[g].at \in {"edit", "revise"}
      PROVE  cjob'[g] = cjob[g]
  BY <1>1, <1>3
<1>4. \A v \in C!Versions : C!Covered(v) => C!Covered(v)'
  BY <1>3 DEF C!Covered
<1>5. C!AllCovered'
  <2>1. SUFFICES ASSUME cfaults' = 0 PROVE /\ \A v \in C!Versions : v <= note'.version => C!Covered(v)'
                                           /\ \A g \in Handlers : cjob'[g].at = "edit" => \A v \in 1..cjob'[g].base : C!Covered(v)'
    BY DEF C!AllCovered
  <2>2. \A v \in C!Versions : v <= note'.version => C!Covered(v)'
    BY <1>4, <2>1, CollabParts DEF C!AllCovered
  <2>3. ASSUME NEW g \in Handlers, cjob'[g].at = "edit", NEW v \in 1..cjob'[g].base PROVE C!Covered(v)'
    <3>1. cjob[g] = cjob'[g] /\ C!JobFits(cjob[g])
      BY <1>3, <2>3, CollabParts
    <3>2. v \in C!Versions
      BY <2>3, <3>1, CollabConstants DEF C!JobFits, C!Versions
    <3>3. QED
      BY <1>4, <2>1, <2>3, <3>1, <3>2, CollabParts DEF C!AllCovered
  <2>4. QED
    BY <2>2, <2>3
<1>6. C!EditsAlone'
  BY <1>3, CollabParts DEF C!EditsAlone
<1>7. C!LostNeedsOverlap'
  BY CollabParts DEF C!LostNeedsOverlap
<1>8. QED
  BY <1>1, <1>2, <1>5, <1>6, <1>7, CollabWhole

(* The tasks.                                                              *)
LEMMA CollabTask ==
  ASSUME C!CollabInv, NEW h \in Handlers,
         C!CreateTask(h) \/ C!DeleteTask(h) \/ C!WriteTask(h) \/ \E to \in {"open", "done"} : C!ToggleTask(h, to)
  PROVE  C!CollabInv'
<1>1. CASE C!WriteTask(h)
  <2>1. /\ cjob' = [cjob EXCEPT ![h] = C!Idle] /\ cjob[h].at = "task"
        /\ UNCHANGED <<note, revisions, cmember, clost, undone, ccrossed, cfaults>>
        /\ task' = IF task \in cjob[h].from THEN cjob[h].to ELSE task
    BY <1>1 DEF C!WriteTask, C!Become
  <2>2. C!TypeOK' /\ C!ApprovalStands'
    BY <2>1, CollabParts DEF C!TypeOK, C!JobFits, C!ApprovalStands
  <2>3. C!JobFits(C!Idle) /\ C!Idle.at = "idle"
    BY DEF C!JobFits, C!Idle
  <2>4. \A g \in Handlers : cjob'[g] = IF g = h THEN C!Idle ELSE cjob[g]
    BY <2>1, CollabParts
  <2>5. C!DecisionsAlone'
    BY <2>1, <2>3, <2>4, CollabParts DEF C!DecisionsAlone
  <2>6. QED
    BY <2>1, <2>2, <2>3, <2>5, CollabParts, CollabAside
<1>2. CASE C!CreateTask(h) \/ C!DeleteTask(h) \/ \E to \in {"open", "done"} : C!ToggleTask(h, to)
  <2>1. PICK next : /\ cjob' = [cjob EXCEPT ![h] = next] /\ cjob[h] = C!Idle
                    /\ next.at = "task" /\ next.to \in {"open", "done", "deleted"}
                    /\ UNCHANGED <<note, revisions, task, cmember, clost, undone, cfaults>>
                    /\ ccrossed' \in {ccrossed, ccrossed \cup {"task"}}
    <3>1. CASE C!CreateTask(h)
      BY <3>1 DEF C!CreateTask, C!Enter, C!Become
    <3>2. CASE C!DeleteTask(h)
      BY <3>2 DEF C!DeleteTask, C!Enter, C!Become
    <3>3. CASE \E to \in {"open", "done"} : C!ToggleTask(h, to)
      BY <3>3 DEF C!ToggleTask, C!Enter, C!Become
    <3>4. QED
      BY <1>2, <3>1, <3>2, <3>3
  <2>2. C!TypeOK' /\ C!ApprovalStands'
    BY <2>1, CollabParts DEF C!TypeOK, C!ApprovalStands
  <2>3. C!JobFits(next) /\ cjob[h].at = "idle"
    BY <2>1 DEF C!JobFits, C!Idle
  <2>4. \A g \in Handlers : cjob'[g] = IF g = h THEN next ELSE cjob[g]
    BY <2>1, CollabParts
  <2>5. C!DecisionsAlone'
    BY <2>1, <2>3, <2>4, CollabParts DEF C!DecisionsAlone
  <2>6. QED
    BY <2>1, <2>2, <2>3, <2>5, CollabParts, CollabAside
<1>3. QED
  BY <1>1, <1>2

(* RequestApproval, DecideApproval, SetApproval.                           *)
LEMMA CollabApproval ==
  ASSUME C!CollabInv, NEW h \in Handlers,
         C!RequestApproval(h) \/ C!SetApproval(h) \/ \E to \in {"approved", "rejected"} : C!DecideApproval(h, to)
  PROVE  C!CollabInv'
<1>1. CASE C!SetApproval(h)
  <2>1. /\ cjob' = [cjob EXCEPT ![h] = C!Idle] /\ cjob[h].at = "approval"
        /\ UNCHANGED <<revisions, task, cmember, clost, ccrossed, cfaults>>
        /\ note' = [note EXCEPT !.approval = cjob[h].to]
        /\ undone' = (undone \/ note.approval = "approved")
    BY <1>1 DEF C!SetApproval, C!Become
  <2>2. C!TypeOK' /\ note'.version = note.version /\ note'.by = note.by
    BY <2>1, CollabParts DEF C!TypeOK, C!JobFits
  <2>3. C!ApprovalStands'
    BY <2>1, CollabParts DEF C!ApprovalStands, C!DecisionsAlone
  <2>4. C!JobFits(C!Idle) /\ C!Idle.at = "idle"
    BY DEF C!JobFits, C!Idle
  <2>5. \A g \in Handlers : cjob'[g] = IF g = h THEN C!Idle ELSE cjob[g]
    BY <2>1, CollabParts
  <2>6. C!DecisionsAlone'
    BY <2>1, <2>4, <2>5, CollabParts DEF C!DecisionsAlone
  <2>7. QED
    BY <2>1, <2>2, <2>3, <2>4, <2>6, CollabParts, CollabAside
<1>2. CASE C!RequestApproval(h) \/ \E to \in {"approved", "rejected"} : C!DecideApproval(h, to)
  <2>1. PICK next : /\ cjob' = [cjob EXCEPT ![h] = next] /\ cjob[h] = C!Idle
                    /\ next.at = "approval" /\ next.to \in {"pending", "approved", "rejected"}
                    /\ UNCHANGED <<note, revisions, task, cmember, clost, undone, cfaults>>
                    /\ note.approval # "approved"
                    /\ ccrossed' = IF C!Doing({"approval"}) THEN ccrossed \cup {"approval"} ELSE ccrossed
    <3>1. CASE C!RequestApproval(h)
      BY <3>1 DEF C!RequestApproval, C!Enter, C!Become, C!CanRequestApproval
    <3>2. CASE \E to \in {"approved", "rejected"} : C!DecideApproval(h, to)
      BY <3>2 DEF C!DecideApproval, C!Enter, C!Become, C!Decidable
    <3>3. QED
      BY <1>2, <3>1, <3>2
  <2>2. C!TypeOK' /\ C!ApprovalStands'
    BY <2>1, CollabParts DEF C!TypeOK, C!ApprovalStands
  <2>3. C!JobFits(next) /\ cjob[h].at = "idle"
    BY <2>1 DEF C!JobFits, C!Idle
  <2>4. \A g \in Handlers : cjob'[g] = IF g = h THEN next ELSE cjob[g]
    BY <2>1, CollabParts
  <2>5. C!DecisionsAlone'
    BY <2>1, <2>4, CollabParts DEF C!DecisionsAlone, C!Doing
  <2>6. QED
    BY <2>1, <2>2, <2>3, <2>5, CollabParts, CollabAside
<1>3. QED
  BY <1>1, <1>2

(* An edit is admitted.                                                    *)
LEMMA CollabUpdate ==
  ASSUME C!CollabInv, NEW h \in Handlers, NEW base \in C!Versions, C!UpdateNote(h, base)
  PROVE  C!CollabInv'
<1> USE CollabConstants
<1>1. PICK next : next = [at |-> "edit", base |-> base, next |-> note.version + 1]
  OBVIOUS
<1>2. /\ cjob' = [cjob EXCEPT ![h] = next] /\ cjob[h] = C!Idle
      /\ UNCHANGED <<note, revisions, task, cmember, clost, undone, cfaults>>
      /\ base = note.version /\ note.version > 0 /\ note.version < MaxVersion
      /\ ccrossed' = IF C!Doing({"edit"}) THEN ccrossed \cup {"edit"} ELSE ccrossed
  BY <1>1 DEF C!UpdateNote, C!Enter, C!Become, C!CheckVersion
<1>3. C!JobFits(next) /\ cjob[h].at = "idle" /\ next.at = "edit" /\ next.base = note.version
  BY <1>1, <1>2, CollabParts DEF C!JobFits, C!Idle, C!Versions
<1>4. /\ cjob' = [g \in Handlers |-> cjob'[g]]
      /\ \A g \in Handlers : cjob'[g] = IF g = h THEN next ELSE cjob[g]
  BY <1>2, CollabParts
<1>5. ASSUME NEW g \in Handlers PROVE C!JobFits(cjob[g])'
  BY <1>3, <1>4, CollabParts DEF C!JobFits
<1>6. \A v \in C!Versions : C!Covered(v) => C!Covered(v)'
  BY <1>2, <1>3, <1>4 DEF C!Covered
<1>7. C!AllCovered'
  <2>1. SUFFICES ASSUME cfaults = 0
        PROVE /\ \A v \in C!Versions : v <= note.version => C!Covered(v)'
              /\ \A g \in Handlers : cjob'[g].at = "edit" => \A v \in 1..cjob'[g].base : C!Covered(v)'
    BY <1>2 DEF C!AllCovered
  <2>2. \A v \in C!Versions : v <= note.version => C!Covered(v)'
    BY <1>6, <2>1, CollabParts DEF C!AllCovered
  <2>3. ASSUME NEW g \in Handlers, cjob'[g].at = "edit", NEW v \in 1..cjob'[g].base PROVE C!Covered(v)'
    <3>1. v \in C!Versions
      BY <1>5, <2>3 DEF C!JobFits, C!Versions
    <3>2. CASE g = h
      BY <1>3, <1>4, <2>2, <2>3, <3>1, <3>2 DEF C!Versions
    <3>3. CASE g # h
      BY <1>4, <1>6, <2>1, <2>3, <3>1, <3>3, CollabParts DEF C!AllCovered
    <3>4. QED
      BY <3>2, <3>3
  <2>4. QED
    BY <2>2, <2>3
<1>8. C!EditsAlone'
  <2>1. CASE "edit" \in ccrossed'
    BY <2>1 DEF C!EditsAlone
  <2>2. CASE "edit" \notin ccrossed'
    <3>1. "edit" \notin ccrossed /\ \A g \in Handlers : cjob[g].at # "edit"
      BY <1>2, <2>2 DEF C!Doing
    <3>2. \A g \in Handlers : cjob'[g].at = "revise" => cjob'[g] = cjob[g]
      BY <1>3, <1>4
    <3>3. \A g \in Handlers : cjob'[g].at = "edit" => g = h /\ cjob'[g].base = note'.version
      BY <1>2, <1>3, <1>4, <3>1
    <3>4. QED
      BY <1>2, <3>1, <3>2, <3>3, CollabParts DEF C!EditsAlone
  <2>3. QED
    BY <2>1, <2>2
<1>9. C!TypeOK' /\ C!LostNeedsOverlap' /\ C!ApprovalStands'
  BY <1>2, CollabParts DEF C!TypeOK, C!LostNeedsOverlap, C!ApprovalStands
<1>10. C!DecisionsAlone'
  BY <1>2, <1>3, <1>4, CollabParts DEF C!DecisionsAlone
<1>11. QED
  BY <1>2, <1>4, <1>5, <1>7, <1>8, <1>9, <1>10, CollabParts, CollabWhole

(* CreateNote and WriteNote: the note gets the version that the handler    *)
(* goes on to revise.                                                      *)
LEMMA CollabWrite ==
  ASSUME C!CollabInv, NEW h \in Handlers, C!CreateNote(h) \/ C!WriteNote(h)
  PROVE  C!CollabInv'
<1> USE CollabConstants
<1>1. PICK v1 : v1 = IF C!CreateNote(h) THEN 1 ELSE cjob[h].next
  OBVIOUS
<1>2. PICK next : next = [at |-> "revise", version |-> v1]
  OBVIOUS
<1>3. /\ cjob' = [cjob EXCEPT ![h] = next]
      /\ note' = [note EXCEPT !.version = v1, !.by = h]
      /\ UNCHANGED <<revisions, task, cmember, undone, ccrossed, cfaults>>
  BY <1>1, <1>2 DEF C!CreateNote, C!WriteNote, C!Become
<1>4. \/ cjob[h].at = "idle" /\ v1 = 1 /\ note.version = 0 /\ clost' = clost
      \/ /\ cjob[h].at = "edit" /\ v1 = cjob[h].next /\ ~C!CreateNote(h)
         /\ clost' = (clost \/ note.version # cjob[h].base)
  BY <1>1 DEF C!CreateNote, C!WriteNote, C!Idle
<1>5. v1 \in C!Versions /\ next.at = "revise" /\ next.version = v1 /\ C!JobFits(next)
  <2>1. v1 \in C!Versions
    BY <1>4, CollabParts DEF C!JobFits, C!Versions
  <2>2. QED
    BY <1>2, <2>1 DEF C!JobFits
<1>6. /\ cjob' = [g \in Handlers |-> cjob'[g]]
      /\ \A g \in Handlers : cjob'[g] = IF g = h THEN next ELSE cjob[g]
  BY <1>3, CollabParts
<1>7. ASSUME NEW g \in Handlers PROVE C!JobFits(cjob[g])'
  BY <1>5, <1>6, CollabParts DEF C!JobFits
<1>8. /\ C!TypeOK' /\ note'.version = v1 /\ note'.by = h /\ note'.approval = note.approval
  <2>1. note = [version |-> note.version, by |-> note.by, approval |-> note.approval]
    BY CollabParts DEF C!TypeOK
  <2>2. note' = [version |-> v1, by |-> h, approval |-> note.approval]
    BY <1>3, <2>1
  <2>3. note.approval \in {"none", "pending", "approved", "rejected"} /\ v1 \in 0..MaxVersion
    BY <1>5, CollabParts DEF C!TypeOK, C!Versions
  <2>4. note' \in [version : 0..MaxVersion, by : Handlers \cup {C!Nobody}, approval : {"none", "pending", "approved", "rejected"}]
    BY <2>2, <2>3
  <2>5. C!TypeOK'
    BY <1>3, <2>4, CollabParts DEF C!TypeOK, C!Versions
  <2>6. QED
    BY <2>2, <2>5
<1>9. C!Covered(v1)' /\ \A v \in C!Versions : C!Covered(v) => C!Covered(v)'
  BY <1>3, <1>4, <1>5, <1>6 DEF C!Covered
<1>10. C!AllCovered'
  <2>1. SUFFICES ASSUME cfaults = 0
        PROVE /\ \A v \in C!Versions : v <= v1 => C!Covered(v)'
              /\ \A g \in Handlers : cjob'[g].at = "edit" => \A v \in 1..cjob'[g].base : C!Covered(v)'
    BY <1>3, <1>8 DEF C!AllCovered
  <2>2. ASSUME NEW v \in C!Versions, v <= v1 PROVE C!Covered(v)'
    <3>1. CASE v = v1
      BY <1>9, <3>1
    <3>2. CASE v # v1
      <4>1. cjob[h].at = "edit" /\ v1 = cjob[h].base + 1 /\ cjob[h].base \in Nat /\ v1 \in Nat /\ v \in Nat /\ 0 < v
        BY <1>4, <2>2, <3>2, CollabParts DEF C!JobFits, C!Versions
      <4>2. v \in 1..cjob[h].base
        BY <2>2, <3>2, <4>1
      <4>3. QED
        BY <1>9, <2>1, <4>1, <4>2, CollabParts DEF C!AllCovered
    <3>3. QED
      BY <3>1, <3>2
  <2>3. ASSUME NEW g \in Handlers, cjob'[g].at = "edit", NEW v \in 1..cjob'[g].base PROVE C!Covered(v)'
    <3>1. cjob'[g] = cjob[g]
      BY <1>5, <1>6, <2>3
    <3>2. v \in C!Versions
      BY <1>7, <2>3 DEF C!JobFits, C!Versions
    <3>3. QED
      BY <1>9, <2>1, <2>3, <3>1, <3>2, CollabParts DEF C!AllCovered
  <2>4. QED
    BY <2>2, <2>3
<1>11. ASSUME "edit" \notin ccrossed
       PROVE  /\ note.version < v1
              /\ \A g \in Handlers : g # h => cjob[g].at # "edit"
              /\ \A g \in Handlers : cjob[g].at = "revise" => cjob[g].version <= note.version
              /\ ~clost'
  <2>1. /\ \A g \in Handlers : cjob[g].at = "edit" => cjob[g].base = note.version
        /\ \A g \in Handlers : cjob[g].at = "edit" /\ cjob[h].at = "edit" => g = h
        /\ \A g \in Handlers : cjob[g].at = "revise" => cjob[g].version <= note.version
    BY <1>11, CollabParts DEF C!EditsAlone
  <2>2. \A g \in Handlers : cjob[g].at = "edit" => note.version > 0
    BY <2>1, CollabParts DEF C!JobFits, C!Versions
  <2>3. CASE cjob[h].at = "idle" /\ v1 = 1 /\ note.version = 0 /\ clost' = clost
    BY <1>11, <2>1, <2>2, <2>3, CollabParts DEF C!LostNeedsOverlap
  <2>4. CASE cjob[h].at = "edit" /\ v1 = cjob[h].next /\ clost' = (clost \/ note.version # cjob[h].base)
    <3>1. v1 = note.version + 1 /\ note.version \in Nat
      BY <2>1, <2>4, CollabParts DEF C!JobFits
    <3>2. ~clost'
      BY <1>11, <2>1, <2>4, CollabParts DEF C!LostNeedsOverlap
    <3>3. QED
      BY <2>1, <2>4, <3>1, <3>2
  <2>5. QED
    BY <1>4, <2>3, <2>4
<1>12. C!EditsAlone'
  <2>1. SUFFICES ASSUME "edit" \notin ccrossed PROVE C!EditsAlone'
    BY <1>3 DEF C!EditsAlone
  <2>2. \A g \in Handlers : cjob'[g].at # "edit"
    BY <1>5, <1>6, <1>11, <2>1
  <2>3. /\ \A v \in C!Versions : v > note.version => revisions[v] = C!Nobody
        /\ \A g \in Handlers : cjob[g].at = "revise" => revisions[cjob[g].version] = C!Nobody
        /\ \A g, k \in Handlers :
              cjob[g].at = "revise" /\ cjob[k].at = "revise" /\ cjob[g].version = cjob[k].version => g = k
    BY <2>1, CollabParts DEF C!EditsAlone
  <2>4. note.version \in Int /\ v1 \in Int /\ note.version < v1
    BY <1>5, <1>11, <2>1, CollabParts DEF C!Versions
  <2>5. ASSUME NEW g \in Handlers, cjob'[g].at = "revise"
        PROVE  /\ cjob'[g].version <= v1 /\ revisions[cjob'[g].version] = C!Nobody
               /\ cjob'[g].version = v1 => g = h
    <3>1. CASE g = h
      BY <1>5, <1>6, <2>3, <2>4, <3>1
    <3>2. CASE g # h
      <4>1. cjob'[g] = cjob[g] /\ cjob[g].version \in Int /\ cjob[g].version <= note.version
        BY <1>6, <1>11, <2>1, <2>5, <3>2, CollabParts DEF C!JobFits, C!Versions
      <4>2. QED
        BY <2>3, <2>4, <2>5, <4>1
    <3>3. QED
      BY <3>1, <3>2
  <2>6. ASSUME NEW g \in Handlers, NEW k \in Handlers,
               cjob'[g].at = "revise", cjob'[k].at = "revise", cjob'[g].version = cjob'[k].version
        PROVE  g = k
    <3>1. CASE g = h \/ k = h
      BY <1>5, <1>6, <2>5, <2>6, <3>1
    <3>2. CASE g # h /\ k # h
      BY <1>6, <2>3, <2>6, <3>2
    <3>3. QED
      BY <3>1, <3>2
  <2>7. \A v \in C!Versions : v > v1 => revisions[v] = C!Nobody
    BY <2>3, <2>4 DEF C!Versions
  <2>8. revisions[v1] = C!Nobody
    BY <1>5, <2>3, <2>4
  <2>9. QED
    BY <1>3, <1>8, <2>2, <2>5, <2>6, <2>7, <2>8 DEF C!EditsAlone
<1>13. C!LostNeedsOverlap'
  BY <1>3, <1>11, CollabParts DEF C!LostNeedsOverlap
<1>14. C!ApprovalStands'
  BY <1>3, CollabParts DEF C!ApprovalStands
<1>15. C!DecisionsAlone'
  BY <1>3, <1>5, <1>6, <1>8, CollabParts DEF C!DecisionsAlone
<1>16. QED
  BY <1>3, <1>6, <1>7, <1>8, <1>10, <1>12, <1>13, <1>14, <1>15, CollabParts, CollabWhole

LEMMA CollabRevise ==
  ASSUME C!CollabInv, NEW h \in Handlers, C!AddRevision(h)
  PROVE  C!CollabInv'
<1> USE CollabConstants
<1>1. PICK v1 : v1 = cjob[h].version
  OBVIOUS
<1>2. /\ cjob' = [cjob EXCEPT ![h] = C!Idle] /\ cjob[h].at = "revise"
      /\ revisions' = [revisions EXCEPT ![v1] = IF @ = C!Nobody THEN h ELSE @]
      /\ UNCHANGED <<note, task, cmember, clost, undone, ccrossed, cfaults>>
  BY <1>1 DEF C!AddRevision, C!Become
<1>3. v1 \in C!Versions /\ C!JobFits(C!Idle) /\ C!Idle.at = "idle"
  BY <1>1, <1>2, CollabParts DEF C!JobFits, C!Idle
<1>4. /\ cjob' = [g \in Handlers |-> cjob'[g]]
      /\ \A g \in Handlers : cjob'[g] = IF g = h THEN C!Idle ELSE cjob[g]
  BY <1>2, CollabParts
<1>5. ASSUME NEW g \in Handlers PROVE C!JobFits(cjob[g])'
  BY <1>3, <1>4, CollabParts DEF C!JobFits
<1>6. /\ \A v \in C!Versions : v # v1 => revisions'[v] = revisions[v]
      /\ revisions'[v1] = IF revisions[v1] = C!Nobody THEN h ELSE revisions[v1]
      /\ revisions' \in [C!Versions -> Handlers \cup {C!Nobody}]
  BY <1>2, <1>3, CollabParts DEF C!TypeOK
<1>7. C!TypeOK' /\ C!LostNeedsOverlap' /\ C!ApprovalStands'
  BY <1>2, <1>6, CollabParts DEF C!TypeOK, C!LostNeedsOverlap, C!ApprovalStands
<1>8. revisions'[v1] # C!Nobody
  BY <1>6 DEF C!Nobody
<1>9. ASSUME NEW v \in C!Versions, C!Covered(v) PROVE C!Covered(v)'
  <2>1. CASE v = v1
    BY <1>8, <2>1 DEF C!Covered
  <2>2. CASE v # v1
    BY <1>1, <1>4, <1>6, <1>9, <2>2 DEF C!Covered
  <2>3. QED
    BY <2>1, <2>2
<1>10. C!AllCovered'
  <2>1. SUFFICES ASSUME cfaults = 0
        PROVE /\ \A v \in C!Versions : v <= note.version => C!Covered(v)'
              /\ \A g \in Handlers : cjob'[g].at = "edit" => \A v \in 1..cjob'[g].base : C!Covered(v)'
    BY <1>2 DEF C!AllCovered
  <2>2. \A v \in C!Versions : v <= note.version => C!Covered(v)'
    BY <1>9, <2>1, CollabParts DEF C!AllCovered
  <2>3. ASSUME NEW g \in Handlers, cjob'[g].at = "edit", NEW v \in 1..cjob'[g].base PROVE C!Covered(v)'
    <3>1. cjob'[g] = cjob[g]
      BY <1>3, <1>4, <2>3
    <3>2. v \in C!Versions
      BY <1>5, <2>3 DEF C!JobFits, C!Versions
    <3>3. QED
      BY <1>9, <2>1, <2>3, <3>1, <3>2, CollabParts DEF C!AllCovered
  <2>4. QED
    BY <2>2, <2>3
<1>11. C!EditsAlone'
  <2>1. SUFFICES ASSUME "edit" \notin ccrossed PROVE C!EditsAlone'
    BY <1>2 DEF C!EditsAlone
  <2>2. /\ v1 <= note.version /\ revisions[v1] = C!Nobody /\ (v1 = note.version => note.by = h)
        /\ \A g \in Handlers : cjob[g].at = "revise" /\ cjob[g].version = v1 => g = h
    BY <1>1, <1>2, <2>1, CollabParts DEF C!EditsAlone
  <2>3. \A g \in Handlers : cjob'[g].at \in {"edit", "revise"} => g # h /\ cjob'[g] = cjob[g]
    BY <1>3, <1>4
  <2>4. \A g \in Handlers : cjob'[g].at = "revise" =>
           cjob'[g].version # v1 /\ cjob'[g].version \in C!Versions
    BY <1>5, <2>2, <2>3 DEF C!JobFits
  <2>5. note'.version \in C!Versions => revisions'[note'.version] \in {C!Nobody, note'.by}
    BY <1>2, <1>6, <2>1, <2>2, CollabParts DEF C!EditsAlone
  <2>6. \A v \in C!Versions : v > note'.version => revisions'[v] = C!Nobody
    <3>1. \A v \in C!Versions : v > note.version => v # v1
      BY <1>3, <2>2, CollabParts DEF C!Versions
    <3>2. QED
      BY <1>2, <1>6, <2>1, <3>1, CollabParts DEF C!EditsAlone
  <2>7. \A g \in Handlers : cjob'[g].at = "revise" =>
              /\ cjob'[g].version <= note'.version /\ revisions'[cjob'[g].version] = C!Nobody
              /\ cjob'[g].version = note'.version => note'.by = g
    BY <1>2, <1>6, <2>1, <2>3, <2>4, CollabParts DEF C!EditsAlone
  <2>8. /\ \A g \in Handlers : cjob'[g].at = "edit" => cjob'[g].base = note'.version
        /\ \A g, k \in Handlers : cjob'[g].at = "edit" /\ cjob'[k].at = "edit" => g = k
        /\ \A g, k \in Handlers :
              cjob'[g].at = "revise" /\ cjob'[k].at = "revise" /\ cjob'[g].version = cjob'[k].version => g = k
    BY <1>2, <2>1, <2>3, CollabParts DEF C!EditsAlone
  <2>9. QED
    BY <2>5, <2>6, <2>7, <2>8 DEF C!EditsAlone
<1>12. C!DecisionsAlone'
  BY <1>2, <1>3, <1>4, CollabParts DEF C!DecisionsAlone
<1>13. QED
  BY <1>2, <1>4, <1>5, <1>7, <1>10, <1>11, <1>12, CollabParts, CollabWhole

\* A handler stops: a fault is on record.
LEMMA CollabAbandon ==
  ASSUME C!CollabInv, NEW h \in Handlers, C!Abandon(h)
  PROVE  C!CollabInv'
<1>1. /\ cjob' = [cjob EXCEPT ![h] = C!Idle] /\ cfaults' = cfaults + 1
      /\ UNCHANGED <<note, revisions, task, cmember, clost, undone, ccrossed>>
  BY DEF C!Abandon, C!Become
<1>2. C!JobFits(C!Idle) /\ C!Idle.at = "idle" /\ cfaults' \in Nat /\ cfaults' # 0
  BY <1>1, CollabParts DEF C!JobFits, C!Idle
<1>3. /\ cjob' = [g \in Handlers |-> cjob'[g]]
      /\ \A g \in Handlers : cjob'[g] = IF g = h THEN C!Idle ELSE cjob[g]
  BY <1>1, CollabParts
<1>4. ASSUME NEW g \in Handlers PROVE C!JobFits(cjob[g])'
  BY <1>2, <1>3, CollabParts DEF C!JobFits
<1>5. C!TypeOK' /\ C!LostNeedsOverlap' /\ C!ApprovalStands' /\ C!AllCovered'
  BY <1>1, <1>2, CollabParts DEF C!TypeOK, C!LostNeedsOverlap, C!ApprovalStands, C!AllCovered
<1>6. \A g \in Handlers : cjob'[g].at # "idle" => cjob'[g] = cjob[g]
  BY <1>2, <1>3
<1>7. C!EditsAlone'
  BY <1>1, <1>6, CollabParts DEF C!EditsAlone
<1>8. C!DecisionsAlone'
  BY <1>1, <1>6, CollabParts DEF C!DecisionsAlone
<1>9. QED
  BY <1>2, <1>3, <1>4, <1>5, <1>7, <1>8, CollabWhole

LEMMA CollabStep ==
  ASSUME C!CollabInv, [C!Next]_CVars
  PROVE  C!CollabInv'
<1>1. CASE UNCHANGED CVars \/ C!LeaveConversation
  <2>1. UNCHANGED <<note, revisions, task, cjob, clost, undone, ccrossed, cfaults>>
    BY <1>1 DEF CVars, C!LeaveConversation
  <2>2. C!TypeOK' /\ C!LostNeedsOverlap' /\ C!ApprovalStands'
    BY <2>1, CollabParts DEF C!TypeOK, C!LostNeedsOverlap, C!ApprovalStands
  <2>3. \A h \in Handlers : C!JobFits(cjob[h])'
    BY <2>1, CollabParts DEF C!JobFits
  <2>4. C!AllCovered'
    BY <2>1, CollabParts DEF C!AllCovered, C!Covered
  <2>5. C!EditsAlone' /\ C!DecisionsAlone'
    BY <2>1, CollabParts DEF C!EditsAlone, C!DecisionsAlone
  <2>6. QED
    BY <2>1, <2>2, <2>3, <2>4, <2>5, CollabParts, CollabWhole
<1>2. QED
  BY <1>1, CollabUpdate, CollabWrite, CollabRevise, CollabApproval, CollabTask, CollabAbandon DEF C!Next

-----------------------------------------------------------------------------
(* Polls.                                                                  *)

\* Polls has its own copy of FiniteSets.
LEMMA PollsCardinality == ASSUME NEW X PROVE P!Cardinality(X) = Cardinality(X)
  BY DEF P!Cardinality, Cardinality, P!IsFiniteSet, IsFiniteSet

\* No option has more votes than there are voters, whoever voted for what.
LEMMA TallyAtMostVoters ==
  ASSUME NEW rows \in SUBSET (Users \X Options), NEW i \in Options
  PROVE  Cardinality({r \in rows : r[2] = i}) <= Cardinality({r[1] : r \in rows})
<1> DEFINE ours == {r \in rows : r[2] = i}
           all == {r[1] : r \in rows}
           f == [r \in ours |-> r[1]]
<1>1. all \in SUBSET Users
  OBVIOUS
<1>2. IsFiniteSet(all)
  BY <1>1, PollConstants, FS_Subset
<1>3. \A r \in ours : r = <<r[1], i>> /\ r[1] \in all
  OBVIOUS
<1> HIDE DEF ours, all
<1>4. f \in [ours -> all] /\ \A a, b \in ours : f[a] = f[b] => a = b
  BY <1>3
<1>5. f \in Injection(ours, all)
  BY <1>4 DEF Injection, IsInjective
<1>6. QED
  BY <1>2, <1>5, FS_Injection DEF ours, all

\* Where nobody has two options, the votes are as many as the voters.
LEMMA RowsAsManyAsVoters ==
  ASSUME NEW rows \in SUBSET (Users \X Options),
         \A a, b \in rows : a[1] = b[1] => a[2] = b[2]
  PROVE  Cardinality({r[1] : r \in rows}) = Cardinality(rows)
<1> DEFINE all == {r[1] : r \in rows}
           f == [r \in rows |-> r[1]]
<1>1. IsFiniteSet(rows)
  BY PollConstants, FS_Product, FS_Subset
<1>2. \A r \in rows : r = <<r[1], r[2]>> /\ r[1] \in all
  OBVIOUS
<1>3. \A u \in all : \E r \in rows : u = r[1]
  OBVIOUS
<1> HIDE DEF all
<1>4. f \in [rows -> all] /\ \A a, b \in rows : f[a] = f[b] => a = b
  BY <1>2
<1>5. \A u \in all : \E r \in rows : f[r] = u
  BY <1>3
<1>6. f \in Injection(rows, all) /\ f \in Surjection(rows, all)
  BY <1>4, <1>5 DEF Injection, IsInjective, Surjection
<1>7. f \in Bijection(rows, all)
  BY <1>6 DEF Bijection
<1>8. ExistsBijection(rows, all)
  BY <1>7 DEF ExistsBijection
<1>9. QED
  BY <1>1, <1>8, FS_Bijection DEF all

\* A set with at most one element.
LEMMA AtMostOne ==
  ASSUME NEW X \in SUBSET Options, Cardinality(X) <= 1
  PROVE  \A i, j \in X : i = j
<1>1. IsFiniteSet(X) /\ Cardinality(X) \in Nat
  BY PollConstants, FS_Subset, FS_CardinalityType
<1>2. CASE Cardinality(X) = 0
  BY <1>1, <1>2, FS_EmptySet
<1>3. CASE Cardinality(X) = 1
  BY <1>1, <1>3, FS_Singleton
<1>4. QED
  BY <1>1, <1>2, <1>3

\* The parts of the invariant.
LEMMA PollsParts ==
  ASSUME P!PollsInv
  PROVE  /\ P!TypeOK /\ P!ClosedIsFinal
         /\ ~Multi => \A u \in Users \ doubled : Cardinality(votes[u]) <= 1
         /\ pjob = [h \in Handlers |-> pjob[h]] /\ \A h \in Handlers : P!JobFits(pjob[h])
         /\ P!VotesAlone
         /\ P!IsClosed => \A h \in Handlers : pjob[h] # P!Idle => pjob[h].u \in plate
  BY PollsCardinality DEF P!PollsInv, P!PollsSound, P!OneChoice

\* What the results show follows from the rest.
LEMMA PollsWhole ==
  ASSUME P!TypeOK', P!ClosedIsFinal',
         ~Multi => \A u \in Users \ doubled' : Cardinality(votes'[u]) <= 1,
         (pjob = [h \in Handlers |-> pjob[h]])', \A h \in Handlers : P!JobFits(pjob[h])',
         P!VotesAlone',
         (P!IsClosed => \A h \in Handlers : pjob[h] # P!Idle => pjob[h].u \in plate)'
  PROVE  P!PollsInv'
<1>1. votes' \in [Users -> SUBSET Options]
  BY DEF P!TypeOK
<1>2. PICK rows : rows = {r \in Users \X Options : r[2] \in votes'[r[1]]}
  OBVIOUS
<1>3. P!Rows' = rows /\ rows \in SUBSET (Users \X Options)
  BY <1>2 DEF P!Rows
<1>4. P!Results'.total = Cardinality({r[1] : r \in rows})
  BY <1>3, PollsCardinality DEF P!Results, P!TotalVoters
<1>5. ASSUME NEW i \in Options PROVE P!Results'.tallies[i] <= P!Results'.total
  <2>1. P!Results'.tallies[i] = Cardinality({r \in rows : r[2] = i})
    BY <1>3, PollsCardinality DEF P!Results, P!Tally
  <2>2. QED
    BY <1>3, <1>4, <2>1, TallyAtMostVoters
<1>6. ASSUME ~Multi, doubled' = {} PROVE P!Results'.total = Cardinality(P!Rows')
  <2>1. ASSUME NEW a \in rows, NEW b \in rows, a[1] = b[1] PROVE a[2] = b[2]
    <3>1. a[1] \in Users /\ a[2] \in votes'[a[1]] /\ b[2] \in votes'[a[1]]
      BY <1>2, <2>1
    <3>2. votes'[a[1]] \in SUBSET Options /\ Cardinality(votes'[a[1]]) <= 1
      BY <1>1, <1>6, <3>1
    <3>3. QED
      BY <3>1, <3>2, AtMostOne
  <2>2. QED
    BY <1>3, <1>4, <2>1, RowsAsManyAsVoters
<1>7. P!OneChoice'
  BY <1>5, <1>6, PollsCardinality DEF P!OneChoice
<1>8. QED
  BY <1>7 DEF P!PollsInv, P!PollsSound

LEMMA PollsInit == P!Init => P!PollsInv
<1> SUFFICES ASSUME P!Init PROVE P!PollsInv
  OBVIOUS
<1>1. P!TypeOK
  BY DEF P!Init, P!TypeOK
<1>2. P!ClosedIsFinal
  BY DEF P!Init, P!ClosedIsFinal, P!IsClosed
<1>3. P!VotesAlone /\ (pjob = [h \in Handlers |-> pjob[h]]) /\ \A h \in Handlers : P!JobFits(pjob[h])
  BY DEF P!Init, P!VotesAlone, P!Idle, P!JobFits
<1>4. P!IsClosed => \A h \in Handlers : pjob[h] # P!Idle => pjob[h].u \in plate
  BY DEF P!Init, P!IsClosed
<1>5. P!Rows = {}
  BY DEF P!Init, P!Rows
<1>6. \A u \in Users : Cardinality(votes[u]) <= 1
  BY FS_EmptySet DEF P!Init
<1>7. P!Results.total = Cardinality({r[1] : r \in {}}) /\ \A i \in Options : P!Results.tallies[i] = Cardinality({r \in {} : r[2] = i})
  BY <1>5, PollsCardinality DEF P!Results, P!Tally, P!TotalVoters
<1>8. {r[1] : r \in {}} = {} /\ \A i \in Options : {r \in {} : r[2] = i} = {}
  OBVIOUS
<1>9. P!Results.total = 0 /\ \A i \in Options : P!Results.tallies[i] = 0
  BY <1>7, <1>8, FS_EmptySet
<1>10. P!OneChoice
  BY <1>5, <1>6, <1>9, PollsCardinality, FS_EmptySet DEF P!OneChoice
<1>11. QED
  BY <1>1, <1>2, <1>3, <1>4, <1>10 DEF P!PollsInv, P!PollsSound

\* The poll is opened or closed: votes and handlers stay.
LEMMA PollsOpen ==
  ASSUME P!PollsInv, UNCHANGED <<votes, pjob, doubled>>, poll' \in {"none", "open", "closed"},
         \/ P!IsClosed' = P!IsClosed /\ UNCHANGED <<plate, final>>
         \/ plate' = P!InFlight /\ final' = votes
  PROVE  P!PollsInv'
<1>1. P!TypeOK' /\ P!VotesAlone' /\ \A h \in Handlers : P!JobFits(pjob[h])'
  BY PollsParts DEF P!TypeOK, P!VotesAlone, P!JobFits, P!Idle
<1>2. P!ClosedIsFinal' /\ (P!IsClosed => \A h \in Handlers : pjob[h] # P!Idle => pjob[h].u \in plate)'
  <2>1. CASE P!IsClosed' = P!IsClosed /\ UNCHANGED <<plate, final>>
    BY <2>1, PollsParts DEF P!ClosedIsFinal, P!Idle
  <2>2. CASE plate' = P!InFlight /\ final' = votes
    <3>1. \A h \in Handlers : pjob[h] # P!Idle => pjob[h].u \in P!InFlight
      BY PollsParts DEF P!InFlight, P!Voting, P!JobFits
    <3>2. QED
      BY <2>2, <3>1 DEF P!ClosedIsFinal, P!Idle
  <2>3. QED
    BY <2>1, <2>2
<1>3. QED
  BY <1>1, <1>2, PollsParts, PollsWhole

(* Vote: a checked vote begins.                                            *)
LEMMA PollsVote ==
  ASSUME P!PollsInv, NEW h \in Handlers, NEW u \in Users, NEW picks \in SUBSET Options, P!Vote(h, u, picks)
  PROVE  P!PollsInv'
<1>1. PICK next : next = [at |-> "delete", u |-> u, picks |-> picks]
  OBVIOUS
<1>2. /\ pjob' = [pjob EXCEPT ![h] = next] /\ pjob[h] = P!Idle
      /\ ~P!IsClosed /\ P!ValidateVote(picks)
      /\ doubled' = IF P!Voting(u) THEN doubled \cup {u} ELSE doubled
      /\ UNCHANGED <<poll, past, votes, plate, final>>
  BY <1>1 DEF P!Vote, P!Become
<1>3. next.at = "delete" /\ next.u = u /\ next.picks = picks /\ next # P!Idle /\ P!JobFits(next)
  <2>1. next.at = "delete" /\ next.u = u /\ next.picks = picks
    BY <1>1
  <2>2. ~Multi => P!Cardinality(picks) = 1
    BY <1>2 DEF P!ValidateVote
  <2>3. next # P!Idle
    BY <2>1 DEF P!Idle
  <2>4. QED
    BY <2>1, <2>2, <2>3 DEF P!JobFits
<1>4. /\ pjob' = [g \in Handlers |-> pjob'[g]]
      /\ \A g \in Handlers : pjob'[g] = IF g = h THEN next ELSE pjob[g]
  BY <1>2, PollsParts
<1>5. ASSUME NEW g \in Handlers PROVE P!JobFits(pjob[g])'
  BY <1>3, <1>4, PollsParts DEF P!JobFits, P!Idle
<1>6. P!TypeOK' /\ P!ClosedIsFinal' /\ ~P!IsClosed'
  BY <1>2, PollsParts DEF P!TypeOK, P!ClosedIsFinal, P!IsClosed
<1>7. doubled \subseteq doubled'
  BY <1>2
<1>8. P!VotesAlone'
  <2>1. \A g \in Handlers : pjob[g] # P!Idle /\ pjob[g].u = u => u \in doubled'
    BY <1>2 DEF P!Voting
  <2>2. ASSUME NEW g \in Handlers, NEW k \in Handlers,
               pjob'[g] # P!Idle, pjob'[k] # P!Idle, pjob'[g].u = pjob'[k].u
        PROVE  g = k \/ pjob'[g].u \in doubled'
    <3>1. CASE g = h \/ k = h
      BY <1>3, <1>4, <2>1, <2>2, <3>1
    <3>2. CASE g # h /\ k # h
      BY <1>4, <1>7, <2>2, <3>2, PollsParts DEF P!VotesAlone
    <3>3. QED
      BY <3>1, <3>2
  <2>3. ASSUME NEW g \in Handlers, pjob'[g].at = "insert"
        PROVE  pjob'[g].old = votes'[pjob'[g].u] \/ pjob'[g].u \in doubled'
    BY <1>2, <1>3, <1>4, <1>7, <2>3, PollsParts DEF P!VotesAlone
  <2>4. QED
    BY <2>2, <2>3 DEF P!VotesAlone, P!Idle
<1>9. QED
  BY <1>2, <1>4, <1>5, <1>6, <1>7, <1>8, PollsParts, PollsWhole

(* DeleteVotes: the rows to replace are read.                              *)
LEMMA PollsDelete ==
  ASSUME P!PollsInv, NEW h \in Handlers, P!DeleteVotes(h)
  PROVE  P!PollsInv'
<1>1. PICK next : next = [at |-> "insert", u |-> pjob[h].u, picks |-> pjob[h].picks, old |-> votes[pjob[h].u]]
  OBVIOUS
<1>2. /\ pjob' = [pjob EXCEPT ![h] = next] /\ pjob[h].at = "delete"
      /\ UNCHANGED <<poll, past, votes, doubled, plate, final>>
  BY <1>1 DEF P!DeleteVotes, P!Become, P!Removed
<1>3. pjob[h] # P!Idle
  BY <1>2 DEF P!Idle
<1>4. /\ next.at = "insert" /\ next.u = pjob[h].u /\ next.picks = pjob[h].picks
      /\ next.old = votes[next.u] /\ next # P!Idle
  BY <1>1 DEF P!Idle
<1>5. P!JobFits(next)
  BY <1>3, <1>4, PollsParts DEF P!JobFits
<1>6. /\ pjob' = [g \in Handlers |-> pjob'[g]]
      /\ \A g \in Handlers : pjob'[g] = IF g = h THEN next ELSE pjob[g]
  BY <1>2, PollsParts
<1>7. ASSUME NEW g \in Handlers PROVE P!JobFits(pjob[g])'
  BY <1>5, <1>6, PollsParts DEF P!JobFits, P!Idle
<1>8. P!TypeOK' /\ P!ClosedIsFinal' /\ P!IsClosed' = P!IsClosed
  BY <1>2, PollsParts DEF P!TypeOK, P!ClosedIsFinal, P!IsClosed
<1>9. \A g \in Handlers : (pjob'[g] # P!Idle => pjob[g] # P!Idle /\ pjob'[g].u = pjob[g].u)
  BY <1>3, <1>4, <1>6
<1>10. P!VotesAlone'
  <2>1. \A g \in Handlers : pjob'[g].at = "insert" => pjob'[g].old = votes[pjob'[g].u] \/ pjob'[g].u \in doubled
    BY <1>4, <1>6, PollsParts DEF P!VotesAlone
  <2>2. \A g, k \in Handlers :
          pjob'[g] # P!Idle /\ pjob'[k] # P!Idle /\ pjob'[g].u = pjob'[k].u => g = k \/ pjob'[g].u \in doubled
    BY <1>9, PollsParts DEF P!VotesAlone
  <2>3. QED
    BY <1>2, <2>1, <2>2 DEF P!VotesAlone, P!Idle
<1>11. (P!IsClosed => \A g \in Handlers : pjob[g] # P!Idle => pjob[g].u \in plate)'
  BY <1>2, <1>8, <1>9, PollsParts DEF P!Idle
<1>12. QED
  BY <1>2, <1>6, <1>7, <1>8, <1>10, <1>11, PollsParts, PollsWhole

(* ReplaceVotes commits, or the handler stops: it is idle, and at most the *)
(* rows of its voter changed.                                              *)
LEMMA PollsEnd ==
  ASSUME P!PollsInv, NEW h \in Handlers, P!ReplaceVotes(h) \/ P!Abandon(h)
  PROVE  P!PollsInv'
<1>1. /\ pjob' = [pjob EXCEPT ![h] = P!Idle] /\ UNCHANGED <<poll, past, doubled, plate, final>>
      /\ pjob[h] # P!Idle
  BY DEF P!ReplaceVotes, P!Abandon, P!Become, P!Idle
<1>2. PICK u : u = pjob[h].u /\ u \in Users
  BY <1>1, PollsParts DEF P!JobFits
<1>3. /\ pjob' = [g \in Handlers |-> pjob'[g]]
      /\ \A g \in Handlers : pjob'[g] = IF g = h THEN P!Idle ELSE pjob[g]
  BY <1>1, PollsParts
<1>4. ASSUME NEW g \in Handlers PROVE P!JobFits(pjob[g])'
  BY <1>3, PollsParts DEF P!JobFits, P!Idle
<1>5. /\ votes \in [Users -> SUBSET Options]
      /\ votes' \in [Users -> SUBSET Options] /\ \A w \in Users : w # u => votes'[w] = votes[w]
      /\ \/ votes'[u] = votes[u]
         \/ /\ pjob[h].at = "insert"
            /\ votes'[u] = (votes[u] \ pjob[h].old) \cup pjob[h].picks
  <2>1. votes \in [Users -> SUBSET Options]
    BY PollsParts DEF P!TypeOK
  <2>2. CASE P!Abandon(h)
    BY <2>1, <2>2 DEF P!Abandon
  <2>3. CASE P!ReplaceVotes(h)
    <3>1. PICK rows : rows = (votes[u] \ pjob[h].old) \cup pjob[h].picks
      OBVIOUS
    <3>2. rows \in SUBSET Options
      BY <1>1, <1>2, <2>1, <3>1, PollsParts DEF P!JobFits
    <3>3. pjob[h].at = "insert" /\ (votes' = [votes EXCEPT ![u] = rows] \/ votes' = [votes EXCEPT ![u] = votes[u]])
      BY <1>2, <2>3, <3>1 DEF P!ReplaceVotes
    <3>4. CASE votes' = [votes EXCEPT ![u] = votes[u]]
      BY <1>2, <2>1, <3>4
    <3>5. CASE votes' = [votes EXCEPT ![u] = rows]
      BY <1>2, <2>1, <3>1, <3>2, <3>3, <3>5
    <3>6. QED
      BY <3>3, <3>4, <3>5
  <2>4. QED
    BY <2>2, <2>3
<1>6. P!TypeOK' /\ P!IsClosed' = P!IsClosed
  BY <1>1, <1>5, PollsParts DEF P!TypeOK, P!IsClosed
<1>7. P!ClosedIsFinal' /\ (P!IsClosed => \A g \in Handlers : pjob[g] # P!Idle => pjob[g].u \in plate)'
  <2>1. P!IsClosed => u \in plate
    BY <1>1, <1>2, PollsParts
  <2>2. P!ClosedIsFinal'
    BY <1>1, <1>5, <1>6, <2>1, PollsParts DEF P!ClosedIsFinal
  <2>3. QED
    BY <1>1, <1>3, <1>6, <2>2, PollsParts DEF P!Idle
<1>8. ASSUME NEW g \in Handlers, pjob'[g] # P!Idle
      PROVE  g # h /\ pjob'[g] = pjob[g] /\ (pjob[g].u = u => u \in doubled)
  BY <1>1, <1>2, <1>3, <1>8, PollsParts DEF P!VotesAlone
<1>9. P!VotesAlone'
  <2>1. ASSUME NEW g \in Handlers, pjob'[g].at = "insert"
        PROVE  pjob'[g].old = votes'[pjob'[g].u] \/ pjob'[g].u \in doubled
    <3>1. pjob'[g] # P!Idle
      BY <2>1 DEF P!Idle
    <3>2. pjob[g] # P!Idle /\ pjob[g].u \in Users
      BY <1>8, <3>1, PollsParts DEF P!JobFits
    <3>3. CASE pjob[g].u = u
      BY <1>8, <3>1, <3>3
    <3>4. CASE pjob[g].u # u
      BY <1>5, <1>8, <2>1, <3>1, <3>2, <3>4, PollsParts DEF P!VotesAlone
    <3>5. QED
      BY <3>3, <3>4
  <2>2. \A g, k \in Handlers :
          pjob'[g] # P!Idle /\ pjob'[k] # P!Idle /\ pjob'[g].u = pjob'[k].u => g = k \/ pjob'[g].u \in doubled
    BY <1>8, PollsParts DEF P!VotesAlone
  <2>3. QED
    BY <1>1, <2>1, <2>2 DEF P!VotesAlone, P!Idle
<1>10. ASSUME ~Multi, NEW w \in Users \ doubled PROVE Cardinality(votes'[w]) <= 1
  <2>1. CASE votes'[w] = votes[w]
    BY <1>10, <2>1, PollsParts
  <2>2. CASE votes'[w] # votes[w]
    <3>1. w = u /\ pjob[h].at = "insert" /\ votes'[u] = (votes[u] \ pjob[h].old) \cup pjob[h].picks
      BY <1>5, <1>10, <2>2
    <3>2. pjob[h].old = votes[u]
      BY <1>2, <1>10, <3>1, PollsParts DEF P!VotesAlone
    <3>3. votes'[u] = pjob[h].picks
      BY <3>1, <3>2
    <3>4. Cardinality(pjob[h].picks) = 1
      BY <1>1, <1>10, PollsParts, PollsCardinality DEF P!JobFits
    <3>5. votes'[w] = pjob[h].picks
      BY <3>1, <3>3
    <3>6. Cardinality(votes'[w]) = 1
      BY <3>4, <3>5
    <3>7. QED
      BY <3>6
  <2>3. QED
    BY <2>1, <2>2
<1>11. QED
  BY <1>1, <1>3, <1>4, <1>6, <1>7, <1>9, <1>10, PollsWhole

LEMMA PollsStep ==
  ASSUME P!PollsInv, [P!Next]_PVars
  PROVE  P!PollsInv'
<1>1. CASE UNCHANGED PVars
  <2>1. P!IsClosed' = P!IsClosed /\ poll' \in {"none", "open", "closed"}
    BY <1>1, PollsParts DEF PVars, P!IsClosed, P!TypeOK
  <2>2. QED
    BY <1>1, <2>1, PollsOpen DEF PVars
<1>2. CASE P!Create \/ P!Close \/ P!DeadlinePasses
  <2>1. UNCHANGED <<votes, pjob, doubled>> /\ poll' \in {"none", "open", "closed"}
    BY <1>2, PollsParts DEF P!Create, P!Close, P!DeadlinePasses, P!TypeOK
  <2>2. \/ P!IsClosed' = P!IsClosed /\ UNCHANGED <<plate, final>>
        \/ plate' = P!InFlight /\ final' = votes
    <3>1. CASE P!Create
      BY <3>1 DEF P!Create, P!IsClosed
    <3>2. CASE P!Close
      BY <3>2 DEF P!Close, P!IsClosed
    <3>3. CASE P!DeadlinePasses
      BY <3>3 DEF P!DeadlinePasses, P!IsClosed
    <3>4. QED
      BY <1>2, <3>1, <3>2, <3>3
  <2>3. QED
    BY <2>1, <2>2, PollsOpen
<1>3. QED
  BY <1>1, <1>2, PollsVote, PollsDelete, PollsEnd DEF P!Next

-----------------------------------------------------------------------------
(* Whiteboards.                                                            *)

\* The highest seq of a set of operations.
LEMMA HighestSeq ==
  ASSUME NEW ops \in SUBSET D!Op
  PROVE  /\ D!MaxSeqOf(ops) \in 0..MaxSeq
         /\ \A o \in ops : o.seq <= D!MaxSeqOf(ops)
<1>1. CASE ops = {}
  BY <1>1, BoardConstants DEF D!MaxSeqOf
<1>2. CASE ops # {}
  <2>1. PICK seqs : seqs = D!SeqOf(ops)
    OBVIOUS
  <2>2. seqs \in SUBSET (0..MaxSeq) /\ seqs # {} /\ \A o \in ops : o.seq \in seqs
    BY <1>2, <2>1, BoardConstants DEF D!SeqOf, D!Op
  <2>3. \E x \in seqs : \A y \in seqs : x >= y
    BY <2>2, GreatestNat, BoardConstants
  <2>4. D!Max(seqs) \in seqs /\ \A y \in seqs : D!Max(seqs) >= y
    BY <2>3 DEF D!Max
  <2>5. D!MaxSeqOf(ops) = D!Max(seqs)
    BY <1>2, <2>1 DEF D!MaxSeqOf
  <2>6. QED
    BY <2>2, <2>4, <2>5
<1>3. QED
  BY <1>1, <1>2

\* A page is of the log, above the cursor, and passes over nothing but
\* operations of the seq it ends at.
LEMMA PageFacts ==
  ASSUME board \subseteq D!Op, NEW since \in 0..MaxSeq, NEW page \in D!Listed(since)
  PROVE  /\ page \subseteq board
         /\ \A o \in page : \A q \in board \ page : q.seq > since => o.seq <= q.seq
         /\ D!NewCursor(since, page) \in 0..MaxSeq
         /\ \/ D!NewCursor(since, page) = since
            \/ \E o \in page : o.seq = D!NewCursor(since, page)
<1>1. PICK above : above = {o \in board : o.seq > since}
  OBVIOUS
<1>2. page \subseteq above /\ \A o \in page : \A q \in above \ page : o.seq <= q.seq
  BY <1>1 DEF D!Listed, D!kSubset
<1>3. page \subseteq board /\ \A o \in page : \A q \in board \ page : q.seq > since => o.seq <= q.seq
  BY <1>1, <1>2
<1>4. CASE page = {}
  BY <1>3, <1>4 DEF D!NewCursor
<1>5. CASE page # {}
  <2>1. PICK seqs : seqs = D!SeqOf(page) \cup {since}
    OBVIOUS
  <2>2. seqs \in SUBSET (0..MaxSeq) /\ seqs # {}
    BY <1>3, <2>1, BoardConstants DEF D!SeqOf, D!Op
  <2>3. \E x \in seqs : \A y \in seqs : x >= y
    BY <2>2, GreatestNat, BoardConstants
  <2>4. D!Max(seqs) \in seqs
    BY <2>3 DEF D!Max
  <2>5. D!NewCursor(since, page) = D!Max(seqs)
    BY <1>5, <2>1 DEF D!NewCursor
  <2>6. D!Max(seqs) = since \/ \E o \in page : o.seq = D!Max(seqs)
    BY <2>1, <2>4 DEF D!SeqOf
  <2>7. QED
    BY <1>3, <2>2, <2>4, <2>5, <2>6
<1>6. QED
  BY <1>4, <1>5

\* The parts of the invariant.
LEMMA BoardParts ==
  ASSUME D!WhiteboardInv
  PROVE  /\ D!TypeOK /\ board \subseteq D!Op /\ sending \subseteq D!Op /\ dlost \subseteq D!Op
         /\ cursor \in [Clients -> 0..MaxSeq] /\ known \in [Clients -> SUBSET D!Op]
         /\ D!NothingInvented /\ D!MissedCameLate
         /\ reply = [c \in Clients |-> reply[c]]
         /\ \A c \in Clients : D!Reached(cursor[c]) /\ D!ReplyFits(c)
  BY DEF D!WhiteboardInv, D!WhiteboardSound, D!TypeOK

LEMMA BoardWhole ==
  ASSUME D!TypeOK', dlost' \subseteq D!Op, known' \in [Clients -> SUBSET D!Op],
         D!NothingInvented', D!MissedCameLate',
         (reply = [c \in Clients |-> reply[c]])',
         \A c \in Clients : D!Reached(cursor[c])', \A c \in Clients : D!ReplyFits(c)'
  PROVE  D!WhiteboardInv'
<1>1. D!WhiteboardSound'
  BY DEF D!WhiteboardSound
<1>2. (known \in [Clients -> SUBSET D!Op])' /\ (dlost \subseteq D!Op)'
  BY DEF D!Op
<1>3. QED
  BY <1>1, <1>2 DEF D!WhiteboardInv

LEMMA BoardInit == D!Init => D!WhiteboardInv
<1> SUFFICES ASSUME D!Init PROVE D!WhiteboardInv
  OBVIOUS
<1>1. D!TypeOK /\ dlost \subseteq D!Op /\ known \in [Clients -> SUBSET D!Op]
  BY BoardConstants DEF D!Init, D!TypeOK
<1>2. D!NothingInvented /\ D!MissedCameLate
  BY DEF D!Init, D!NothingInvented, D!MissedCameLate
<1>3. \A c \in Clients : D!Reached(cursor[c]) /\ D!ReplyFits(c)
  BY DEF D!Init, D!Reached, D!ReplyFits
<1>4. reply = [c \in Clients |-> reply[c]]
  BY DEF D!Init
<1>5. QED
  BY <1>1, <1>2, <1>3, <1>4 DEF D!WhiteboardInv, D!WhiteboardSound

(* Draw: the operation is new to its author, so it is nowhere.             *)
LEMMA BoardDraw ==
  ASSUME D!WhiteboardInv, NEW c \in Clients, D!Draw(c)
  PROVE  D!WhiteboardInv'
<1>1. PICK op : op = [author |-> c, seq |-> D!MaxSeqOf(known[c]) + 1]
  OBVIOUS
<1>2. /\ op.seq <= MaxSeq /\ known' = [known EXCEPT ![c] = known[c] \cup {op}]
      /\ sending' = sending \cup {op}
      /\ UNCHANGED <<board, cursor, reply, dlate, cut, dlost>>
  BY <1>1 DEF D!Draw
<1>3. known[c] \in SUBSET D!Op
  BY BoardParts
<1>4. op \in D!Op /\ op.author = c /\ op \notin known[c]
  <2>1. op.author = c /\ op.seq = D!MaxSeqOf(known[c]) + 1
    BY <1>1
  <2>2. D!MaxSeqOf(known[c]) \in 0..MaxSeq /\ \A o \in known[c] : o.seq <= D!MaxSeqOf(known[c])
    BY <1>3, HighestSeq
  <2>3. op.seq \in 1..MaxSeq
    BY <1>2, <2>1, <2>2, BoardConstants
  <2>4. op \in D!Op
    BY <1>1, <2>1, <2>3 DEF D!Op
  <2>5. op \notin known[c]
    BY <2>1, <2>2
  <2>6. QED
    BY <2>1, <2>4, <2>5
<1>5. /\ known' \in [Clients -> SUBSET D!Op]
      /\ \A x \in Clients : known[x] \subseteq known'[x]
      /\ op \in known'[c]
  BY <1>2, <1>3, <1>4, BoardParts
<1>6. D!TypeOK'
  BY <1>2, <1>4, BoardParts DEF D!TypeOK, D!Op
<1>7. op \notin board /\ op \notin sending /\ op \notin dlost
  BY <1>4, BoardParts DEF D!NothingInvented
<1>8. D!NothingInvented'
  <2>1. ASSUME NEW o \in board \cup sending' \cup dlost PROVE o \in known'[o.author]
    <3>1. CASE o = op
      BY <1>4, <1>5, <3>1
    <3>2. CASE o # op
      <4>1. o \in board \cup sending \cup dlost
        BY <1>2, <3>2
      <4>2. o \in known[o.author] /\ o.author \in Clients
        BY <4>1, BoardParts DEF D!NothingInvented, D!Op
      <4>3. QED
        BY <1>5, <4>2
    <3>3. QED
      BY <3>1, <3>2
  <2>2. sending' \cap board = {} /\ dlost \cap (board \cup sending') = {}
    BY <1>2, <1>7, BoardParts DEF D!NothingInvented
  <2>3. QED
    BY <1>2, <2>1, <2>2 DEF D!NothingInvented
<1>9. D!MissedCameLate'
  BY <1>2, <1>5, BoardParts DEF D!MissedCameLate
<1>10. ASSUME NEW x \in Clients PROVE D!Reached(cursor[x])' /\ D!ReplyFits(x)'
  <2>1. D!Reached(cursor[x])'
    BY <1>2, BoardParts DEF D!Reached
  <2>2. D!ReplyFits(x)'
    <3>1. D!ReplyFits(x) /\ known[x] \subseteq known'[x]
      BY <1>5, BoardParts
    <3>2. QED
      BY <1>2, <3>1 DEF D!ReplyFits, D!Reached, D!NoReply
  <2>3. QED
    BY <2>1, <2>2
<1>11. QED
  BY <1>2, <1>5, <1>6, <1>8, <1>9, <1>10, BoardParts, BoardWhole

(* Append and its failures: an operation leaves the way to the server. One *)
(* stored below a seq of the log, and so below any cursor, is late.        *)
LEMMA BoardAppend ==
  ASSUME D!WhiteboardInv, NEW op \in sending, D!AppendOp(op) \/ D!AppendFails(op)
  PROVE  D!WhiteboardInv'
<1>1. op \in D!Op /\ op.seq \in 1..MaxSeq
  BY BoardParts DEF D!Op
<1>2. /\ sending' = sending \ {op} /\ UNCHANGED <<known, cursor, reply, cut>>
      /\ \/ board' = board /\ dlost' = dlost \cup {op} /\ dlate' = dlate
         \/ /\ board' = board \cup {op} /\ dlost' = dlost
            /\ dlate' = IF D!MaxSeqOf(board) >= op.seq THEN dlate \cup {op} ELSE dlate
  BY DEF D!AppendOp, D!AppendFails
<1>3. /\ board \subseteq board' /\ board' \subseteq board \cup {op} /\ board' \subseteq D!Op
      /\ dlate \subseteq dlate' /\ dlost' \subseteq D!Op /\ sending' \subseteq D!Op
  BY <1>1, <1>2, BoardParts
<1>4. D!TypeOK' /\ known' \in [Clients -> SUBSET D!Op]
  BY <1>2, <1>3, BoardParts DEF D!TypeOK, D!Op
<1>5. D!NothingInvented'
  <2>1. board' \cup sending' \cup dlost' \subseteq board \cup sending \cup dlost
    BY <1>2
  <2>2. \A o \in board' \cup sending' \cup dlost' : o \in known[o.author]
    BY <2>1, BoardParts DEF D!NothingInvented
  <2>3. sending' \cap board' = {} /\ dlost' \cap (board' \cup sending') = {}
    BY <1>2, BoardParts DEF D!NothingInvented
  <2>4. QED
    BY <1>2, <2>2, <2>3 DEF D!NothingInvented
<1>6. ASSUME NEW n \in 0..MaxSeq, D!Reached(n), op \in board', op.seq <= n
      PROVE  op \in dlate' \/ op \in board
  <2>1. PICK o \in board : o.seq >= n
    BY <1>1, <1>6 DEF D!Reached
  <2>2. o.seq <= D!MaxSeqOf(board) /\ D!MaxSeqOf(board) \in 0..MaxSeq /\ o.seq \in 1..MaxSeq
    BY <2>1, BoardParts, HighestSeq DEF D!Op
  <2>3. D!MaxSeqOf(board) >= op.seq
    BY <1>1, <1>6, <2>1, <2>2
  <2>4. QED
    BY <1>2, <1>6, <2>3
<1>7. D!MissedCameLate'
  <2>1. ASSUME NEW c \in Clients, NEW o \in board', o.seq <= cursor[c]
        PROVE  o \in known[c] \/ o \in dlate' \/ cut
    <3>1. cursor[c] \in 0..MaxSeq /\ D!Reached(cursor[c])
      BY BoardParts
    <3>2. o \in board \/ o \in dlate'
      BY <1>3, <1>6, <2>1, <3>1
    <3>3. QED
      BY <1>3, <2>1, <3>2, BoardParts DEF D!MissedCameLate
  <2>2. QED
    BY <1>2, <2>1 DEF D!MissedCameLate
<1>8. ASSUME NEW c \in Clients PROVE D!Reached(cursor[c])' /\ D!ReplyFits(c)'
  <2>1. D!Reached(cursor[c]) /\ D!ReplyFits(c)
    BY BoardParts
  <2>2. D!Reached(cursor[c])'
    BY <1>2, <1>3, <2>1 DEF D!Reached
  <2>3. CASE reply[c] = D!NoReply
    BY <1>2, <2>2, <2>3 DEF D!ReplyFits, D!NoReply
  <2>4. CASE reply[c] # D!NoReply
    <3>1. /\ reply[c].ops \subseteq board /\ reply[c].to \in 0..MaxSeq /\ D!Reached(reply[c].to)
          /\ \A o \in board : o.seq <= reply[c].to =>
                o \in known[c] \/ o \in reply[c].ops \/ o \in dlate \/ cut
      BY <2>1, <2>4 DEF D!ReplyFits
    <3>2. D!Reached(reply[c].to)'
      BY <1>2, <1>3, <3>1 DEF D!Reached
    <3>3. ASSUME NEW o \in board', o.seq <= reply[c].to
          PROVE  o \in known[c] \/ o \in reply[c].ops \/ o \in dlate' \/ cut
      <4>1. o \in board \/ o \in dlate'
        BY <1>3, <1>6, <3>1, <3>3
      <4>2. QED
        BY <1>3, <3>1, <3>3, <4>1
    <3>4. D!ReplyFits(c)'
      BY <1>2, <1>3, <3>1, <3>2, <3>3 DEF D!ReplyFits
    <3>5. QED
      BY <2>2, <3>4
  <2>5. QED
    BY <2>3, <2>4
<1>9. QED
  BY <1>2, <1>3, <1>4, <1>5, <1>7, <1>8, BoardParts, BoardWhole

(* Sync: the page ends at the cursor it answers with.                      *)
LEMMA BoardSync ==
  ASSUME D!WhiteboardInv, NEW c \in Clients, D!Sync(c)
  PROVE  D!WhiteboardInv'
<1>1. PICK page \in D!Listed(cursor[c]) :
        /\ reply' = [reply EXCEPT ![c] = [at |-> "reply", ops |-> page, to |-> D!NewCursor(cursor[c], page)]]
        /\ cut' = (cut \/ \E o \in board \ page, q \in page : o.seq = q.seq)
  BY DEF D!Sync
<1>2. PICK next : next = [at |-> "reply", ops |-> page, to |-> D!NewCursor(cursor[c], page)]
  OBVIOUS
<1>3. UNCHANGED <<board, known, cursor, sending, dlate, dlost>> /\ reply[c] = D!NoReply
  BY DEF D!Sync
<1>4. next.ops = page /\ next.to = D!NewCursor(cursor[c], page)
  BY <1>2
<1>5. cursor[c] \in 0..MaxSeq
  BY BoardParts
<1>6. /\ page \subseteq board
      /\ \A o \in page : \A q \in board \ page : q.seq > cursor[c] => o.seq <= q.seq
      /\ next.to \in 0..MaxSeq
      /\ next.to = cursor[c] \/ \E o \in page : o.seq = next.to
  BY <1>4, <1>5, BoardParts, PageFacts
<1>7. /\ reply' = [x \in Clients |-> reply'[x]]
      /\ \A x \in Clients : reply'[x] = IF x = c THEN next ELSE reply[x]
  BY <1>1, <1>2, BoardParts
<1>8. D!TypeOK' /\ known' \in [Clients -> SUBSET D!Op] /\ D!NothingInvented' /\ dlost' \subseteq D!Op
  BY <1>3, BoardParts DEF D!TypeOK, D!NothingInvented, D!Op
<1>9. cut => cut'
  BY <1>1
<1>10. D!MissedCameLate'
  BY <1>3, <1>9, BoardParts DEF D!MissedCameLate
<1>11. D!Reached(next.to)
  <2>1. CASE next.to = cursor[c]
    BY <2>1, BoardParts
  <2>2. CASE \E o \in page : o.seq = next.to
    BY <1>6, <2>2, BoardParts DEF D!Reached, D!Op
  <2>3. QED
    BY <1>6, <2>1, <2>2
<1>12. ASSUME NEW o \in board, o.seq <= next.to
       PROVE  o \in known[c] \/ o \in page \/ o \in dlate \/ cut'
  <2>1. o.seq \in Int /\ cursor[c] \in Int /\ next.to \in Int
    BY <1>5, <1>6, BoardParts DEF D!Op
  <2>2. CASE o.seq <= cursor[c]
    BY <1>9, <2>2, BoardParts DEF D!MissedCameLate
  <2>3. CASE o.seq > cursor[c] /\ o \notin page
    <3>1. PICK q \in page : q.seq = next.to
      BY <1>6, <1>12, <2>1, <2>3
    <3>2. q.seq <= o.seq
      BY <1>6, <2>3, <3>1
    <3>3. q.seq = o.seq
      BY <1>12, <2>1, <3>1, <3>2
    <3>4. cut'
      BY <1>1, <2>3, <3>3
    <3>5. QED
      BY <3>4
  <2>4. QED
    BY <2>1, <2>2, <2>3
<1>13. ASSUME NEW x \in Clients PROVE D!Reached(cursor[x])' /\ D!ReplyFits(x)'
  <2>1. D!Reached(cursor[x])'
    BY <1>3, BoardParts DEF D!Reached
  <2>2. CASE x = c
    <3>1. reply'[x] = next
      BY <1>7, <2>2
    <3>2. D!Reached(reply[x].to)'
      BY <1>3, <1>11, <3>1 DEF D!Reached
    <3>3. QED
      BY <1>3, <1>4, <1>6, <1>12, <2>1, <2>2, <3>1, <3>2 DEF D!ReplyFits
  <2>3. CASE x # c
    <3>1. D!ReplyFits(x) /\ reply'[x] = reply[x]
      BY <1>7, <2>3, BoardParts
    <3>2. QED
      BY <1>3, <1>9, <2>1, <3>1 DEF D!ReplyFits, D!Reached, D!NoReply
  <2>4. QED
    BY <2>2, <2>3
<1>14. QED
  BY <1>7, <1>8, <1>10, <1>13, BoardWhole

(* MergeOps: the client knows what the reply brought, up to its cursor.    *)
LEMMA BoardMerge ==
  ASSUME D!WhiteboardInv, NEW c \in Clients, D!MergeOps(c)
  PROVE  D!WhiteboardInv'
<1>1. /\ reply[c] # D!NoReply
      /\ known' = [known EXCEPT ![c] = known[c] \cup reply[c].ops]
      /\ cursor' = [cursor EXCEPT ![c] = reply[c].to]
      /\ reply' = [reply EXCEPT ![c] = D!NoReply]
      /\ UNCHANGED <<board, sending, dlate, cut, dlost>>
  BY DEF D!MergeOps
<1>2. /\ reply[c].ops \subseteq board /\ reply[c].to \in 0..MaxSeq /\ D!Reached(reply[c].to)
      /\ \A o \in board : o.seq <= reply[c].to =>
            o \in known[c] \/ o \in reply[c].ops \/ o \in dlate \/ cut
  BY <1>1, BoardParts DEF D!ReplyFits
<1>3. /\ known' \in [Clients -> SUBSET D!Op] /\ \A x \in Clients : known[x] \subseteq known'[x]
      /\ known'[c] = known[c] \cup reply[c].ops
  BY <1>1, <1>2, BoardParts
<1>4. /\ cursor' \in [Clients -> 0..MaxSeq]
      /\ \A x \in Clients : cursor'[x] = IF x = c THEN reply[c].to ELSE cursor[x]
  BY <1>1, <1>2, BoardParts
<1>5. /\ reply' = [x \in Clients |-> reply'[x]]
      /\ \A x \in Clients : reply'[x] = IF x = c THEN D!NoReply ELSE reply[x]
  BY <1>1, BoardParts
<1>6. D!TypeOK' /\ dlost' \subseteq D!Op
  BY <1>1, <1>4, BoardParts DEF D!TypeOK, D!Op
<1>7. D!NothingInvented'
  <2>1. ASSUME NEW o \in board \cup sending \cup dlost PROVE o \in known'[o.author]
    <3>1. o \in known[o.author] /\ o.author \in Clients
      BY BoardParts DEF D!NothingInvented, D!Op
    <3>2. QED
      BY <1>3, <3>1
  <2>2. QED
    BY <1>1, <2>1, BoardParts DEF D!NothingInvented
<1>8. D!MissedCameLate'
  <2>1. ASSUME NEW x \in Clients, NEW o \in board, o.seq <= cursor'[x]
        PROVE  o \in known'[x] \/ o \in dlate \/ cut
    <3>1. CASE x = c
      BY <1>2, <1>3, <1>4, <2>1, <3>1
    <3>2. CASE x # c
      BY <1>3, <1>4, <2>1, <3>2, BoardParts DEF D!MissedCameLate
    <3>3. QED
      BY <3>1, <3>2
  <2>2. QED
    BY <1>1, <2>1 DEF D!MissedCameLate
<1>9. ASSUME NEW x \in Clients PROVE D!Reached(cursor[x])' /\ D!ReplyFits(x)'
  <2>1. CASE x = c
    BY <1>1, <1>2, <1>4, <1>5, <2>1 DEF D!Reached, D!ReplyFits, D!NoReply
  <2>2. CASE x # c
    <3>1. D!Reached(cursor[x]) /\ D!ReplyFits(x) /\ reply'[x] = reply[x] /\ cursor'[x] = cursor[x]
          /\ known[x] \subseteq known'[x]
      BY <1>3, <1>4, <1>5, <2>2, BoardParts
    <3>2. QED
      BY <1>1, <3>1 DEF D!ReplyFits, D!Reached, D!NoReply
  <2>3. QED
    BY <2>1, <2>2
<1>10. QED
  BY <1>3, <1>5, <1>6, <1>7, <1>8, <1>9, BoardWhole

LEMMA BoardStep ==
  ASSUME D!WhiteboardInv, [D!Next]_DVars
  PROVE  D!WhiteboardInv'
<1>1. ASSUME UNCHANGED <<board, known, cursor, sending, reply, dlate, cut, dlost>>
      PROVE  D!WhiteboardInv'
  <2>1. D!TypeOK' /\ D!NothingInvented' /\ D!MissedCameLate'
    BY <1>1, BoardParts DEF D!TypeOK, D!NothingInvented, D!MissedCameLate, D!Op
  <2>2. ASSUME NEW c \in Clients PROVE D!Reached(cursor[c])' /\ D!ReplyFits(c)'
    <3>1. D!Reached(cursor[c]) /\ D!ReplyFits(c)
      BY BoardParts
    <3>2. QED
      BY <1>1, <3>1 DEF D!ReplyFits, D!Reached, D!NoReply
  <2>3. QED
    BY <1>1, <2>1, <2>2, BoardParts, BoardWhole
<1>2. CASE UNCHANGED DVars
  BY <1>1, <1>2 DEF DVars
<1>3. ASSUME NEW c \in Clients, D!LeaveConversation(c) PROVE D!WhiteboardInv'
  BY <1>1, <1>3 DEF D!LeaveConversation
<1>4. QED
  BY <1>2, <1>3, BoardDraw, BoardAppend, BoardSync, BoardMerge DEF D!Next

-----------------------------------------------------------------------------
(* Contacts.                                                               *)

\* The parts of the invariant.
LEMMA ContactsParts ==
  ASSUME A!ContactsInv
  PROVE  /\ A!TypeOK
         /\ ajob = [h \in Handlers |-> ajob[h]] /\ \A h \in Handlers : A!JobFits(ajob[h])
         /\ found \in [Numbers -> Users \cup {A!Nobody}] /\ afaults \in Nat
         /\ \A n \in Numbers : A!EdgeFollows(n)
  BY DEF A!ContactsInv, A!ContactsSound

\* What the address book shows follows from the rest.
LEMMA ContactsWhole ==
  ASSUME A!TypeOK', (ajob = [h \in Handlers |-> ajob[h]])', \A h \in Handlers : A!JobFits(ajob[h])',
         found' \in [Numbers -> Users \cup {A!Nobody}], afaults' \in Nat,
         \A n \in Numbers : A!EdgeFollows(n)'
  PROVE  A!ContactsInv'
<1>1. A!EdgeIsLastFound'
  <2>1. ASSUME NEW n \in Numbers
        PROVE  (\/ edge[n] = found[n] \/ n \in acrossed \/ afaults > 0
                \/ \E h \in Handlers : ajob[h].at = "upsert" /\ n \in DOMAIN ajob[h].who)'
    BY DEF A!EdgeFollows, A!Writing
  <2>2. QED
    BY <2>1 DEF A!EdgeIsLastFound
<1>2. QED
  BY <1>1 DEF A!ContactsInv, A!ContactsSound

LEMMA ContactsInit == A!Init => A!ContactsInv
<1> SUFFICES ASSUME A!Init PROVE A!ContactsInv
  OBVIOUS
<1>1. A!TypeOK /\ afaults \in Nat /\ found \in [Numbers -> Users \cup {A!Nobody}]
  BY ContactConstants DEF A!Init, A!TypeOK
<1>2. ajob = [h \in Handlers |-> ajob[h]] /\ \A h \in Handlers : A!JobFits(ajob[h])
  BY DEF A!Init, A!Idle, A!JobFits
<1>3. \A n \in Numbers : edge[n] = found[n] /\ A!Writing(n) = {}
  BY DEF A!Init, A!Idle, A!Writing
<1>4. A!EdgeIsLastFound
  BY <1>3 DEF A!EdgeIsLastFound
<1>5. \A n \in Numbers : A!EdgeFollows(n)
  BY <1>3 DEF A!EdgeFollows
<1>6. QED
  BY <1>1, <1>2, <1>4, <1>5 DEF A!ContactsInv, A!ContactsSound

\* Steps that leave syncs and edges alone.
LEMMA ContactsAside ==
  ASSUME A!ContactsInv, A!TypeOK', UNCHANGED <<edge, ajob, found, acrossed, afaults>>
  PROVE  A!ContactsInv'
<1>1. \A h \in Handlers : A!JobFits(ajob[h])'
  BY ContactsParts DEF A!JobFits
<1>2. \A n \in Numbers : A!EdgeFollows(n)'
  BY ContactsParts DEF A!EdgeFollows, A!Writing
<1>3. QED
  BY <1>1, <1>2, ContactsParts, ContactsWhole

(* A sync begins.                                                          *)
LEMMA ContactsAllow ==
  ASSUME A!ContactsInv, NEW h \in Handlers, A!AllowDaily(h)
  PROVE  A!ContactsInv'
<1> DEFINE next == [at |-> "match"]
<1>1. /\ ajob' = [ajob EXCEPT ![h] = next] /\ ajob[h] = A!Idle
      /\ UNCHANGED <<holder, edge, invite, favorite, found, acrossed, moves, afaults>>
  BY DEF A!AllowDaily, A!Become
<1>2. A!TypeOK'
  <2>1. spent' \in 0..SyncDailyLimit
    BY ContactConstants, ContactsParts DEF A!AllowDaily, A!TypeOK
  <2>2. QED
    BY <1>1, <2>1, ContactsParts DEF A!TypeOK
<1>3. /\ ajob' = [g \in Handlers |-> ajob'[g]]
      /\ \A g \in Handlers : ajob'[g] = IF g = h THEN next ELSE ajob[g]
  BY <1>1, ContactsParts
<1>4. ASSUME NEW g \in Handlers PROVE A!JobFits(ajob[g])'
  BY <1>3, ContactsParts DEF A!JobFits
<1>5. \A n \in Numbers : A!Writing(n)' = A!Writing(n)
  BY <1>1, <1>3 DEF A!Writing, A!Idle
<1>6. \A n \in Numbers : \A g \in A!Writing(n) : ajob'[g] = ajob[g]
  BY <1>1, <1>3 DEF A!Writing, A!Idle
<1>7. ASSUME NEW n \in Numbers PROVE A!EdgeFollows(n)'
  BY <1>1, <1>5, <1>6, ContactsParts DEF A!EdgeFollows
<1>8. QED
  BY <1>1, <1>2, <1>3, <1>4, <1>7, ContactsParts, ContactsWhole

(* The numbers are matched.                                                *)
LEMMA ContactsMatch ==
  ASSUME A!ContactsInv, NEW h \in Handlers, A!MatchHashes(h)
  PROVE  A!ContactsInv'
<1> DEFINE who == [n \in A!Matches |-> holder[n]]
<1>1. PICK next : /\ ajob' = [ajob EXCEPT ![h] = next]
                  /\ next = IF A!Matches = {} THEN A!Idle ELSE [at |-> "upsert", who |-> who]
  BY DEF A!MatchHashes, A!Become
<1>2. /\ ajob[h].at = "match"
      /\ found' = [n \in Numbers |-> IF n \in A!Matches THEN holder[n] ELSE found[n]]
      /\ acrossed' = acrossed \cup {n \in A!Matches : \E g \in Handlers : ajob[g].at = "upsert"}
      /\ UNCHANGED <<holder, edge, spent, invite, favorite, moves, afaults>>
  BY DEF A!MatchHashes
<1>3. A!TypeOK'
  BY <1>2, ContactsParts DEF A!TypeOK
<1>4. /\ holder \in [Numbers -> Users \cup {A!Nobody}] /\ A!Matches \subseteq Numbers
  BY ContactsParts DEF A!TypeOK, A!Matches
<1>5. found' \in [Numbers -> Users \cup {A!Nobody}]
  BY <1>2, <1>4, ContactsParts
<1>6. /\ ajob' = [g \in Handlers |-> ajob'[g]]
      /\ \A g \in Handlers : ajob'[g] = IF g = h THEN next ELSE ajob[g]
  BY <1>1, ContactsParts
<1>7. A!JobFits(next) /\ (next.at = "upsert" => next.who = who /\ DOMAIN next.who = A!Matches)
      /\ (A!Matches # {} => next.at = "upsert")
  BY <1>1, <1>4 DEF A!JobFits, A!Idle
<1>8. ASSUME NEW g \in Handlers PROVE A!JobFits(ajob[g])'
  BY <1>6, <1>7, ContactsParts DEF A!JobFits
<1> HIDE DEF who
<1>9. ASSUME NEW n \in Numbers PROVE A!EdgeFollows(n)'
  <2>1. CASE n \in acrossed' \/ afaults' > 0
    BY <2>1 DEF A!EdgeFollows
  <2>2. CASE ~(n \in acrossed' \/ afaults' > 0) /\ n \in A!Matches
    <3>1. \A g \in Handlers : ajob[g].at # "upsert"
      BY <1>2, <2>2
    <3>2. A!Writing(n)' = {h}
      BY <1>6, <1>7, <2>2, <3>1 DEF A!Writing
    <3>3. ajob'[h].who[n] = holder[n] /\ found'[n] = holder[n]
      BY <1>2, <1>6, <1>7, <2>2 DEF who
    <3>4. QED
      BY <3>2, <3>3 DEF A!EdgeFollows
  <2>3. CASE ~(n \in acrossed' \/ afaults' > 0) /\ n \notin A!Matches
    <3>1. A!Writing(n)' = A!Writing(n) /\ \A g \in A!Writing(n) : ajob'[g] = ajob[g]
      BY <1>2, <1>6, <1>7, <2>3 DEF A!Writing
    <3>2. found'[n] = found[n] /\ edge' = edge /\ afaults' = afaults /\ n \notin acrossed
      BY <1>2, <2>3
    <3>3. A!EdgeFollows(n)
      BY ContactsParts
    <3>4. QED
      BY <2>3, <3>1, <3>2, <3>3 DEF A!EdgeFollows
  <2>4. QED
    BY <2>1, <2>2, <2>3
<1>10. QED
  BY <1>2, <1>3, <1>5, <1>6, <1>8, <1>9, ContactsParts, ContactsWhole

(* The edges are written, or the write fails.                              *)
LEMMA ContactsUpsert ==
  ASSUME A!ContactsInv, NEW h \in Handlers, A!UpsertMatched(h)
  PROVE  A!ContactsInv'
<1> DEFINE who == ajob[h].who
<1>1. /\ ajob' = [ajob EXCEPT ![h] = A!Idle] /\ ajob[h].at = "upsert"
      /\ UNCHANGED <<holder, spent, invite, favorite, found, acrossed, moves>>
      /\ \/ edge' = A!Upserted(who) /\ UNCHANGED afaults
         \/ afaults' = afaults + 1 /\ UNCHANGED edge
  BY DEF A!UpsertMatched, A!Become
<1>2. /\ DOMAIN who \subseteq Numbers
      /\ \A n \in DOMAIN who : who[n] \in Users \cup {A!Nobody}
  BY <1>1, ContactsParts DEF A!JobFits
<1>3. /\ ajob' = [g \in Handlers |-> ajob'[g]]
      /\ \A g \in Handlers : ajob'[g] = IF g = h THEN A!Idle ELSE ajob[g]
  BY <1>1, ContactsParts
<1>4. ASSUME NEW g \in Handlers PROVE A!JobFits(ajob[g])'
  BY <1>3, ContactsParts DEF A!JobFits, A!Idle
<1> HIDE DEF who
<1>5. edge' \in [Numbers -> Users \cup {A!Nobody}] /\ afaults' \in Nat
  BY <1>1, <1>2, ContactsParts DEF A!TypeOK, A!Upserted
<1>6. A!TypeOK'
  BY <1>1, <1>5, ContactsParts DEF A!TypeOK
<1>7. ASSUME NEW n \in Numbers PROVE A!EdgeFollows(n)'
  <2>1. A!Writing(n)' = A!Writing(n) \ {h} /\ \A g \in A!Writing(n)' : ajob'[g] = ajob[g]
    BY <1>3 DEF A!Writing, A!Idle
  <2>2. h \in A!Writing(n) <=> n \in DOMAIN who
    BY <1>1 DEF A!Writing, who
  <2>3. A!EdgeFollows(n) /\ afaults \in Nat
    BY ContactsParts
  <2>4. CASE afaults' = afaults + 1
    BY <2>3, <2>4 DEF A!EdgeFollows
  <2>5. CASE edge' = A!Upserted(who) /\ UNCHANGED afaults
    <3>1. edge'[n] = IF n \in DOMAIN who THEN who[n] ELSE edge[n]
      BY <2>5 DEF A!Upserted
    <3>2. CASE n \in acrossed \/ afaults > 0
      BY <1>1, <2>5, <3>2 DEF A!EdgeFollows
    <3>3. CASE ~(n \in acrossed \/ afaults > 0)
      <4>1. /\ \A g \in A!Writing(n) : ajob[g].who[n] = found[n]
            /\ edge[n] = found[n] \/ A!Writing(n) # {}
        BY <2>3, <3>3 DEF A!EdgeFollows
      <4>2. edge'[n] = found'[n] \/ A!Writing(n)' # {}
        BY <1>1, <2>1, <2>2, <3>1, <4>1 DEF who
      <4>3. \A g \in A!Writing(n)' : ajob'[g].who[n] = found'[n]
        BY <1>1, <2>1, <4>1
      <4>4. QED
        BY <4>2, <4>3 DEF A!EdgeFollows
    <3>4. QED
      BY <3>2, <3>3
  <2>6. QED
    BY <1>1, <2>4, <2>5
<1>8. QED
  BY <1>1, <1>3, <1>4, <1>5, <1>6, <1>7, ContactsParts, ContactsWhole

LEMMA ContactsStep ==
  ASSUME A!ContactsInv, [A!Next]_AVars
  PROVE  A!ContactsInv'
<1>1. CASE UNCHANGED AVars
  <2>1. UNCHANGED <<edge, ajob, found, acrossed, afaults>> /\ A!TypeOK'
    BY <1>1, ContactsParts DEF AVars, A!TypeOK
  <2>2. QED
    BY <2>1, ContactsAside
<1>2. CASE A!Refill \/ A!CreateInvite \/ A!InviteExpires \/ A!RevokeInvite
  <2>1. UNCHANGED <<edge, ajob, found, acrossed, afaults, holder, favorite>>
    BY <1>2 DEF A!Refill, A!CreateInvite, A!InviteExpires, A!RevokeInvite
  <2>2. spent' \in 0..SyncDailyLimit /\ invite' \in {"none", "valid", "expired", "revoked"}
    BY <1>2, ContactConstants, ContactsParts DEF A!TypeOK, A!Refill, A!CreateInvite, A!InviteExpires, A!RevokeInvite, A!Revoke
  <2>3. A!TypeOK'
    BY <2>1, <2>2, ContactsParts DEF A!TypeOK
  <2>4. QED
    BY <2>1, <2>3, ContactsAside
<1>3. ASSUME NEW n \in Numbers, NEW u \in Users \cup {A!Nobody}, A!ChangeHands(n, u)
      PROVE  A!ContactsInv'
  <2>1. UNCHANGED <<edge, ajob, found, acrossed, afaults, spent, invite, favorite>>
    BY <1>3 DEF A!ChangeHands
  <2>2. A!TypeOK'
    BY <1>3, <2>1, ContactsParts DEF A!ChangeHands, A!TypeOK
  <2>3. QED
    BY <2>1, <2>2, ContactsAside
<1>4. ASSUME NEW u \in Users, A!AddFavorite(u) \/ A!RemoveFavorite(u)
      PROVE  A!ContactsInv'
  <2>1. UNCHANGED <<edge, ajob, found, acrossed, afaults, spent, invite, holder>> /\ favorite' \subseteq favorite \cup {u}
    BY <1>4 DEF A!AddFavorite, A!RemoveFavorite, A!Add, A!Remove
  <2>2. A!TypeOK'
    BY <2>1, ContactsParts DEF A!TypeOK
  <2>3. QED
    BY <2>1, <2>2, ContactsAside
<1>5. QED
  BY <1>1, <1>2, <1>3, <1>4, ContactsAllow, ContactsMatch, ContactsUpsert DEF A!Next

-----------------------------------------------------------------------------
(* Stories.                                                                *)

\* The parts of the invariant.
LEMMA StoriesParts ==
  ASSUME S!StoriesInv
  PROVE  /\ S!TypeOK
         /\ views \subseteq chosen \cap slate /\ S!NoViewOutlives
         /\ sjob = [h \in Handlers |-> sjob[h]] /\ \A h \in Handlers : S!JobFits(sjob[h])
         /\ S!OnePosting
         /\ chosen \subseteq Users \cup {Author} /\ slate \subseteq Users \cup {Author}
         /\ story.state # "none" => story.audience = chosen
  BY DEF S!StoriesInv, S!StoriesSound, S!AudienceFrozen

\* Who sees the story follows from the rest.
LEMMA StoriesWhole ==
  ASSUME S!TypeOK', (views \subseteq chosen \cap slate)', S!NoViewOutlives',
         (sjob = [h \in Handlers |-> sjob[h]])', \A h \in Handlers : S!JobFits(sjob[h])',
         S!OnePosting', (chosen \subseteq Users \cup {Author} /\ slate \subseteq Users \cup {Author})',
         (story.state # "none" => story.audience = chosen)'
  PROVE  S!StoriesInv'
<1>1. \A u \in Users \cup {Author} : (S!Feed(u) # {} => u \in chosen /\ S!MayView(u))'
  BY DEF S!Feed, S!Visible, S!MayView, S!Load
<1>2. \A u \in Users : (S!Viewers(u) = {})'
  BY StoryConstants DEF S!Viewers
<1>3. S!AudienceFrozen'
  BY <1>1, <1>2 DEF S!AudienceFrozen
<1>4. QED
  BY <1>3 DEF S!StoriesInv, S!StoriesSound

LEMMA StoriesInit == S!Init => S!StoriesInv
<1> SUFFICES ASSUME S!Init PROVE S!StoriesInv
  OBVIOUS
<1>1. S!TypeOK /\ S!NoViewOutlives /\ chosen = {} /\ slate = {} /\ views = {} /\ story.state = "none"
  BY DEF S!Init, S!TypeOK, S!NoViewOutlives
<1>2. /\ sjob = [h \in Handlers |-> sjob[h]] /\ \A h \in Handlers : S!JobFits(sjob[h])
      /\ S!OnePosting
  BY DEF S!Init, S!Idle, S!JobFits, S!OnePosting
<1>3. S!AudienceFrozen
  BY <1>1, StoryConstants DEF S!AudienceFrozen, S!Feed, S!Visible, S!Viewers
<1>4. QED
  BY <1>1, <1>2, <1>3 DEF S!StoriesInv, S!StoriesSound

\* The story ages, goes, or nothing of it changes; handlers stay.
LEMMA StoriesAge ==
  ASSUME S!StoriesInv, S!TypeOK', UNCHANGED <<sjob, chosen, slate>>,
         story'.audience = story.audience,
         story.state = "none" <=> story'.state = "none",
         \/ views' = {}
         \/ views' = views /\ (story'.state = "gone" => story.state = "gone")
  PROVE  S!StoriesInv'
<1>1. \A h \in Handlers : S!JobFits(sjob[h])'
  BY StoriesParts DEF S!JobFits
<1>2. S!OnePosting'
  BY StoriesParts DEF S!OnePosting
<1>3. S!NoViewOutlives' /\ views' \subseteq views
  BY StoriesParts DEF S!NoViewOutlives
<1>4. QED
  BY <1>1, <1>2, <1>3, StoriesParts, StoriesWhole

\* A handler stops, or begins or finishes what changes no more than views.
LEMMA StoriesJob ==
  ASSUME S!StoriesInv, NEW h \in Handlers, NEW next, sjob' = [sjob EXCEPT ![h] = next],
         S!JobFits(next)', next.at # "create",
         UNCHANGED <<contacts, story, chosen>>, slate \subseteq slate', slate' \subseteq Users \cup {Author},
         views' \subseteq views \cup (chosen \cap slate), S!NoViewOutlives'
  PROVE  S!StoriesInv'
<1>1. /\ sjob' = [g \in Handlers |-> sjob'[g]]
      /\ \A g \in Handlers : sjob'[g] = IF g = h THEN next ELSE sjob[g]
  BY StoriesParts
<1>2. ASSUME NEW g \in Handlers PROVE S!JobFits(sjob[g])'
  <2>1. CASE g = h
    BY <1>1, <2>1 DEF S!JobFits
  <2>2. CASE g # h
    BY <1>1, <2>2, StoriesParts DEF S!JobFits
  <2>3. QED
    BY <2>1, <2>2
<1>3. S!OnePosting'
  BY <1>1, StoriesParts DEF S!OnePosting
<1>4. S!TypeOK' /\ views' \subseteq chosen' \cap slate'
  BY StoriesParts DEF S!TypeOK
<1>5. QED
  BY <1>1, <1>2, <1>3, <1>4, StoriesParts, StoriesWhole

LEMMA StoriesPost ==
  ASSUME S!StoriesInv, NEW h \in Handlers, NEW source \in (SUBSET Users) \cup {contacts},
         NEW kind, NEW has, S!Post(h, source, kind, has)
  PROVE  S!StoriesInv'
<1> DEFINE next == [at |-> "create", aud |-> S!Audience(source)]
<1>1. /\ sjob' = [sjob EXCEPT ![h] = next] /\ story.state = "none"
      /\ \A g \in Handlers : sjob[g].at # "create"
      /\ chosen' = source \cup {Author}
      /\ UNCHANGED <<contacts, story, views, slate, sfaults>>
  BY DEF S!Post, S!Become
<1>2. S!Audience(source) = chosen' /\ chosen' \subseteq Users \cup {Author}
  <2>1. source \subseteq Users
    BY StoriesParts DEF S!TypeOK
  <2>2. S!Audience(source) = {Author} \cup source
    BY DEF S!Audience
  <2>3. QED
    BY <1>1, <2>1, <2>2
<1>3. /\ sjob' = [g \in Handlers |-> sjob'[g]]
      /\ \A g \in Handlers : sjob'[g] = IF g = h THEN next ELSE sjob[g]
  BY <1>1, StoriesParts
<1>4. ASSUME NEW g \in Handlers PROVE S!JobFits(sjob[g])'
  <2>1. CASE g = h
    BY <1>1, <1>2, <1>3, <2>1 DEF S!JobFits
  <2>2. CASE g # h
    <3>1. sjob[g].at = "idle" /\ sjob'[g] = sjob[g]
      BY <1>1, <1>3, <2>2, StoriesParts DEF S!JobFits
    <3>2. QED
      BY <3>1 DEF S!JobFits
  <2>3. QED
    BY <2>1, <2>2
<1>5. S!OnePosting'
  BY <1>1, <1>3 DEF S!OnePosting
<1>6. S!TypeOK' /\ views' = {} /\ S!NoViewOutlives'
  BY <1>1, StoriesParts DEF S!TypeOK, S!NoViewOutlives
<1>7. QED
  BY <1>1, <1>2, <1>3, <1>4, <1>5, <1>6, StoriesParts, StoriesWhole

LEMMA StoriesCreate ==
  ASSUME S!StoriesInv, NEW h \in Handlers, S!Create(h)
  PROVE  S!StoriesInv'
<1>1. /\ sjob' = [sjob EXCEPT ![h] = S!Idle] /\ sjob[h].at = "create"
      /\ story' = [state |-> "live", audience |-> sjob[h].aud]
      /\ UNCHANGED <<contacts, views, chosen, slate, sfaults>>
  BY DEF S!Create, S!Become
<1>2. sjob[h].aud = chosen /\ story.state = "none" /\ views = {}
  BY <1>1, StoriesParts DEF S!JobFits, S!NoViewOutlives
<1>3. /\ sjob' = [g \in Handlers |-> sjob'[g]]
      /\ \A g \in Handlers : sjob'[g] = IF g = h THEN S!Idle ELSE sjob[g]
  BY <1>1, StoriesParts
<1>4. ASSUME NEW g \in Handlers PROVE sjob'[g].at = "idle"
  BY <1>1, <1>2, <1>3, StoriesParts DEF S!JobFits, S!OnePosting, S!Idle
<1>5. \A g \in Handlers : S!JobFits(sjob[g])'
  BY <1>4 DEF S!JobFits
<1>6. S!OnePosting'
  BY <1>4 DEF S!OnePosting
<1>7. S!TypeOK' /\ S!NoViewOutlives' /\ story'.audience = chosen'
  BY <1>1, <1>2, StoriesParts DEF S!TypeOK, S!NoViewOutlives
<1>8. QED
  BY <1>1, <1>2, <1>3, <1>5, <1>6, <1>7, StoriesParts, StoriesWhole

LEMMA StoriesDelete ==
  ASSUME S!StoriesInv, NEW h \in Handlers, S!DeleteStory(h)
  PROVE  S!StoriesInv'
<1>1. /\ sjob' = [sjob EXCEPT ![h] = S!Idle] /\ sjob[h].at = "delete"
      /\ story' = [story EXCEPT !.state = "gone"] /\ views' = {}
      /\ UNCHANGED <<contacts, chosen, slate, sfaults>>
  BY DEF S!DeleteStory, S!Become
<1>2. story.state # "none" /\ story'.state = "gone" /\ story'.audience = story.audience /\ S!TypeOK'
  BY <1>1, StoriesParts DEF S!JobFits, S!TypeOK
<1>3. /\ sjob' = [g \in Handlers |-> sjob'[g]]
      /\ \A g \in Handlers : sjob'[g] = IF g = h THEN S!Idle ELSE sjob[g]
  BY <1>1, StoriesParts
<1>4. ASSUME NEW g \in Handlers PROVE S!JobFits(sjob[g])'
  BY <1>1, <1>2, <1>3, StoriesParts DEF S!JobFits, S!Idle
<1>5. S!OnePosting' /\ S!NoViewOutlives'
  BY <1>1, <1>3, StoriesParts DEF S!OnePosting, S!Idle, S!NoViewOutlives
<1>6. QED
  BY <1>1, <1>2, <1>3, <1>4, <1>5, StoriesParts, StoriesWhole

(* View, RecordView, Delete, and a handler that stops.                     *)
LEMMA StoriesView ==
  ASSUME S!StoriesInv, NEW h \in Handlers,
         (\E u \in Users \cup {Author} : S!View(h, u)) \/ S!RecordView(h) \/ S!Delete(h) \/ S!Abandon(h)
  PROVE  S!StoriesInv'
<1>1. ASSUME NEW u \in Users \cup {Author}, S!View(h, u) PROVE S!StoriesInv'
  <2>1. PICK next : next = [at |-> "record", u |-> u]
    OBVIOUS
  <2>2. /\ sjob' = [sjob EXCEPT ![h] = next] /\ S!MayView(u)
        /\ UNCHANGED <<contacts, story, views, chosen, sfaults>>
        /\ slate' = IF story.state = "expired" THEN slate ELSE slate \cup {u}
    BY <1>1, <2>1 DEF S!View, S!Become
  <2>3. story.state \notin {"none", "gone", "expired"} /\ u \in chosen
    BY <2>2, StoriesParts DEF S!MayView, S!Load
  <2>4. slate' = slate \cup {u} /\ S!NoViewOutlives'
    BY <2>2, <2>3 DEF S!NoViewOutlives
  <2>5. S!JobFits(next)' /\ next.at # "create"
    BY <2>1, <2>2, <2>3, <2>4 DEF S!JobFits
  <2>6. slate \subseteq slate' /\ slate' \subseteq Users \cup {Author}
    BY <2>4, StoriesParts
  <2>7. QED
    BY <2>2, <2>4, <2>5, <2>6, StoriesJob
<1>2. CASE S!RecordView(h)
  <2>1. /\ sjob' = [sjob EXCEPT ![h] = S!Idle] /\ sjob[h].at = "record"
        /\ UNCHANGED <<contacts, story, chosen, slate, sfaults>>
        /\ views' = IF story.state # "gone" THEN views \cup {sjob[h].u} ELSE views
    BY <1>2 DEF S!RecordView, S!Become, S!RowThere
  <2>2. sjob[h].u \in chosen \cap slate /\ story.state # "none"
    BY <2>1, StoriesParts DEF S!JobFits
  <2>3. views' \subseteq views \cup (chosen \cap slate)
    BY <2>1, <2>2
  <2>4. S!NoViewOutlives' /\ slate \subseteq slate' /\ slate' \subseteq Users \cup {Author}
    BY <2>1, <2>2, StoriesParts DEF S!NoViewOutlives
  <2>5. S!JobFits(S!Idle)' /\ S!Idle.at # "create"
    BY DEF S!JobFits, S!Idle
  <2>6. QED
    BY <2>1, <2>3, <2>4, <2>5, StoriesJob
<1>3. CASE S!Delete(h) \/ S!Abandon(h)
  <2>1. PICK next : next = IF S!Delete(h) THEN [at |-> "delete"] ELSE S!Idle
    OBVIOUS
  <2>2. /\ sjob' = [sjob EXCEPT ![h] = next] /\ UNCHANGED <<contacts, story, views, chosen, slate>>
        /\ S!Delete(h) => story.state # "none"
    BY <1>3, <2>1 DEF S!Delete, S!Abandon, S!Become, S!Load
  <2>3. S!JobFits(next)' /\ next.at # "create"
    BY <2>1, <2>2 DEF S!JobFits, S!Idle
  <2>4. S!NoViewOutlives' /\ slate \subseteq slate' /\ slate' \subseteq Users \cup {Author}
    BY <2>2, StoriesParts DEF S!NoViewOutlives
  <2>5. QED
    BY <2>2, <2>3, <2>4, StoriesJob
<1>4. QED
  BY <1>1, <1>2, <1>3

LEMMA StoriesStep ==
  ASSUME S!StoriesInv, [S!Next]_SVars
  PROVE  S!StoriesInv'
<1>1. CASE UNCHANGED SVars
  <2>1. UNCHANGED <<contacts, sjob, chosen, slate, story, views>> /\ S!TypeOK'
    BY <1>1, StoriesParts DEF SVars, S!TypeOK
  <2>2. QED
    BY <2>1, StoriesAge
<1>2. CASE S!Expire \/ S!PurgeExpired
  <2>1. /\ UNCHANGED <<contacts, sjob, chosen, slate>> /\ story.state \in {"live", "edge", "expired"}
        /\ story' = [story EXCEPT !.state = story'.state]
        /\ \/ story'.state \in {"edge", "expired"} /\ views' = views
           \/ story'.state = "gone" /\ views' = {}
    BY <1>2, StoriesParts DEF S!Expire, S!PurgeExpired, S!TypeOK
  <2>2. S!TypeOK' /\ story'.audience = story.audience
    BY <2>1, StoriesParts DEF S!TypeOK
  <2>3. QED
    BY <2>1, <2>2, StoriesAge
<1>3. ASSUME NEW u \in Users, S!ContactsChange(u) PROVE S!StoriesInv'
  <2>1. UNCHANGED <<sjob, chosen, slate, story, views>> /\ S!TypeOK'
    BY <1>3, StoriesParts DEF S!ContactsChange, S!TypeOK
  <2>2. QED
    BY <2>1, StoriesAge
<1>4. QED
  BY <1>1, <1>2, <1>3, StoriesPost, StoriesCreate, StoriesDelete, StoriesView DEF S!Next

-----------------------------------------------------------------------------
(* The properties of the run, for every value of the constants.            *)

\* A step is one of the service it exercises.
LEMMA PartStep ==
  ASSUME [Next]_vars
  PROVE  /\ part' = part
         /\ part = "webinar" => [W!Next]_WVars
         /\ part = "breakout" => [B!Next]_BVars
         /\ part = "recording" => [R!Next]_RVars
         /\ part = "collab" => [C!Next]_CVars
         /\ part = "polls" => [P!Next]_PVars
         /\ part = "whiteboard" => [D!Next]_DVars
         /\ part = "contacts" => [A!Next]_AVars
         /\ part = "stories" => [S!Next]_SVars
         /\ part = "media" => [M!Next]_MVars
         /\ part = "backups" => [K!Next]_KVars
         /\ part = "push" => [U!Next]_UVars
         /\ part = "prefs" => [N!Next]_NVars
         /\ part = "flags" => [F!Next]_FVars
         /\ part = "limiter" => [L!Next]_LVars
         /\ part = "admin" => [O!Next]_OVars
         /\ part = "analytics" => [Y!Next]_YVars
<1>1. CASE UNCHANGED vars
  BY <1>1 DEF vars
<1>2. CASE Next
  BY <1>2 DEF Next
<1>3. QED
  BY <1>1, <1>2

(* For any users, rooms, streams and requests, and whatever operations     *)
(* interleave or fail: a webinar token is for somebody who was admitted    *)
(* and a speaker for somebody who was made one; a stream unknown to its    *)
(* session and a user left in a closed room need the overlap or the        *)
(* failure the module names; an answer counts for the request it was given *)
(* to unless a request overtook it (Webinar, Breakout, Recording).         *)
THEOREM RoomsIsSound == Spec => []RoomsSound
<1>1. Init => RoomsSound
  BY WebinarInit, BreakoutInit, RecordingInit DEF Init, RoomsSound
<1>2. ASSUME RoomsSound, [Next]_vars PROVE RoomsSound'
  <2>1. part' = "webinar" => W!WebinarInv'
    BY <1>2, PartStep, WebinarStep DEF RoomsSound
  <2>2. part' = "breakout" => B!BreakoutInv'
    BY <1>2, PartStep, BreakoutStep DEF RoomsSound
  <2>3. part' = "recording" => R!RecordingInv'
    BY <1>2, PartStep, RecordingStep DEF RoomsSound
  <2>4. QED
    BY <2>1, <2>2, <2>3 DEF RoomsSound
<1>3. QED
  BY <1>1, <1>2, PTL DEF Spec

(* For any members, options, versions and drawings, and whatever edits,    *)
(* votes and pages interleave, fail or come late: no edit is overwritten,  *)
(* no voter has two choices and no cursor passes over an operation, except *)
(* by the overlap the module names (Collab, Polls, Whiteboard).            *)
THEOREM SharedIsSound == Spec => []SharedSound
<1>1. Init => SharedSound
  BY CollabInit, PollsInit, BoardInit DEF Init, SharedSound
<1>2. ASSUME SharedSound, [Next]_vars PROVE SharedSound'
  <2>1. part' = "collab" => C!CollabInv'
    BY <1>2, PartStep, CollabStep DEF SharedSound
  <2>2. part' = "polls" => P!PollsInv'
    BY <1>2, PartStep, PollsStep DEF SharedSound
  <2>3. part' = "whiteboard" => D!WhiteboardInv'
    BY <1>2, PartStep, BoardStep DEF SharedSound
  <2>4. QED
    BY <2>1, <2>2, <2>3 DEF SharedSound
<1>3. QED
  BY <1>1, <1>2, PTL DEF Spec

(* For any users, numbers and limits, and whatever syncs and postings      *)
(* interleave, fail or race with numbers that change hands: the address    *)
(* book follows the last match unless two syncs overlapped or a write      *)
(* failed, and a story keeps the audience it was posted to (Contacts,      *)
(* Stories).                                                               *)
THEOREM SocialIsSound == Spec => []SocialSound
<1>1. Init => SocialSound
  BY ContactsInit, StoriesInit DEF Init, SocialSound
<1>2. ASSUME SocialSound, [Next]_vars PROVE SocialSound'
  <2>1. part' = "contacts" => A!ContactsInv'
    BY <1>2, PartStep, ContactsStep DEF SocialSound
  <2>2. part' = "stories" => S!StoriesInv'
    BY <1>2, PartStep, StoriesStep DEF SocialSound
  <2>3. QED
    BY <2>1, <2>2 DEF SocialSound
<1>3. QED
  BY <1>1, <1>2, PTL DEF Spec

(* For any messages, handlers and backups, and whatever uploads, commands  *)
(* and sweeps interleave, fail or come twice: the count covers the         *)
(* holders, a link leads to the bytes announced, held media is there and   *)
(* bytes leak only by the overlap or the failure the module names; a       *)
(* completed backup stays restorable and one is kept (Media, Backups).     *)
THEOREM MediaIsSound == Spec => []MediaSound
<1>1. Init => MediaSound
  BY MediaInit, BackupsInit DEF Init, MediaSound
<1>2. ASSUME MediaSound, [Next]_vars PROVE MediaSound'
  <2>1. part' = "media" => M!MediaInv'
    BY <1>2, PartStep, MediaStep DEF MediaSound
  <2>2. part' = "backups" => K!BackupsInv'
    BY <1>2, PartStep, BackupsStep DEF MediaSound
  <2>3. QED
    BY <2>1, <2>2 DEF MediaSound
<1>3. QED
  BY <1>1, <1>2, PTL DEF Spec

(* For any pods, pushes, threshold, reminders and length of the day, and   *)
(* whatever deliveries, scans and creations interleave or fail: a push is  *)
(* dropped only behind an open breaker or another failure, no reminder     *)
(* fires twice and quiet hours go round midnight (Push, NotifyPrefs).      *)
THEOREM NotifyIsSound == Spec => []NotifySound
<1>1. Init => NotifySound
  BY PushInit, PrefsInit DEF Init, NotifySound
<1>2. ASSUME NotifySound, [Next]_vars PROVE NotifySound'
  <2>1. part' = "push" => U!PushInv'
    BY <1>2, PartStep, PushStep DEF NotifySound
  <2>2. part' = "prefs" => N!NotifyPrefsInv'
    BY <1>2, PartStep, PrefsStep DEF NotifySound
  <2>3. QED
    BY <2>1, <2>2 DEF NotifySound
<1>3. QED
  BY <1>1, <1>2, PTL DEF Spec

(* For any readers, rules, rates, requests, users and days, and whatever   *)
(* reads, writes and rollups interleave or fail: a feature is on only by a *)
(* rule that was stored; no window exceeds the burst and the rate, and the *)
(* key that expires decides like the one that is kept; the audit log gives *)
(* the status, the outcome and the refunds; a row counts nobody twice and  *)
(* everybody when nothing disturbed its rollup (Flags, Limiter, Admin,     *)
(* Analytics).                                                             *)
THEOREM PlatformIsSound == Spec => []PlatformSound
<1>1. Init => PlatformSound
  BY FlagInit, LimitInit, AdminInit, DailyInit DEF Init, PlatformSound
<1>2. ASSUME PlatformSound, [Next]_vars PROVE PlatformSound'
  <2>1. part' = "flags" => F!FlagsInv'
    BY <1>2, PartStep, FlagStep DEF PlatformSound
  <2>2. part' = "limiter" => L!LimiterInv'
    BY <1>2, PartStep, LimitStep DEF PlatformSound
  <2>3. part' = "admin" => O!AdminInv'
    BY <1>2, PartStep, AdminStep DEF PlatformSound
  <2>4. part' = "analytics" => Y!AnalyticsInv'
    BY <1>2, PartStep, DailyStep DEF PlatformSound
  <2>5. QED
    BY <2>1, <2>2, <2>3, <2>4 DEF PlatformSound
<1>3. QED
  BY <1>1, <1>2, PTL DEF Spec
=============================================================================
