# Verification of the messaging system

TLA+ models of the system in `src/`: the Go server (`src/server`, a modular
monolith `core-api`, a WebSocket tier `ws-gateway` and smaller services) and the
TypeScript clients (`src/clients`, a shared client core, a sync engine and a call
engine used by the web and mobile applications). Every definition is translated
from the source; `PROJECT.json` names the lines of each one ("map"), the runs,
the mutants that show that each property can fail, the hazards of the code and
the theorems.

The first part of this document is an inventory of the system, the second
describes the modules, the third the runs, the fourth the proofs, and the last
two what is left out and what is planned.

## 1. The system

### Parts, their state and their operations

| Part | State | Operations |
|---|---|---|
| chat (core-api) | PostgreSQL `conversations.seq`, `conversation_members`, `message_inbox`; Valkey idempotency keys | Accept (validate, window, claim, transaction, key update, push), PullInbox, AckDelivered, SubmitReceipt |
| ws-gateway | per pod: registry of connections, per connection: outbound queue, replay gate, receipt coalescer, NATS subscriptions; Valkey routes | Handle (hello, claim, add, subscribe, resume), heartbeat, displaced close, drain, receipts, feeds, cleanup |
| presence | per pod: flap timers; Valkey presence hash | Online, Offline after a grace period, announcements over NATS, subscriptions |
| fanout | bounded job queue, expected and reached devices per message | Submit, expand, insert batch by batch, aggregate receipts |
| calls | Valkey ring record and sorted set of ringing rings; `call_records` | Create, Answer, Decline, SweepMissed, HandleWebhook, History, PurgeHistory |
| push-to-talk | Valkey floor, queue, fence counter and the set of active rooms; SFU permissions | Acquire, Heartbeat, Release, SweepAll |
| client-core | connection state and timers, local SQLite (messages, outbox, cursors) | connect, flush, onInboxBatch, persistInboxBatch |
| sync-engine | cursors, outbox entries, bootstrap phases | planInboxBatch, outbox drain, conflict folding |
| call-engine | phase of the call, media connection, ICE recovery | start, accept, decline, hangup, onSignal |
| auth | `otp_challenges`, `users`, `sessions` with current and previous refresh token | RequestOTP, VerifyOTP, VerifyPIN, SetPIN, Refresh, Logout |
| devices, keys, deviceauth | devices, links, prekeys, passkeys and their challenges | LinkInit, LinkApprove, LinkComplete, Revoke, Publish, FetchBundle, Begin/FinishRegistration, Begin/FinishLogin |
| groups, communities, channels | members with roles, invite links, linked groups, events, posts, reactions, subscriptions | create, join, leave, set role, edit, post, sweep, subscribe, delete |
| payments | payments with a status machine, processed webhooks, subscriptions | checkout, HandleWebhook, refund, cancel |
| breakout, webinar | sessions, rooms, assignments, consents, participants, tokens | open, assign, close, stream, record, admit, promote, end |
| collab, polls, whiteboard | notes with versions, revisions, tasks; votes; a log of drawing operations | edit, approve; vote, close; append, sync |
| contacts, stories | contact edges, favourites, invites; stories with audience and views | sync, add, revoke; post, view, purge |
| media, backups | rows, blobs in the object store, upload sessions, reference counts | create, complete, reference, delete, sweep, reclaim |
| notify, notifyprefs | stream of pushes, push tokens, circuit breaker per pod; preferences, snoozes, reminders | dispatch, send, park; schedule, cancel, fire |
| platform: flags, rate limits | rules with a cache in front; arrival times per key | Enabled, UpsertFlag; Allow |
| admin, abuse, analytics | reports, user status, audit log; sketches and daily rows | file, resolve, suspend, refund; ingest, rollup, purge |
| ephemeral, profile, discovery, bots, AI | rows | mostly single reads and writes |

### How they interact

A client sends a message over the WebSocket; the gateway calls chat's
AcceptMessage over gRPC; chat claims the `msg_uuid` in Valkey, assigns the next
seq and writes inbox rows in one PostgreSQL transaction, then publishes one core
NATS message per recipient device. The pod that serves the device forwards it
through the connection's queue. On (re)connect the gateway replays the inbox
from chat in pages while live pushes wait behind a gate. The client stores a
batch and answers with a cumulative cursor, upon which chat deletes the rows.
Receipts travel the other way: each connection coalesces them and hands them to
chat once per window, which relays them to the peers. Presence and routes live
in Valkey and are refreshed by heartbeats; a connection opens feeds of other
users' presence and of channels as NATS subscriptions. Calls and push-to-talk
keep their state in Valkey and signal devices over NATS; media goes through an
SFU that reports back with webhooks.

Whom chat delivers to is `conversation_members`, which groups mirrors from
`group_members`. Signing in (auth) creates devices and sessions; revoking a
device ends its sessions and deletes its prekeys. Communities create their
announcement group through groups; channels and the admin console charge and
refund through payments, whose webhooks come from the processor, more than once
and in any order. Messages refer to media objects, and a deleted message drops
its reference over NATS. Pushes for absent devices wait in a durable stream for
the notification service.

### What is hard

Nothing in this system is a distributed transaction. PostgreSQL is the only
place with atomic multi-row changes; Valkey operations are atomic one at a time
(or one Lua script at a time); NATS may lose messages; every handler may be cut
off by a deadline or a crash between two of these, and handlers of several pods
run at the same time. Most services of the core-api read a row, decide on it and
write it back without a condition. The clients are single-threaded but await
storage and network in the middle of their handlers. The hazards in
`PROJECT.json` are therefore mostly of these kinds: a read, a decision and a
write with other handlers in between; one of several steps failing; timers that
race with the event that should cancel them; cumulative acknowledgements over a
lossy transport; caches filled with what has just been replaced; sweepers that
every replica runs; state kept after an await.

### What makes each part correct

* chat: an acknowledged message is durable, seqs are dense, a `msg_uuid` is
  accepted once, a retry never hurts, every send settles.
* delivery: an inbox row is deleted only when the client has the message; the
  replay is in order and complete.
* gateway: a registry entry belongs to a live connection; one connection of a
  device is served in the end; 4409 is sent only to a connection that a newer
  one replaced; receipts are not lost, and a hidden read stays hidden; feeds
  close with their connection and open only where privacy allows.
* presence: whoever is shown online has a connection or a pending offline.
* fan-out: every announced device gets its row, and the group tick means all.
* WebSocket client: one socket and the timers of its state; Hello first; live
  again after any failure; every send acknowledged in the end.
* message store: ack after persist; the saved cursor never skips an item.
* ring: one answer, one way through the states, no ring for ever, history kept.
* call session: media exactly while the call is connected.
* floor: one speaker, first come first served, fences that never repeat.
* sign-in: bounded guesses, the PIN cannot be bypassed, one device per
  challenge; sessions end with their device, a refresh token has one successor.
* keys: a one-time prekey is handed out once, a passkey challenge serves once,
  a cloned authenticator is noticed.
* groups, communities, channels: messages go to exactly the members, one owner,
  nobody is demoted by an equal, a post is announced once.
* payments: money and entitlement agree, whatever order the webhooks come in.
* rooms: only the admitted get tokens, no stream runs that nobody can stop,
  consent is asked for every recording.
* shared writing: no accepted edit, vote or stroke disappears silently.
* media and backups: what is referenced is there, what is not goes away, the
  last complete backup survives.
* notifications: a push is delivered or parked, a reminder fires once.
* platform: a switched-off feature is off, the rate holds in both backends, the
  audit log explains every status, daily figures are exact.

## 2. The modules

One module per component. The theorems stand in eight modules: PttFloorProofs
for the floor; MCChatAccept, MCRelay, MCGateway, MCCalls, MCAccounts and
MCServices, each after the instance it is about, so that they are theorems about
the very specification the run checks, with the constants left open; and
Operations, which MCServices extends and which declares the constants, variables
and instances of eight of its services (media, backups, push, notification
preferences, flags, limiter, admin, analytics) with the lemmas about them.
Where a module
has an invariant `Inv`, it is the type invariant together with the structural
facts of that module, each a named conjunct. The operator that ends in `Inv`
and bears the component's name (`LoginInv`, `SessionInv`, `StoreInv`, ...) is
the inductive invariant: what the component promises and, as named conjuncts
after it, what handlers, goroutines, batches or messages under way have read and
not yet written. The runs check this one, the proofs establish it. A
definition whose comment begins "Mutant of" is a deliberately wrong variant of
the definition below it; no specification uses it.

The modules of the server's services follow one pattern. A running handler is a
record `job[h]`: what it has read and which call it makes next. Every database,
Valkey, NATS or provider call is an action of its own, a transaction is one
action (or one per statement where READ COMMITTED lets others in between, as in
Prekeys and Polls), and `Abandon` or a fault ends a handler between two calls.
Variables whose comment says "history" record that handlers overlapped, or
that a call failed; they serve the invariants alone. They let an invariant say
"unless" precisely: the property fails only after the overlap that the code
does not exclude, and without it never.

### Messages

**ChatAccept** (`chat/service.go`, `chat/adapters/{grpc,pg,valkey,nats}.go`,
`chat/domain/window.go`). State: the dedupe key of each message, the
conversation row with its lock, the committed inbox, per RPC its program counter
and answer. One action per store operation of `Service.Accept`: the overlay
window, the membership check, the claim, the transaction with its row lock, the
key update or release, the push, the answer; plus key expiry, membership changes
and faults (store error, lost answer, deadline, crash). After a deadline the
context is cancelled, so the compensating Valkey calls fail too: this is in the
model because it is what the code does. **MCChatAccept** gives TLC its message
records and the symmetry.

**Delivery** (`gateway/{server,replay,conn}.go`, `chat/adapters/pg.go`,
`client-core`). State: inbox rows, pushes in flight, the connection with its
page position, gate buffer and queue, the client's stored messages and cursor,
acks in flight. Accepting is one step here, justified by ChatAccept. Pushes may
be lost and may overtake each other. `Inv` adds ReplayInOrder.

**WsClient** and **ClientSession** (`client-core/src/wsClient.ts`,
`web/src/platform/wsTransport.ts`). WsClient has the states, timers and sockets
of the client, and the continuations of `flush` and `onInboxBatch`. ClientSession
is the abstract contract: off, waiting or connected, with at most one socket,
every socket new, and a closed client off until it is started again; the
property `ImplementsSession` says that WsClient implements it. `Inv` adds
TimersMatchState.

**MessageStore** (`client-core/src/db/messageStore.ts`,
`sync-engine/src/cursors.ts`, `appServices.ts`). State: the server's rows,
cursor in memory and on disk, messages on disk, the running
`persistInboxBatch` calls with the writes they have still to make (a set;
`NextWrite` takes the inserts in seq order, then the overlays), acks. `Inv` adds
CursorAfterPersist. The history variable `peak` is the highest cursor ever
saved: each batch writes its own watermark, so a batch that finishes late takes
the saved cursor down again, while the server has deleted by the higher one.

**MCRelay** puts these last three (Delivery, WsClient, MessageStore) on one
instance, and states the refinement of ClientSession.

### The gateway

**GatewaySession** (`gateway/{server,registry,conn}.go`,
`gateway/adapters/{valkey,nats}.go`). State: per connection the step of
`Server.Handle`, its subscriptions, close code and socket; per pod the registry;
the route key; the client processes of the device, which never reconnect after
4409. Claim, Add, Subscribe, Remove and Release are separate steps, and so are
the goroutines that close a displaced connection and that heartbeat. `Inv` adds
RegistryExact (an entry is a connection between Add and Remove) and FeedsClosed.

**Presence** (`presence/flap.go`, `presence/adapters/valkey.go`,
`gateway/presence.go`). State: per connection its step and its timer, per pod
the registered timer of each device, the hash, the last announcement. A timer
callback that has started and waits for the lock is a state of its own: Stop
does not stop it. `Inv` adds RegisteredIsPending. The history variable `crossed`
says that a connection came while an earlier one of the device was open or its
timer was pending on another pod, or that a callback took the timer of a later
connection for its own.

**Receipts** (`gateway/receipts.go`, `chat/receipt.go`, `chat/coalesce.go`).
State: per connection the pending watermarks and what the flush has taken; the
user's setting; what the peers were shown. Lossless, PrivateReads and
WatermarkRises.

**Feeds** (`gateway/presence.go`, `gateway/channels.go`,
`presence/subscriptions.go`). State: the tracked users, the recorded
unsubscribe functions, the NATS subscriptions, the presence in Valkey and what
is on the wire. NoLeak, PrivateUntilAllowed, ShowsPresent.

**Fanout** (`fanout/{fanout,pool,receipts}.go`). State: queue, workers, inbox
rows, expected and reached devices. EveryDeviceCovered, TickIsAll.

**MCGateway** is the instance of these five.

### Calls

**CallRing** (`calls/service.go`, `calls/domain/ring.go`,
`calls/adapters/valkey.go`). State: the record, the sorted-set index, the
history row, per handler what it read, per party the phase its client shows,
the room, the webhooks sent. Read, write and history upsert of a handler are
separate steps. `Inv` adds IndexExact and CompletedWasAnswered.

**CallHistory** (`calls/adapters/pg.go`, `calls/service.go`). State: the records
and a client's walk through the pages. WalkSound.

**CallSession** (`call-engine/src/{callSession,callState}.ts`,
`web/src/call/liveKitRtc.ts`). State: phase, the requests awaited, the steps of
`connectMedia`, the media connection. call-ctl never fires its busy and cancel
events, so they are not inputs here.

**PttFloor** (`ptt/service.go`, `ptt/adapters/{valkey,nats,sfu}.go`,
`ptt/domain/floor.go`). State: the three keys as one record, the sweep index,
SFU permissions by fence, the last frame of each device, and per running handler
the list of calls it has still to make; the history variable `crossed` says that
a handler started while another had calls to make. The Lua script is one step; every call
after it is another. The `Domain` operators translate the in-memory algorithm on
the same record, so that `ScriptMatchesDomain` compares the two in every reachable
state: acquire and sweep always, heartbeat and release while the lease runs (on
a lapsed floor they differ, see below).

**MCCalls** is the instance of CallSession, CallRing and CallHistory; the floor
has a run of its own.

### Accounts and shared spaces (instance: MCAccounts)

| Module | Source (under `server/internal/`) | State | What its invariant says |
|---|---|---|---|
| Login | `auth/service.go`, `auth/domain/otp.go`, `auth/adapters` | the challenge row, the users row, handlers | AttemptsBounded: wrong guesses exceed the maximum only by handlers that had already read the row and by increments that failed; PinHolds: no registration without the PIN unless the sign-in began before there was one; OneGrant: one registration per challenge unless a stale row was written |
| Account | `auth/service.go`, `auth/adapters/pg.go`, `devices/` | devices, sessions with current and previous token, links | OnePrimary; DeviceCap (exceeded by at most the approvals that counted side by side); DeadDevices: a revoked device has a session only by completing a link afterwards; NoFork: a refresh token has one successor |
| Prekeys | `keys/` | signed and one-time prekeys, the fetches with their row locks | PrekeyOnce: a one-time prekey is handed out once, repeated uploads and rollbacks included |
| Passkeys | `deviceauth/` | challenges, credentials with their counters | ChallengeOnce; ReplayNeedsLostWrite: a counter passes twice only if a write was lost or crossed; CredCap |
| Groups | `groups/` | group, members with roles, mirror, invite, edit policy | MirrorExact: messages go to exactly the members; OneOwner; AdminsFallToOwner; CapNeedsOverlap; InviteBound; EditsAllowed |
| Communities | `communities/` | community, announcement group, members, linked groups, events | OneOwner unless creation was cut short or overtaken; NothingLeft of a deleted community |
| Channels | `channels/`, sweep in `cmd/core-api/main.go` | channel, members, posts, announcements, reactions, charges, subscriptions | OneOwner; ToldOnce unless two sweeps overlap; MarksArePublic; PaidIsSubscribed unless the handler died in between |
| Payments | `payments/`, `admin/payments.go` | rows, the processor, webhooks sent and processed, entitlement | MoneyRecorded; GrantsArePaid: redelivered and reordered webhooks never grant twice or unpaid; StuckNeedsFault; AuditIsTrue |

### The other services (instance: MCServices)

| Module | Source (under `server/internal/`) | State | What its invariant says |
|---|---|---|---|
| Webinar | `webinar/` | webinar, participants, tokens minted | TokensAreGranted: only to the admitted, publishing only to speakers; HostStays |
| Breakout | `breakout/` | session, rooms, assignments, stream reference, running streams | NoOrphanStream and CalledBack, unless operations overlapped or a call failed |
| Recording | `breakout/` | consents with the request they answer, recording state | AskedAgain: the tally counts answers to the last request only, and nobody twice |
| Collab | `collab/` | note with version and approval, revisions, task | LostNeedsOverlap: an accepted edit is overwritten only by an overlapping one; HistoryWhole; ApprovalStands |
| Polls | `polls/` | poll, rows of votes, transactions under way | OneChoice: one option per voter, and as many rows as voters, unless two votes of one voter overlapped; ClosedIsFinal except for votes being written |
| Whiteboard | `whiteboard/`, `web/.../whiteboard.ts` | the log, per client its operations and cursor, requests under way | NothingInvented; MissedCameLate: a cursor passes an operation only if it was stored late or a page was cut between equal seqs |
| Contacts | `contacts/` | holders of numbers, edges, daily budget, invite, favourites | EdgeIsLastFound |
| Stories | `stories/` | contacts, story with its audience, views | AudienceFrozen; NoViewOutlives |
| Media | `media/` | row, blob, session, references, sweep, delete commands | LinksWork; RefsCoverHolders; HeldMediaIsThere; LeakNeedsFault |
| Backups | `backups/` | rows, blobs, handlers that reclaim | AlwaysRestorable; OneActive |
| Push | `notify/` | stream, tokens, breaker per pod, handlers | DropNeedsBreaker; WedgeNeedsDeadToken |
| NotifyPrefs | `notifyprefs/` | reminders, quiet hours, snooze | FiresOnce; CapHolds; QuietIsTheWayRound: quiet hours are compared with a walk around the clock |
| Flags | `platform/flags/`, `admin/flags.go` | rule, cached entry, readers, writers | OnIsWritten: a feature is on only for a subject for whom a stored rule says so, whatever the cache holds and however lookups fail; CacheIsFresh |
| Limiter | `platform/ratelimit/` | clock, arrival time in memory and in Valkey | RateHolds in every window; BackendsAgree; RetryIsExact |
| Admin | `abuse/`, `admin/` | report, user status, rows of the audit log | AuditExplains: the log explains the status of the account, the outcome of the report and the refund; TombstoneStays; RolesHold |
| Analytics | `analytics/` | sketches with expiry, daily rows, rollups | RowsExact: a row never counts more users than were active, and all of them once an undisturbed rollup has written it; sign-ups are neither lost nor doubled |

### How the instances are put together

MCRelay, MCGateway, MCCalls, MCAccounts and MCServices each instantiate several
components and choose one of them in the initial state by the variable `part`;
the variables of the others stay where they started (or at `Off`). The
components of one instance keep separate state: an interleaving of two of them
reaches no combination that matters to either, and where one depends on
another's steps it models them as its environment (the client's acks in
Delivery, the ring's frames in CallSession, the processor in Payments, the
writes of another user in Groups). A property of such an instance is therefore
a conjunction of implications `part = "x" => X!...`, one per component, and
fairness is conjoined with `part = "x"` for the same reason. Mutants change
definitions of the component modules, so a broken component breaks the
conjunct of its instance.

## 3. The runs

What each property says is in the comment above it, and `PROJECT.json` has for
each one a mutant of the model that TLC refutes.

| Run | Instance | Properties and what they show |
|---|---|---|
| accept | 2 concurrent calls, a plain send and an edit, 1 fault | DurableFirst: acknowledged and pushed implies durable; SeqsDense; AtMostOnce: accepted once unless a key expired or a COMMIT went unanswered |
| accept_live | 1 send, 2 faults, retries | EverySendSettles: acknowledged or rejected in the end |
| relay | 3 messages in 2 conversations, batch and queue of 2, buffer of 1, 1 break; 3 sockets, 2 sends, 1 continuation, 1 transient error; 5 items (1 overlay), 2 jobs, 2 crashes, 1 failed write | DeliverySound: replay in order, only a message whose push was overtaken can be lost; ClientSound: timers match the state, Hello first; StoreSound: the cursor on disk never skips an item, and only a write given up behind an advanced cursor loses one; ImplementsSession; RelayLive: EventuallyStored, LiveAgain, EverySendAcked, EventuallyPersisted |
| gateway | 2 pods, 2 connections, 2 clients, 3 faults; presence: 3 connections of a device, 1 fault; receipts: 2 connections; feeds: cap of 1; fan-out: 3 devices, 2 workers, queue of 1 | SessionSound: registry exact, no subscription left behind, the causes of a 4409; PresenceSound: somebody will remove what is in the hash, a flap needs crossing connections; FeedsSound; FanoutSound; GatewayLive: OneServedInTheEnd, RouteSettles, ShownOfflineInTheEnd |
| calls | 2 placed and 2 offered calls; 2 callee devices, 2 handlers, 1 fault; 4 records, pages of 1 | MediaFollowsCall: a connected call has media, and none is joined before the answer; PhaseForward; ConnectingEnds; RingSound; RingOneWay: only a stale write leaves the one-way machine; RingEnds: no ring rings for ever and the outcome is kept; HistorySound |
| floor | 4 devices, queue of 2, one handler at a time, 1 fault | QueueSound; FenceNamesOne; NoOvertaking; ScriptMatchesDomain; EffectsAgree: without faults and crossing handlers microphones, frames and sweep index agree with the floor; WaitersServed |
| accounts | 2 overlapping handlers and 1 fault in each service | LoginSound, AccountSound, KeysSound, GroupsSound, CommunitiesSound, ChannelsSound, PaymentsSound: the invariants of the first table above |
| services | 2 overlapping handlers (or pods) and 1 fault in each service | RoomsSound, SharedSound, SocialSound, MediaSound, NotifySound, PlatformSound: the invariants of the second table |

Four runs end in a violation. Each checks one sentence of a comment, and the
finding of the same run quotes it:

| Run | What the trace shows |
|---|---|
| delivery_no_loss | "A publish failure is a latency event, never a loss event": a push lost before a later one, the cumulative cursor moves past it and AckDelivered deletes the row nobody holds |
| store_ack_after_persist | "the cursor only advances once a message is durably stored": two batches are persisted at the same time, and the watermark of the one that finishes first covers the other |
| history_pages | "history pages by a simple id keyset cursor": the page drops its extra row and uses its id as the cursor, the next page asks for smaller ids, and the record at the boundary is on neither |
| push_outage | "a provider outage never drops a push": the open breaker sends a push back at once, without counting, until the stream has used up its deliveries |

### Observations without a run of their own

Traces met while the properties were being stated, and behaviour noticed while
reading the code for the model. Where the model has the behaviour, the property
that would forbid it is weakened by exactly this case or is not stated.

* chat: once the key of a message is gone, a retry gets a second seq, because
  the primary key of the inbox contains the seq (AtMostOnce excludes it); a
  retry of an accepted edit is rejected when the edit window has passed in
  between, because the window is judged before the key is looked at.
* gateway: on a reconnect to the same pod, the cleanup of the old connection
  releases the route that the new one has just claimed; the new one then finds
  itself unowned at a heartbeat (the exception in ReplacedByNewer).
* presence: a cleanup later than the reconnect arms a timer that nobody
  cancels, and the device is shown offline while connected (FlapNeedsCrossing);
  a callback that was already running when it was stopped fires in place of the
  next timer. The snapshot of a feed can overtake a live update and then hides
  it (ShowsPresent); privacy is judged only when the feed is opened.
* receipts: the watermark the peers see can step back across windows and
  connections (WatermarkRises).
* fan-out: a failed job is only logged and lost, though its comment says that it
  redelivers; a retry that finds other devices changes the expected total
  (TickIsAll). No command wires the package.
* WebSocket client: a send answered with a transient error is not sent again
  before the next reconnect (the exception in EverySendAcked).
* message store: a write that fails is not tried again although the cursor has
  moved; an ack lost with its connection is not repeated until the next batch.
* ring: Answer, Decline and SweepMissed write back the record they read, so a
  sweep can overwrite an answer and two devices can both be told that they
  answered (RingOneWay names these stale writes); a decline is told to the
  caller but not to the callee's other devices.
* call session: hanging up while connectMedia is awaiting leaves the room joined
  after the call; a session whose call has ended ignores later offers.
* floor: a heartbeat or a release that meets a lapsed floor evicts its holder in
  the script but not in the domain algorithm, and the answer does not name the
  evicted device, so that its microphone stays on (the exception in
  EffectsAgree); the sweep index is checked and then removed in two steps, so a
  busy room can be left out of it; nothing enforces the maximal length of a
  turn.
* sign-in: VerifyOTP checks and then marks, so overlapping handlers register two
  devices on one challenge, and a slow MarkVerified revives a challenge the PIN
  step has consumed (OneGrant); attempts exceed the maximum by overlapping
  handlers and by increments whose error is ignored (AttemptsBounded); a
  challenge is consumed even when the registration is refused.
* sessions and devices: a refresh whose answer is lost is judged as reuse when
  it is repeated and revokes the session; only one generation of rotated tokens
  is remembered. LinkApprove counts devices outside its transaction (DeviceCap)
  and accepts a revoked approver; LinkComplete mints a session for a device that
  was revoked after the approval, and two when polls overlap (DeadDevices); no
  primary is left after the primary was revoked; a revoked device may publish
  prekeys again.
* passkeys: the counter is written unconditionally (ReplayNeedsLostWrite); a
  mismatched or expired answer uses up its challenge.
* groups: `who_can_post` and announcement groups are stored and never enforced;
  the owner can neither leave nor hand the group over, although the
  documentation names leaving as the way; the cap is read outside the
  transaction (CapNeedsOverlap); an admin may remove a member who was promoted a
  moment ago (AdminsFallToOwner).
* communities and channels: creation is two or three calls, so a failure leaves
  an orphan announcement group or a community or channel without owner, and so
  does a creator who joins before his row is written (OneOwner); a private
  community or channel can be joined by nobody; AddGroup checks neither that the
  group exists nor a role in it; joining a community does not join its
  announcement group.
* channels: PublishDue does not look at the row again, so two replicas announce
  a post twice and a deleted post is published (ToldOnce); Subscribe charges
  before it stores and charges again whoever has subscribed already.
* payments: the processor's reference is never stored; cancelling ends access at
  once; an event is marked as processed before its effects (StuckNeedsFault); a
  refund does not end the entitlement; a refund that is told before the success
  is ignored and the success applied later; the audit row of a refund may be
  missing.
* webinars: who left cannot come back without being admitted again; tokens are
  minted after the end, and those of demoted speakers stay valid; the host may
  deny himself.
* breakout rooms: StartEgress checks and then acts (NoOrphanStream); the host's
  operations are accepted after the session has ended; StartRecording ignores
  consent; a consent on its way survives a reset (AskedAgain).
* notes: overlapping edits lose one of them, and the second revision of a
  version is refused and the error ignored; editing does not reset an approval,
  and overlapping decisions overwrite one.
* polls: overlapping votes of one voter leave two choices (OneChoice); a vote
  under way at the closing still counts.
* whiteboard: a cursor over seqs that clients assign misses for ever what is
  stored later with an equal or lower one, and a page cut between equal seqs
  loses the rest (MissedCameLate); an append is not retried.
* contacts: the uses of an invite are never counted; a number that matches
  nobody keeps its old edge; overlapping syncs may write the older match.
* stories: at the very instant of `expires_at` View lets in, Feed leaves out and
  the purge keeps; the author is always in the audience, so the check for an
  empty one never fires.
* media: AddRef has no caller, so every object is swept 30 days after its
  completion; a crash between the object's completion and MarkComplete cannot be
  retried and leaks the bytes (LeakNeedsFault); the dedupe mark precedes DecRef;
  quota is never given back; the hash is compared for single-part uploads only.
* backups: overlapping completions reclaim each other, and an older upload that
  completes last deletes the newer one.
* push: a half-open probe whose token is refused is never recorded and wedges
  the breaker (WedgeNeedsDeadToken); a 401 of the provider is treated as a dead
  token; a failed dead-letter publish on the last delivery loses the push.
* notification preferences: FireDue and Route are wired nowhere; the cap counts
  fired rows and is checked before the insert; two scans hand a reminder out
  twice (FiresOnce).
* flags: a reader that fills the cache after the writer's removal hides a change
  for up to 30 s (CacheIsFresh); a kill switch blocks every POST below its
  prefix.
* admin: a suspension is audited although its target was deleted meanwhile.
* analytics: activity after the last tick before midnight is never rolled up;
  overlapping pods may write the older figure (RowsExact).

### Bounds

Two of everything that can race (handlers, pods, batches, calls) and three or
four where a third party changes the picture (connections in Presence, so that a
cleanup meets a reconnect and its successor; devices in the floor, so that a
full queue can be overtaken; devices in Account, so that two approvals pass a
cap of two; sockets, so that a late event of the first meets
the third; users in Groups, so that a member can be promoted by
one and removed by another; handlers in Communities (`CommunityHandlers`), so
that a join and a failure meet a creation; records in CallHistory, so that a walk has several
page boundaries). The floor runs one handler at a time: four devices with two
overlapping handlers are more states than a run can visit. What overlapping
handlers add is the race of the observations above, the last calls of one undoing
those of the other; `crossed` marks it, EffectsAgree and WaitersServed claim
nothing once it is set, and the theorems about the floor hold for any number of
overlapping handlers. In Delivery `MaxTotal` bounds the messages of all
conversations together. Queues, pages, buffers, device, member and reminder caps
are 1 or 2, so that their limits are reached. Faults are counted and bounded
(`MaxFaults`, `MaxBreaks`, `MaxCrashes`, `MaxFails`, `MaxTransient`); one fault
is enough for every state the handlers can be left in, and where recovery can
itself be disturbed there are two or three. `MaxFence` bounds the turns granted
or waited for; only Acquire is guarded by it, so that no promotion is ever
blocked by the bound. `MaxMarks` counts reactions and comments under way too.
`MaxTokens`, `MaxCharges`, `MaxMoves`,
`MaxWrites`, `MaxSends`, `MaxFlips`, `MaxSubmits`, `MaxEvents`, `MaxActions`,
`MaxRequests`, `MaxStreams` and `MaxVersion` bound how often a user acts. The
limiter's clock runs to 12 with an emission interval of 3 and a burst of 3: the
key expires (whole seconds of 2 units) and is written again on the way.

Symmetry (of handlers and users) is used in the runs accept, accounts and
services, which check safety only. Deadlock checking is off where a system may
come to rest (all sends settled, all bounds used up).

### Fairness

A running handler takes its next step (goroutines and JavaScript tasks are
scheduled); timers, tickers and TTLs fire; an open socket with a live peer
delivers. No user action, request, fault or webhook is fair, with one
exception: accept_live assumes that a sender keeps retrying, which the client
outbox does on every reconnect. Strong fairness is used where the code repeats
an attempt that other steps can interrupt again and again: client reads and acks
in Delivery (the client reconnects for ever and breaks are bounded), retries and
key expiry in ChatAccept (a 24 h TTL is not reset), and the floor ticker (it
fires every second, and only the model lets handlers wait for each other). The
instances MCRelay, MCGateway and MCCalls assume the fairness of a component
where that component runs. The runs accounts and services assume none.

## 4. The proofs

TLAPS proves these for every value of the constants, from the named assumptions
of the modules: bounds are naturals, sizes and limits that the code fixes at one
or more are not zero, "none" values are not members of what they are none of,
and the sets whose members are counted (handlers, users, devices, credentials)
are finite. TLC evaluates the assumptions in the runs. Fairness is in none of
them, and no theorem depends on the bounds of the runs.

Every proof of an invariant has the same outline: the initial states satisfy the
inductive invariant, one lemma per action (or per group of actions that change
the same variables) says that it is kept, and the theorem puts the lemmas
together. In the instances a lemma `PartStep` (or the like) first says what a
step of the instance is for each component.

**MCChatAccept** — `TypeCorrect`, `AcksAreDurable`, `SeqsAreDense`,
`AcceptedAtMostOnce`. The inductive invariant is TypeOK and LockInv (a call in
the transaction holds the row lock, and nobody else is between reading and
writing the seq), SeqsDense (committed seqs are 1..head), AnswerInv (the seq a
call is about to answer with is committed for its message), AckIsDurable and
PublishedIsDurable, ClaimInv (a key names a committed seq, and a call past its
claim is the only one, unless a key expired or a COMMIT went unanswered), and
AtMostOnce. Without LockInv two calls could assign the same seq; without
ClaimInv a second call could pass the claim.

**PttFloorProofs** — `FloorTypes`, `QueueStaysSound`, `ScriptFollowsDomain`,
`NobodyOvertaken`, `FencesNameOneSpeaker`, `EffectsFollowFloor`. The argument is
about the script: from
a sound room (typed, nobody waits twice, the holder does not wait) every action
of the script leaves a sound room, keeps the order of the queue, either keeps
speaker and fence, frees the floor or uses a new fence, and names in its answer
only the new holder with its fence. Soundness is what makes script and domain
agree: the script removes a granted device from the whole queue, the domain only
from its head. For the fences, each step adds no claim of a speaker to a fence,
or claims for one device under the next number.

EffectsFollowFloor (EffectsAgree) rests on OneSettles: while nothing has failed
and no handler has started beside another, at most one handler runs, and the
calls it has still to make settle microphones, frames and index. That is, on each
device the last call of a kind still to come fits the room as it is, and where
none is to come, the device's microphone or frame fits already; a busy room is
listed or about to be; the queue is looked at only when the floor is free and the
index entry removed only when the room is idle. An operation's plan touches the
device demoted, the one promoted and the caller, so the lemmas about a plan name
these and leave the other devices to the state before; making one call removes
it from the front of the plan, and either it was the last on its device, then
the device fits, or a later one decides.

**MCRelay** — four theorems:

* `DeliveryIsSound`. ReplayInOrder needs GateFits: until the gate opens,
  everything on the connection came from the scan, so the gate's watermark is
  what was enqueued. LossNeedsOvertaking needs FramesFit (what precedes an item
  on the connection is with the client, queued no later, or was overtaken) and
  CursorFits (what the client's cursor and the acks cover it has, or it was
  overtaken): the row of a message goes only by a cumulative ack, so a loss is
  traced back from ack to cursor to frame to the push that jumped the queue.
* `ClientIsSound` with SocketFits: the current socket has not been given up, a
  live client's socket is open, and one on which frames can go out has had its
  Hello.
* `ClientImplementsSession`, the refinement: the mode of ClientSession is
  computed from the client's state, its socket is the transport and the used
  sockets are those that left the unopened state. Initial states map to initial
  states, and under ClientInv every action maps to a step or a stutter.
* `StoreIsSound`: CursorsFit says that no cursor, in memory, saved at any time or
  on its way to the server, is past an item the client has not dealt with;
  WireFits says the same of what a connection has sent, so that a gap is always
  ahead on the wire. Both properties of the store follow from the two.

**MCGateway** — four theorems:

* `SessionIsSound`: ConnExact (a registered connection is its pod's entry, or
  is closed or about to be), FeedsExact (subscriptions are made in order after
  Add and undone at the end), RouteExact (whoever claimed the route has it unless
  another claimed it later or shares the pod), the last being what the causes of
  a 4409 rest on.
* `PresenceIsSound`: without faults a device in the hash is let in, has a
  registered timer or is about to be taken out; without a crossing one
  connection of a device is let in at a time and a running timer is registered
  while its device is away (Orderly).
* `FeedsAreSound`: a receipt's highest seq is pending, taken, being relayed or
  relayed (Accounted), in order without a crossing (InOrder); the users tracked
  are those with a feed and those the loop has still to open (Tracked), and the
  present state of a user is the last thing shown, on the wire, about to be
  published or about to come with the snapshot (FeedFits).
* `FanoutIsSound`: an announced set is inserted, or a worker is at it, or a call
  failed (Served), and as long as one set was announced the expected total is
  its size (OneTotal).

**MCCalls** — six theorems. `SessionTypes`, `MediaIsRight`, `PhasesGoForward`:
the invariant is TypeOK, AwaitsFit (which awaits can be pending in which phase)
and LinkNeedsAnswer (connectMedia runs only for an answered ring). `RingIsSound`,
`RingGoesOneWay`, `HistoryIsSound`: a handler that
will write holds a record that accepts its event (OpFits), and a record names a
device only once an answer was written (NamesAnswerer). For the action property
each write is shown to follow an arrow of `domain.Next` from the record that was
read, so that it leaves the machine only if somebody wrote in between. For the
history WalkFits splits what stayed into listed, used as a cursor and still
below the cursor.

**MCAccounts** — seven theorems, one per property of the run:

* `LoginIsSound`: every wrong code was counted or its count failed, and no
  handler joins those that judge once the count is at the maximum
  (GuessesCounted); a challenge no stale row was written to is used up by the
  one handler that registers on it (UsedUp).
* `AccountIsSound`: sessions and links name their devices, no two sessions share
  a token and a replaced token is current nowhere (TokensUnique), and active
  devices and approvals under way are counted together (ApprovalsCounted).
* `KeysAreSound`: a claimed prekey is free and claimed by one call (ClaimsHold);
  a passkey challenge is taken by the one handler that works on it (TakenOnce),
  and unless a write was lost the stored counter is at least every counter that
  passed (CountersKept).
* `GroupsAreSound`: the target of a pending removal or role change is not the
  owner whatever has happened since (JobFits), a join holds the invite alone
  (JoinHolds), and nobody is left of a group that is not live.
* `CommunitiesAreSound` and `ChannelsAreSound`: one handler creates, and unless
  the creator was there before his row no change of the owner's role is under
  way (OwnerSafe, Crowned); each handler announces a post once, and only one
  does unless two had picked it (Announced); every charge is stored or about to
  be until a handler has died (ChargesKept).
* `PaymentsAreSound`: a webhook says what the processor did (EventsAreTrue), an
  event is worked on by one handler after it was recorded (HeldOnce), and what a
  handler decided is still allowed when it writes (WritesAreDue).

**MCServices** with **Operations** — six theorems, one per property of the run.
Most services have a JobFits (what a handler holds was true when it read it and
is still true where it matters); the parts that carry the argument are:

* `RoomsIsSound`. Webinar: whoever's row says admitted was let in by the
  host, and no write under way changes the host's own role. Breakout: without an overlap
  one handler is at the stream and knows of all that runs (OneAtTheStream), and
  users are sent to open rooms or are about to be called back (InOpenRooms).
  Recording: an answer under way belongs to the present request, or a request
  overtook it.
* `SharedIsSound`. Collab: until a write fails every version an edit is based on
  has its revision or somebody is writing it (AllCovered), and without an overlap
  an edit is alone with the note's version and a decision alone with the task
  (EditsAlone, DecisionsAlone). Polls: a voter whose votes did not overlap has one
  under way, and once it has read the rows to delete they stay (VotesAlone).
  Whiteboard: a cursor stands at the start or at an operation of the log
  (Reached), and a reply passes over nothing its client will not know (ReplyFits).
* `SocialIsSound`. Contacts: without an overlap or a failure every sync that is
  writing a number writes what was found last (EdgeFollows). Stories: one handler
  posts, with the audience chosen when it began (OnePosting).
* `MediaIsSound`. Media: the count covers the holders, the commands on their way
  and those being applied (RefsFit); the sweep deletes what it found unreferenced
  or was overlapped (SweepFits); an object without a complete row is in a
  handler's hands, or one has failed (ObjectMarked). Backups: a row to come is
  with one handler (RowsToCome), two complete backups are there only while one of
  them is being reclaimed (Reclaiming), and nobody is about to delete the bytes
  of the one that is kept (Spared).
* `NotifyIsSound`. Push: while nothing besides the provider has failed, a message
  that is out is with one pod, which knows how often it was handed out, and goes
  back only to be handed out again, or behind the breaker (HeldOnce). NotifyPrefs:
  one handler inserts a reminder, with room for it unless its count was outdated
  (CreatesFresh), and a due reminder is with one scan unless two crossed
  (ScansAlone); that the comparison of minutes is the walk around the clock is
  arithmetic over any length of the day.
* `PlatformIsSound`. Flags: every rule anyone holds, cache included, was stored.
  Limiter: every admitted event has pushed the arrival time on by one interval
  (Pushed), which bounds the events of any window, and the key goes only once it
  no longer matters, which makes the two backends agree; both rest on lemmas
  about rounding up to whole seconds. Admin: a payment is reversed once, and its
  row of the log is to come, lost or there (OnceEach). Analytics: a sketch is
  complete for as long as a window needs it (SketchFits), and a day to come has
  neither users nor a row (Ahead).

### What the proofs changed

Ten properties held on the small instances and were not true, or not provable,
in general. Each was corrected where it is stated, and the runs check the
corrected form:

* Account: the devices of a user can exceed the cap by as many as there are
  handlers, not one fewer: a sign-in can register one more device while every
  handler is between its count and its approval.
* Communities and Channels: what can overtake the creation is a join of the very
  user who is to be owner (`Crowns`, `Joining`), recorded by the join itself.
* Payments: an acknowledged event counts as handled while its handler holds it
  (`Holds`), whatever other handlers do to the same payment.
* Presence: with four connections of a device on one pod, a callback that had
  started before it was stopped takes the timer of a later connection for its
  own, and a flap follows without two connections ever being open together;
  `crossed` records this case as well.
* MessageStore: with three batches at a time a saved cursor goes down, because
  each batch writes its own watermark; after a crash the client resumes from
  the lower one while the server has deleted by the higher one. Loss is
  therefore judged against the highest cursor ever saved (`peak`).
* Analytics: the time to live of a sketch is the window and 7 days
  (`analytics/adapters/valkey.go:24`), so a rollup that comes later still merges
  fewer days and leaves the month's count low; the days of the run end before
  that. `behind` records such a rollup, and with that the counts are exact
  whether or not the row is still kept.
* Polls: the tally is a count of rows, so that a voter's two rows count twice;
  that the total is the number of voters needs that no two votes overlapped.
* Admin: the log is judged by the positions of its rows (the last that bears on
  the status, the only one that resolves the report), which says the same as
  replaying it and can be reasoned about.
* PttFloor: EffectsAgree was checked with one handler and false with two; with
  `crossed` it says when, and holds for any number.

### Only model-checked

Every safety invariant and every action property of the passing runs is stated by
a theorem. Liveness under fairness is out of the prover's reach and stays with
TLC: accept_live, RelayLive, GatewayLive, ConnectingEnds, RingEnds and
WaitersServed.

## 5. What is left out

Within the modelled parts: authentication of the connection, metrics and
logging, payload contents and encryption, hashing, signatures and token
formats, backoff arithmetic (a timer is armed or not), the REST routes that only
read. In CallRing a frame to a device may be lost under a fault, and no passing
property relies on one. In MessageStore, the outgoing side. In PttFloor, room
creation, the read-only snapshot and the in-memory map of rooms; no gateway
handler calls the floor at this commit, and the SFU client is a stub, so its
permission is modelled from the interface. In Groups, the cached member set
(`groups/membership.go`), which nothing uses. In Webinar, the questions. In
Collab, comments and files. In Contacts, QR codes and lookups of people nearby.
In Media, thumbnails and quotas, and direct transfers between devices, which the
default build refuses. Deleting an account is modelled from the guards and the
schema that provide for it, since no code of the server does it.

Not modelled at all, with the reason for each part in `PROJECT.json`
("components"): ephemeral messages (one row and one statement per operation; a
changed timer applies to older messages too), profiles, discovery and bots
(single statements; `Public` reads the avatar and the privacy settings in two
queries), the AI proxy, drivers and configuration, the commands that wire the
services, the sync engine's bootstrap and conflict folding and its outbox (the
drain that runs is the one of WsClient), ICE recovery and media settings, byte
storage, transcoding, cryptography, generated code and user interfaces.

## 6. Plan

Every part with a protocol of its own has a module, and every safety property of
the passing runs is proved for all values of the constants.

Still worth doing: a composition of ChatAccept and Delivery (accept steps
interleaved with replay) under an abstract mailbox (a message is delivered once
per device); an abstract one-way machine that CallRing implements up to its stale
writes; a run of the floor with two handlers on fewer devices, for WaitersServed
under overlaps.
