------------------------------ MODULE Breakout ------------------------------
(***************************************************************************)
(* One live session with breakout rooms and an outbound stream             *)
(* (breakout/service.go, breakout/adapters/pg.go).  A host's operation     *)
(* reads the session first; it asks who the host is and not whether the    *)
(* session has ended.  Recording consent is the module Recording.          *)
(***************************************************************************)
EXTENDS Integers, FiniteSets

CONSTANTS Users, Rooms, Handlers, MaxStreams, MaxFaults

VARIABLES
    session,   \* live_sessions: "none", "live" or "ended"
    room,      \* breakout_rooms: "new" (no row), "open" or "closed"
    assigned,  \* breakout_assignments: room of each user, Main or none
    ref,       \* egress_ref while egress_state is live, or NoStream
    running,   \* streams the egress service runs (external)
    streams,   \* streams started so far
    job,       \* what each running handler has read and does next
    crossed,   \* history: parts whose read-then-write was overlapped or cut
    faults

vars == <<session, room, assigned, ref, running, streams, job, crossed, faults>>

Main == "main"
NoStream == 0
Idle == [at |-> "idle"]
Doing(places) == \E h \in Handlers : job[h].at \in places

Init ==
    /\ session = "none"
    /\ room = [r \in Rooms |-> "new"]
    /\ assigned = [u \in Users |-> Main]
    /\ ref = NoStream /\ running = {} /\ streams = 0
    /\ job = [h \in Handlers |-> Idle]
    /\ crossed = {}
    /\ faults = 0

Become(h, next) == job' = [job EXCEPT ![h] = next]
Cross(part) == crossed' = crossed \cup {part}
RoomState == <<room, assigned>>
StreamState == <<ref, running, streams>>

Open ==
    /\ session = "none"
    /\ session' = "live"
    /\ UNCHANGED <<RoomState, StreamState, job, crossed, faults>>

(* requireHost and load found the session.                                 *)
RequireHost(h, next) ==
    /\ session # "none" /\ job[h] = Idle
    /\ Become(h, next)
    /\ UNCHANGED <<session, RoomState, StreamState, faults>>

-----------------------------------------------------------------------------
(* Rooms.  CreateRooms writes one row after the other.                     *)
CreateRooms(h, r) ==
    /\ session # "none" /\ job[h] = Idle /\ room[r] = "new"
    /\ room' = [room EXCEPT ![r] = "open"]
    /\ UNCHANGED <<session, assigned, StreamState, job, crossed, faults>>

OpenRooms == {r \in Rooms : room[r] = "open"}

Assign(h, u, r) ==
    /\ r \in OpenRooms \cup {Main}
    /\ RequireHost(h, [at |-> "assign", u |-> u, r |-> r])
    /\ UNCHANGED crossed

SetAssignment(h) ==
    /\ job[h].at = "assign"
    /\ assigned' = [assigned EXCEPT ![job[h].u] = job[h].r]
    /\ Become(h, Idle)
    /\ UNCHANGED <<session, room, StreamState, crossed, faults>>

(* CloseRooms closes the rows, then calls everybody back.                  *)
CloseRooms(h) ==
    /\ RequireHost(h, [at |-> "closing", whole |-> FALSE])
    /\ UNCHANGED crossed

CloseRows(h) ==
    /\ job[h].at = "closing"
    /\ room' = [r \in Rooms |-> IF room[r] = "open" THEN "closed" ELSE room[r]]
    /\ IF Doing({"assign"}) \/ (job[h].whole /\ \E u \in Users : assigned[u] # Main)
         THEN Cross("rooms") ELSE UNCHANGED crossed
    /\ Become(h, IF job[h].whole THEN [at |-> "end"] ELSE [at |-> "clear"])
    /\ UNCHANGED <<session, assigned, StreamState, faults>>

(* Mutant of ClearAssignments: the rooms are closed and nobody is called   *)
(* back.                                                                   *)
ClearNothing(h) ==
    /\ job[h].at = "clear"
    /\ Become(h, Idle)
    /\ UNCHANGED <<session, RoomState, StreamState, crossed, faults>>

ClearAssignments(h) ==
    /\ job[h].at = "clear"
    /\ assigned' = [u \in Users |-> Main]
    /\ Become(h, Idle)
    /\ UNCHANGED <<session, room, StreamState, crossed, faults>>

(* Store.GetAssignment: the row of a user, whatever became of its room.    *)
GetAssignment(u) == assigned[u]

(* resolveRoom: the assigned room, or the main one, is among those there.  *)
ResolveRoom(r) == r \in OpenRooms \cup {Main}

(* Me sends a user to the assigned room if it is open, else to the main.   *)
Me(u) == IF ResolveRoom(GetAssignment(u)) THEN GetAssignment(u) ELSE Main

(* Store.CountByRoom counts the rows, not the people who are in a room.    *)
CountByRoom(r) == Cardinality({u \in Users : assigned[u] = r})

(* roomsWithCounts: the rooms listed are the open ones.                    *)
RoomsWithCounts == [r \in OpenRooms |-> CountByRoom(r)]

(* Status, which every participant polls: its room is not resolved again.  *)
Status(u) ==
    [mine |-> GetAssignment(u), rooms |-> RoomsWithCounts,
     ended |-> session = "ended", egress |-> ref # NoStream]

-----------------------------------------------------------------------------
(* The stream.  StartEgress refuses while one is live; the stream runs     *)
(* before its reference is written down.                                   *)
StreamSteps == {"start", "started", "stop", "stopped"}

StartEgress(h) ==
    /\ ref = NoStream
    /\ RequireHost(h, [at |-> "start"])
    /\ IF Doing(StreamSteps) THEN Cross("stream") ELSE UNCHANGED crossed

EgressStart(h) ==
    /\ job[h].at = "start" /\ streams < MaxStreams
    /\ streams' = streams + 1
    /\ running' = running \cup {streams + 1}
    /\ Become(h, [at |-> "started", ref |-> streams + 1])
    /\ UNCHANGED <<session, RoomState, ref, crossed, faults>>

SetEgressLive(h) ==
    /\ job[h].at = "started"
    /\ ref' = job[h].ref
    /\ Become(h, Idle)
    /\ UNCHANGED <<session, RoomState, running, streams, crossed, faults>>

(* StopEgress and Close stop the stream they have read; the answer is      *)
(* ignored and the row cleared.                                            *)
StopEgress(h, whole) ==
    /\ IF ref # NoStream THEN RequireHost(h, [at |-> "stop", ref |-> ref, whole |-> whole])
                         ELSE whole /\ RequireHost(h, [at |-> "closing", whole |-> TRUE])
    /\ IF Doing(StreamSteps) THEN Cross("stream") ELSE UNCHANGED crossed

EgressStop(h, ok) ==
    /\ job[h].at = "stop"
    /\ ok \/ faults < MaxFaults
    /\ faults' = IF ok THEN faults ELSE faults + 1
    /\ running' = IF ok THEN running \ {job[h].ref} ELSE running
    /\ Become(h, [at |-> "stopped", whole |-> job[h].whole])
    /\ UNCHANGED <<session, RoomState, ref, streams, crossed>>

SetEgressOff(h) ==
    /\ job[h].at = "stopped"
    /\ ref' = NoStream
    /\ Become(h, IF job[h].whole THEN [at |-> "closing", whole |-> TRUE] ELSE Idle)
    /\ UNCHANGED <<session, RoomState, running, streams, crossed, faults>>

EndSession(h) ==
    /\ job[h].at = "end"
    /\ session' = "ended"
    /\ Become(h, Idle)
    /\ UNCHANGED <<RoomState, StreamState, crossed, faults>>

(* A call to the database or the egress service fails: the operation ends. *)
Abandon(h) ==
    /\ job[h] # Idle /\ faults < MaxFaults
    /\ faults' = faults + 1
    /\ Become(h, Idle)
    /\ UNCHANGED <<session, RoomState, StreamState, crossed>>

Next ==
    \/ Open
    \/ \E h \in Handlers :
        \/ \E r \in Rooms : CreateRooms(h, r)
        \/ \E u \in Users, r \in Rooms \cup {Main} : Assign(h, u, r)
        \/ SetAssignment(h) \/ CloseRooms(h) \/ CloseRows(h) \/ ClearAssignments(h)
        \/ StartEgress(h) \/ EgressStart(h) \/ SetEgressLive(h) \/ SetEgressOff(h)
        \/ \E b \in BOOLEAN : StopEgress(h, b) \/ EgressStop(h, b)
        \/ EndSession(h) \/ Abandon(h)

-----------------------------------------------------------------------------
TypeOK ==
    /\ session \in {"none", "live", "ended"}
    /\ room \in [Rooms -> {"new", "open", "closed"}]
    /\ assigned \in [Users -> Rooms \cup {Main}]
    /\ ref \in 0..MaxStreams /\ running \subseteq 1..MaxStreams

(* Nobody keeps streaming unknown to the session: a running stream that    *)
(* the row does not name and no handler is about to write or has just      *)
(* stopped needs two overlapping operations or a call that failed.         *)
NoOrphanStream ==
    crossed \cap {"stream"} = {} /\ faults = 0 =>
        \A s \in running : s = ref \/ \E h \in Handlers : job[h].at = "started" /\ job[h].ref = s

(* Everybody is called back: nobody is sent to a closed room, and the      *)
(* status a participant polls names the room he gets a token for and       *)
(* counts him in it, unless an assignment overlapped the closing, a call   *)
(* failed or the whole session ended.                                      *)
CalledBack ==
    /\ \A u \in Users : Me(u) \in OpenRooms \cup {Main}
    /\ crossed \cap {"rooms"} = {} /\ faults = 0 /\ ~Doing({"clear"}) =>
          \A u \in Users :
              LET seen == Status(u)
              IN  /\ seen.mine = Me(u)
                  /\ Me(u) # Main => seen.rooms[Me(u)] > 0

BreakoutSound == TypeOK /\ NoOrphanStream /\ CalledBack

(* What a handler has read, and what it leads to.                          *)
JobFits(j) ==
    /\ j.at \in {"idle", "assign", "closing", "clear", "end"} \cup StreamSteps
    /\ j.at = "assign" => j.u \in Users /\ j.r \in Rooms \cup {Main}
    /\ j.at = "started" => j.ref \in 1..MaxStreams

(* Without an overlap one handler is at the stream, and it knows of all    *)
(* that runs.                                                              *)
OneAtTheStream ==
    "stream" \notin crossed /\ faults = 0 =>
        /\ \A g, h \in Handlers : job[g].at \in StreamSteps /\ job[h].at \in StreamSteps => g = h
        /\ \A h \in Handlers :
              /\ job[h].at \in {"start", "stopped"} => running = {}
              /\ job[h].at = "started" => running \subseteq {job[h].ref}
              /\ job[h].at = "stop" => job[h].ref = ref

(* Without an overlap users are sent to open rooms, or about to be called  *)
(* back.                                                                   *)
InOpenRooms ==
    "rooms" \notin crossed /\ faults = 0 =>
        /\ \A h \in Handlers : job[h].at = "assign" => job[h].r \in OpenRooms \cup {Main}
        /\ Doing({"clear"}) \/ \A u \in Users : assigned[u] \in OpenRooms \cup {Main}

(* The inductive invariant.                                                *)
BreakoutInv ==
    /\ BreakoutSound
    /\ job = [h \in Handlers |-> job[h]] /\ \A h \in Handlers : JobFits(job[h])
    /\ streams \in 0..MaxStreams /\ faults \in Nat
    /\ OneAtTheStream /\ InOpenRooms
=============================================================================
