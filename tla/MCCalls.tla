------------------------------ MODULE MCCalls ------------------------------
(***************************************************************************)
(* A call on small instances: the client's session (CallSession), the ring *)
(* on the server (CallRing) and the call history (CallHistory).  Each      *)
(* models the others' messages as its environment, so a behaviour          *)
(* exercises the one that `part' names; the first two stay at Init and the *)
(* history at Off meanwhile.                                               *)
(*                                                                         *)
(* The configuration gives the constants small values; the theorems hold   *)
(* for all of them.                                                        *)
(***************************************************************************)
EXTENDS CallSession, Integers, FiniteSetTheorems, WellFoundedInduction, TLAPS

CONSTANTS
    Caller, Callees, Handlers, MaxFaults, NoDevice,
    NCalls, Limit, MaxWrites    \* the calls of the history, its page, its writes

ASSUME RingConstants == NoDevice \notin Callees /\ MaxFaults \in Nat

ASSUME HistoryConstants == NCalls \in Nat /\ Limit \in Nat \ {0}

VARIABLES
    part,
    ring, index, due, hist, ops, rphase, room, hooks, answers, created, faults,
    rec, began, walk, cursor, listed, twice, stayed, edges, writes

Off == 0

R == INSTANCE CallRing WITH phase <- rphase

H == INSTANCE CallHistory WITH Ids <- 1..NCalls

RVars == <<ring, index, due, hist, ops, rphase, room, hooks, answers, created, faults>>
HVars == <<rec, began, walk, cursor, listed, twice, stayed, edges, writes>>

mcvars == <<part, vars, RVars, HVars>>

HOff == /\ rec = Off /\ began = Off /\ walk = Off /\ cursor = Off /\ listed = Off
        /\ twice = Off /\ stayed = Off /\ edges = Off /\ writes = Off

MCInit ==
    /\ Init /\ R!Init
    /\ \/ part \in {"session", "ring"} /\ HOff
       \/ part = "history" /\ H!Init

MCNext ==
    \/ part = "session" /\ Next /\ UNCHANGED <<part, RVars, HVars>>
    \/ part = "ring" /\ R!Next /\ UNCHANGED <<part, vars, HVars>>
    \/ part = "history" /\ H!Next /\ UNCHANGED <<part, vars, RVars>>

(* The fairness of the session and of the ring, each where it runs.        *)
SessionFair ==
    /\ WF_vars(part = "session" /\ LinkJoins)
    /\ WF_vars(part = "session" /\ (LinkUp \/ LinkFails))

RingFair ==
    /\ WF_RVars(part = "ring" /\ R!DeadlinePasses)
    /\ WF_RVars(part = "ring" /\ R!SweepClean)
    /\ WF_RVars(part = "ring" /\ \E h \in Handlers : R!Sweep(h))
    /\ \A h \in Handlers : /\ WF_RVars(part = "ring" /\ R!Write(h))
                           /\ WF_RVars(part = "ring" /\ R!Record(h))

MCSpec == MCInit /\ [][MCNext]_mcvars /\ SessionFair /\ RingFair

-----------------------------------------------------------------------------
(* Both invariants are inductive: what the component promises, and what    *)
(* the handlers and the walk under way rely on.                            *)

(* The sweeper's index and the ring agree, and a completed call was        *)
(* answered (CallRing).                                                    *)
RingSound == R!RingInv

(* A ring goes one way save for a stale write-back (CallRing).             *)
RingOneWay == R!OneWay

(* No ring rings for ever, and a declined or missed one gets its row       *)
(* unless something failed (CallRing).                                     *)
RingEnds == R!RingEnds /\ R!OutcomeKept

(* A walk through the history gives each record once, with the kind it was *)
(* made with, and misses only those at the edge of a page (CallHistory).   *)
HistorySound == part = "history" => H!HistoryInv

-----------------------------------------------------------------------------
(* The client's session, for any set of offers and any number of placed    *)
(* calls.  The inductive invariant says which requests and which stage of  *)
(* connectMedia go with which phase.                                       *)
(* What is awaited fits the phase: an answer is awaited in incoming or     *)
(* after the end, the media is being connected in connecting or after the  *)
(* end, and a connected call has nothing left to await.                    *)
AwaitsFit ==
    /\ answering => phase \in {"incoming", "ended"}
    /\ phase \in {"idle", "outgoing", "incoming"} => link = "none" /\ media = "down"
    /\ phase = "connected" => link = "none" /\ media = "up"

(* connectMedia is entered only with the answer of the callee.             *)
LinkNeedsAnswer == link # "none" \/ media # "down" => ringDone

IInv == TypeOK /\ AwaitsFit /\ LinkNeedsAnswer

LEMMA InitIInv == Init => IInv
<1> SUFFICES ASSUME Init PROVE IInv
  OBVIOUS
<1>1. TypeOK
  <2>1. 0 \in 0..MaxStarts
    BY ConstantsAssumption
  <2>2. offered \subseteq Offers
    BY DEF Init
  <2> QED
    BY <2>1, <2>2 DEF Init, TypeOK, Phases
<1>2. AwaitsFit
  BY DEF Init, AwaitsFit
<1>3. LinkNeedsAnswer
  BY DEF Init, LinkNeedsAnswer
<1> QED
  BY <1>1, <1>2, <1>3 DEF IInv

LEMMA NextIInv == IInv /\ [Next]_vars => IInv'
<1> SUFFICES ASSUME IInv, [Next]_vars PROVE IInv'
  OBVIOUS
<1> USE ConstantsAssumption
    DEF IInv, TypeOK, AwaitsFit, LinkNeedsAnswer, Phases, requests, ghosts, Active
<1>1. CASE StartCall
  BY <1>1 DEF StartCall
<1>2. CASE Created
  BY <1>2 DEF Created
<1>3. CASE CreateFails
  BY <1>3 DEF CreateFails
<1>4. ASSUME NEW c \in Offers, OnOffer(c) PROVE IInv'
  BY <1>4 DEF OnOffer
<1>5. CASE Accept
  BY <1>5 DEF Accept
<1>6. CASE Answered
  BY <1>6 DEF Answered
<1>7. CASE AnswerFails
  BY <1>7 DEF AnswerFails
<1>8. CASE Decline
  BY <1>8 DEF Decline
<1>9. ASSUME NEW sig \in Signals, OnRing(sig) PROVE IInv'
  BY <1>9 DEF OnRing, AfterRing, Links, Signals
<1>10. CASE OnRemoteEnd
  BY <1>10 DEF OnRemoteEnd, Leave
<1>11. CASE Hangup
  BY <1>11 DEF Hangup, Leave
<1>12. CASE LinkJoins
  BY <1>12 DEF LinkJoins, PhaseOnJoin
<1>13. CASE LinkUp
  BY <1>13 DEF LinkUp, Joined
<1>14. CASE LinkFails
  BY <1>14 DEF LinkFails, Leave, OnFailure
<1>15. CASE UNCHANGED vars
  BY <1>15 DEF vars
<1> QED
  BY <1>1, <1>2, <1>3, <1>4, <1>5, <1>6, <1>7, <1>8, <1>9, <1>10,
     <1>11, <1>12, <1>13, <1>14, <1>15 DEF Next

LEMMA Invariance == Spec => []IInv
<1> QED
  BY InitIInv, NextIInv, PTL DEF Spec

(* The variables of the call session keep their types.                     *)
THEOREM SessionTypes == Spec => []TypeOK
<1>1. IInv => TypeOK
  BY DEF IInv
<1> QED
  BY <1>1, Invariance, PTL

(* A connected call has its media, and no room is joined before the client *)
(* knows that the callee answered, for any offers and placed calls.        *)
THEOREM MediaIsRight == Spec => []MediaFollowsCall
<1>1. IInv => MediaFollowsCall
  BY DEF IInv, AwaitsFit, LinkNeedsAnswer, MediaFollowsCall
<1> QED
  BY <1>1, Invariance, PTL

(* Every step of the reducer leads forward, and those of connectMedia do   *)
(* so because of the phases in which it can be pending.                    *)
LEMMA StepForward ==
    IInv /\ [Next]_vars => (phase' # phase => Rank(phase') > Rank(phase))
<1> SUFFICES ASSUME IInv, [Next]_vars, phase' # phase
             PROVE  Rank(phase') > Rank(phase)
  OBVIOUS
<1> USE DEF IInv, TypeOK, Phases, requests, ghosts
<1>1. CASE Created
  BY <1>1 DEF Created, Rank
<1>2. ASSUME NEW c \in Offers, OnOffer(c) PROVE Rank(phase') > Rank(phase)
  BY <1>2 DEF OnOffer, Rank
<1>3. CASE Answered
  BY <1>3 DEF Answered, Rank
<1>4. ASSUME NEW sig \in Signals, OnRing(sig) PROVE Rank(phase') > Rank(phase)
  BY <1>4 DEF OnRing, AfterRing, Signals, Rank
<1>5. CASE LinkUp
  BY <1>5 DEF LinkUp, Rank
<1>6. CASE Decline \/ OnRemoteEnd \/ Hangup \/ LinkFails
  BY <1>6 DEF Decline, OnRemoteEnd, Hangup, LinkFails, OnFailure, Rank
<1>7. CASE StartCall \/ CreateFails \/ Accept \/ AnswerFails \/ LinkJoins \/ UNCHANGED vars
  BY <1>7 DEF StartCall, CreateFails, Accept, AnswerFails, LinkJoins, PhaseOnJoin, vars
<1> QED
  BY <1>1, <1>2, <1>3, <1>4, <1>5, <1>6, <1>7 DEF Next

(* A call never goes back to an earlier phase, whatever frames come late.  *)
THEOREM PhasesGoForward == Spec => PhaseForward
<1>1. IInv /\ [Next]_vars => [phase' # phase => Rank(phase') > Rank(phase)]_vars
  BY StepForward
<1> QED
  BY <1>1, Invariance, PTL DEF Spec, PhaseForward

-----------------------------------------------------------------------------
(* The ring.                                                               *)

\* The operations of the handlers.
RingOps == [step : {"idle", "save", "record"}, event : R!Events,
            dev : Callees \cup {NoDevice}, rec : R!Records \cup {R!Gone}]

\* What the steps of clients and media server write.
RingRest ==
    /\ due \in BOOLEAN /\ created \in BOOLEAN
    /\ rphase \in [R!Parties -> {"idle", "ringing", "in", "over"}]
    /\ room \subseteq R!Parties /\ hooks \subseteq {"joined", "finished"}
    /\ faults \in 0..MaxFaults

\* What the handlers write.
RingCore ==
    /\ ring \in R!Records \cup {R!Gone} /\ index \in BOOLEAN
    /\ hist \in R!Outcomes \cup {"none"}
    /\ ops \in [Handlers -> RingOps] /\ answers \subseteq Callees
    /\ R!IndexExact /\ R!CompletedWasAnswered /\ R!NamesAnswerer(ring)
    /\ \A h \in Handlers : R!OpFits(h) /\ R!NamesAnswerer(ops[h].rec)

LEMMA RingParts == R!RingInv <=> RingRest /\ RingCore
  BY DEF R!RingInv, R!Inv, R!TypeOK, RingRest, RingCore, RingOps

LEMMA RingWhole == ASSUME RingRest', RingCore' PROVE R!RingInv'
  BY DEF R!RingInv, R!Inv, R!TypeOK, RingRest, RingCore, RingOps

LEMMA RingInit == R!Init => R!RingInv
<1> SUFFICES ASSUME R!Init PROVE R!RingInv
  OBVIOUS
<1>1. RingRest
  <2>1. rphase \in [R!Parties -> {"idle", "ringing", "in", "over"}]
    BY DEF R!Init
  <2>2. faults \in 0..MaxFaults
    BY RingConstants DEF R!Init
  <2>3. QED
    BY <2>1, <2>2 DEF R!Init, RingRest
<1>2. R!Idle \in RingOps /\ R!Gone.state = "gone" /\ R!Gone.by = NoDevice
      /\ R!Idle.step = "idle" /\ R!Idle.rec = R!Gone
  BY DEF RingOps, R!Idle, R!Gone, R!Events
<1>3. RingCore
  BY <1>2 DEF R!Init, RingCore, R!IndexExact, R!CompletedWasAnswered, R!NamesAnswerer, R!OpFits
<1>4. QED
  BY <1>1, <1>3, RingParts

\* Frames and media that change no record, and the expiry of one.
LEMMA RingQuiet ==
  ASSUME R!RingInv, RingRest', UNCHANGED <<index, hist, ops, answers>>, ring' \in {ring, R!Gone}
  PROVE  R!RingInv'
<1>1. RingCore
  BY RingParts
<1>2. R!Gone.state = "gone" /\ R!Gone.by = NoDevice
  BY DEF R!Gone
<1>3. RingCore'
  BY <1>1, <1>2 DEF RingCore, R!IndexExact, R!CompletedWasAnswered, R!NamesAnswerer, R!OpFits
<1>4. QED
  BY <1>3, RingWhole

\* A step of the parties, the media server and the clock.
LEMMA RingParty ==
  ASSUME R!RingInv,
         \/ \E p \in R!Parties : \/ R!Join(p) \/ R!Rejoin(p) \/ R!HangUp(p)
                                 \/ R!Disconnect(p) \/ R!Drop(p)
         \/ \E e \in {"answer", "decline"}, d \in Callees : R!Refuse(e, d)
         \/ R!DeadlinePasses \/ R!Expire \/ UNCHANGED RVars
  PROVE  R!RingInv'
<1>0. RingRest
  BY RingParts
<1>1. UNCHANGED <<index, hist, ops, answers>> /\ ring' \in {ring, R!Gone}
  BY DEF R!Join, R!Rejoin, R!HangUp, R!Disconnect, R!Drop, R!Refuse, R!DeadlinePasses, R!Expire, RVars
<1>2. RingRest'
  <2>1. CASE \E p \in R!Parties : \/ R!Join(p) \/ R!Rejoin(p) \/ R!HangUp(p)
                                  \/ R!Disconnect(p) \/ R!Drop(p)
    <3>1. PICK p \in R!Parties : \/ R!Join(p) \/ R!Rejoin(p) \/ R!HangUp(p)
                                 \/ R!Disconnect(p) \/ R!Drop(p)
      BY <2>1
    <3>2. rphase' \in [R!Parties -> {"idle", "ringing", "in", "over"}]
      BY <1>0, <3>1 DEF RingRest, R!Join, R!Rejoin, R!HangUp, R!Disconnect, R!Drop
    <3>3. faults' \in 0..MaxFaults
      BY <1>0, <3>1, RingConstants
         DEF RingRest, R!Join, R!Rejoin, R!HangUp, R!Disconnect, R!Drop, R!Fault
    <3>4. room' \subseteq R!Parties /\ hooks' \subseteq {"joined", "finished"}
      BY <1>0, <3>1 DEF RingRest, R!Join, R!Rejoin, R!HangUp, R!Disconnect, R!Drop, R!Left
    <3>5. UNCHANGED <<due, created>>
      BY <3>1 DEF R!Join, R!Rejoin, R!HangUp, R!Disconnect, R!Drop
    <3>6. QED
      BY <1>0, <3>2, <3>3, <3>4, <3>5 DEF RingRest
  <2>2. CASE \E e \in {"answer", "decline"}, d \in Callees : R!Refuse(e, d)
    <3>1. PICK e \in {"answer", "decline"}, d \in Callees : R!Refuse(e, d)
      BY <2>2
    <3>2. d \in R!Parties
      BY DEF R!Parties
    <3>3. PICK v \in {"in", "over", rphase[d]} : rphase' = [rphase EXCEPT ![d] = v]
      BY <3>1 DEF R!Refuse
    <3>4. QED
      BY <1>0, <3>1, <3>2, <3>3 DEF RingRest, R!Refuse
  <2>3. CASE R!DeadlinePasses \/ R!Expire \/ UNCHANGED RVars
    BY <1>0, <2>3 DEF RingRest, R!DeadlinePasses, R!Expire, RVars
  <2>4. QED
    BY <2>1, <2>2, <2>3
<1>3. QED
  BY <1>1, <1>2, RingQuiet

LEMMA RingSweepClean ==
  ASSUME R!RingInv, R!SweepClean
  PROVE  R!RingInv'
<1>1. RingCore /\ RingRest
  BY RingParts
<1>2. R!Gone.state = "gone"
  BY DEF R!Gone
<1>3. RingCore' /\ RingRest'
  BY <1>1, <1>2 DEF R!SweepClean, RingCore, RingRest, R!IndexExact, R!CompletedWasAnswered,
                    R!NamesAnswerer, R!OpFits
<1>4. QED
  BY <1>3, RingWhole

LEMMA RingCreate ==
  ASSUME R!RingInv, R!Create \/ R!CreateErrs
  PROVE  R!RingInv'
<1>1. RingCore /\ RingRest
  BY RingParts
<1>2. PICK r \in R!Records : r = [state |-> "ringing", by |-> NoDevice]
  BY DEF R!Records, R!RingStates
<1>3. r.state = "ringing" /\ r.by = NoDevice
  BY <1>2
<1>4. ring' = r /\ index' = TRUE /\ UNCHANGED <<hist, ops, answers>>
  BY <1>2, <1>3 DEF R!Create, R!CreateErrs, R!Save
<1>5. RingCore'
  BY <1>1, <1>3, <1>4 DEF RingCore, R!IndexExact, R!CompletedWasAnswered, R!NamesAnswerer, R!OpFits
<1>6. RingRest'
  <2>1. rphase' \in [R!Parties -> {"idle", "ringing", "in", "over"}]
    BY <1>1 DEF R!Create, R!CreateErrs, RingRest
  <2>2. faults' \in 0..MaxFaults
    BY <1>1, RingConstants DEF R!Create, R!CreateErrs, R!Fault, RingRest
  <2>3. created' \in BOOLEAN /\ UNCHANGED <<due, room, hooks>>
    BY DEF R!Create, R!CreateErrs
  <2>4. QED
    BY <1>1, <2>1, <2>2, <2>3 DEF RingRest
<1>7. QED
  BY <1>5, <1>6, RingWhole

(* A handler that has read the record.                                     *)
LEMMA RingLoad ==
  ASSUME R!RingInv, NEW h \in Handlers, NEW e \in R!Events, NEW d \in Callees \cup {NoDevice},
         e \in {"answer", "decline"} => d \in Callees,
         R!Load(h, e, d)
  PROVE  R!RingInv'
<1>1. RingCore /\ RingRest
  BY RingParts
<1>2. ring \in R!Records \cup {R!Gone}
  BY <1>1 DEF RingCore
<1>3. PICK st \in {"save", "record"} :
         /\ st = (IF R!Accepts(ring.state, e) THEN "save" ELSE "record")
         /\ st = "save" => R!Accepts(ring.state, e)
  OBVIOUS
<1>4. PICK op \in RingOps : op = [step |-> st, event |-> e, dev |-> d, rec |-> ring]
  BY <1>2 DEF RingOps
<1>5. op.step = st /\ op.event = e /\ op.dev = d /\ op.rec = ring
  BY <1>4
<1>6. ops' = [ops EXCEPT ![h] = op] /\ ring # R!Gone /\ UNCHANGED <<ring, index, hist, answers>>
  BY <1>3, <1>4 DEF R!Load, R!LoadRing
<1>7. /\ ops' \in [Handlers -> RingOps] /\ ops'[h] = op
      /\ \A g \in Handlers \ {h} : ops'[g] = ops[g]
  BY <1>1, <1>6 DEF RingCore
<1>8. ASSUME NEW g \in Handlers PROVE R!OpFits(g)' /\ R!NamesAnswerer(ops[g].rec)'
  <2>1. CASE g = h
    BY <1>1, <1>3, <1>5, <1>6, <1>7, <2>1 DEF RingCore, R!OpFits, R!NamesAnswerer, R!Accepts
  <2>2. CASE g # h
    BY <1>1, <1>6, <1>7, <2>2 DEF RingCore, R!OpFits, R!NamesAnswerer, R!Accepts
  <2>3. QED
    BY <2>1, <2>2
<1>9. RingCore'
  BY <1>1, <1>6, <1>7, <1>8 DEF RingCore, R!IndexExact, R!CompletedWasAnswered, R!NamesAnswerer
<1>10. RingRest'
  <2>1. rphase' \in [R!Parties -> {"idle", "ringing", "in", "over"}]
    BY <1>1 DEF R!Load, R!Locally, RingRest, R!Parties
  <2>2. QED
    BY <1>1, <2>1 DEF R!Load, RingRest
<1>11. QED
  BY <1>9, <1>10, RingWhole

(* The operation of a handler becomes another that has nothing to write.   *)
LEMMA RingWrite ==
  ASSUME R!RingInv, NEW h \in Handlers, R!Write(h) \/ R!SaveErrs(h)
  PROVE  R!RingInv'
<1>1. RingCore /\ RingRest
  BY RingParts
<1>2. PICK op \in RingOps : op = ops[h]
  BY <1>1 DEF RingCore
<1>3. op.step = "save" /\ R!OpFits(h) /\ R!NamesAnswerer(op.rec)
  BY <1>1, <1>2 DEF RingCore, R!Write, R!SaveErrs
<1>4. PICK r \in R!Records : r = R!Updated(op)
  <2>1. op.rec.by \in Callees \cup {NoDevice} /\ op.dev \in Callees \cup {NoDevice}
    <3>1. op.rec \in R!Records
      BY <1>2, <1>3 DEF R!OpFits, RingOps
    <3>2. QED
      BY <1>2, <3>1 DEF RingOps, R!Records
  <2>2. R!Target(op.event) \in R!RingStates \ {"ringing"}
    BY <1>2 DEF RingOps, R!Events, R!Target, R!RingStates, R!Terminal
  <2>3. PICK b \in Callees \cup {NoDevice} : b = IF op.event = "answer" THEN op.dev ELSE op.rec.by
    BY <2>1
  <2>4. R!Updated(op) = [state |-> R!Target(op.event), by |-> b]
    BY <2>3 DEF R!Updated
  <2>5. QED
    BY <2>2, <2>3, <2>4 DEF R!Records
<1>5. r.state # "ringing" /\ r.state # "gone"
      /\ r.by = (IF op.event = "answer" THEN op.dev ELSE op.rec.by)
  BY <1>2, <1>4 DEF R!Updated, RingOps, R!Events, R!Target
<1>6. /\ R!Answered(op) \subseteq Callees /\ answers \subseteq R!Answered(op)
      /\ r.by # NoDevice => R!Answered(op) # {}
  BY <1>1, <1>2, <1>3, <1>5 DEF RingCore, R!Answered, R!OpFits, R!NamesAnswerer
<1>7. /\ UNCHANGED hist
      /\ \/ ring' = r /\ index' = FALSE /\ answers' = R!Answered(op)
         \/ UNCHANGED <<ring, index, answers>>
  <2>1. (r.state = "ringing") = FALSE
    BY <1>5
  <2>2. CASE R!Write(h)
    BY <1>2, <1>4, <2>1, <2>2 DEF R!Write, R!Save
  <2>3. CASE R!SaveErrs(h)
    BY <1>2, <1>4, <2>1, <2>3 DEF R!SaveErrs, R!Save
  <2>4. QED
    BY <2>2, <2>3
<1>8. PICK n \in RingOps : ops' = [ops EXCEPT ![h] = n] /\ n.step # "save" /\ n.rec \in {op.rec, R!Gone}
  <2>1. R!Idle \in RingOps /\ R!Idle.step # "save" /\ R!Idle.rec = R!Gone
    BY DEF RingOps, R!Idle, R!Events
  <2>2. [op EXCEPT !.step = "record"] \in RingOps /\ [op EXCEPT !.step = "record"].step # "save"
        /\ [op EXCEPT !.step = "record"].rec = op.rec
    BY <1>2 DEF RingOps
  <2>3. ops' \in {[ops EXCEPT ![h] = R!Idle], [ops EXCEPT ![h] = [op EXCEPT !.step = "record"]]}
    BY <1>2 DEF R!Write, R!SaveErrs
  <2>4. QED
    BY <2>1, <2>2, <2>3
<1>9. /\ ops' \in [Handlers -> RingOps] /\ ops'[h] = n
      /\ \A g \in Handlers \ {h} : ops'[g] = ops[g]
  BY <1>1, <1>8 DEF RingCore
<1>10. answers \subseteq answers' /\ answers' \subseteq Callees
  BY <1>1, <1>6, <1>7 DEF RingCore
<1>11. ASSUME NEW g \in Handlers PROVE R!OpFits(g)' /\ R!NamesAnswerer(ops[g].rec)'
  <2>1. CASE g = h
    <3>1. R!Gone.by = NoDevice
      BY DEF R!Gone
    <3>2. QED
      BY <1>3, <1>8, <1>9, <1>10, <2>1, <3>1 DEF R!OpFits, R!NamesAnswerer
  <2>2. CASE g # h
    BY <1>1, <1>9, <1>10, <2>2 DEF RingCore, R!OpFits, R!NamesAnswerer, R!Accepts
  <2>3. QED
    BY <2>1, <2>2
<1>12. R!NamesAnswerer(ring)' /\ R!IndexExact' /\ R!CompletedWasAnswered'
       /\ ring' \in R!Records \cup {R!Gone} /\ index' \in BOOLEAN
  <2>1. CASE ring' = r /\ index' = FALSE /\ answers' = R!Answered(op)
    BY <1>1, <1>5, <1>6, <1>7, <2>1
       DEF RingCore, R!NamesAnswerer, R!IndexExact, R!CompletedWasAnswered
  <2>2. CASE UNCHANGED <<ring, index, answers>>
    BY <1>1, <1>7, <2>2 DEF RingCore, R!NamesAnswerer, R!IndexExact, R!CompletedWasAnswered
  <2>3. QED
    BY <1>7, <2>1, <2>2
<1>13. RingCore'
  BY <1>1, <1>7, <1>9, <1>10, <1>11, <1>12 DEF RingCore
<1>14. RingRest'
  <2>1. rphase' \in [R!Parties -> {"idle", "ringing", "in", "over"}]
    BY <1>1 DEF R!Write, R!SaveErrs, R!Signal, RingRest
  <2>2. faults' \in 0..MaxFaults
    BY <1>1, RingConstants DEF R!Write, R!SaveErrs, R!DeviceList, R!Fault, RingRest
  <2>3. QED
    BY <1>1, <2>1, <2>2 DEF R!Write, R!SaveErrs, RingRest
<1>15. QED
  BY <1>13, <1>14, RingWhole

LEMMA RingRecord ==
  ASSUME R!RingInv, NEW h \in Handlers, R!Record(h) \/ R!Crash(h)
  PROVE  R!RingInv'
<1>1. RingCore /\ RingRest
  BY RingParts
<1>2. /\ ops' = [ops EXCEPT ![h] = R!Idle] /\ UNCHANGED <<ring, index, answers>>
      /\ hist' \in {hist, R!OutcomeOf(ops[h])}
  BY DEF R!Record, R!Crash
<1>3. R!Idle \in RingOps /\ R!Idle.step # "save" /\ R!Idle.rec.by = NoDevice
  BY DEF RingOps, R!Idle, R!Gone, R!Events
<1>4. /\ ops' \in [Handlers -> RingOps] /\ ops'[h] = R!Idle
      /\ \A g \in Handlers \ {h} : ops'[g] = ops[g]
  BY <1>1, <1>2, <1>3 DEF RingCore
<1>5. /\ R!OutcomeOf(ops[h]) \in R!Outcomes
      /\ R!OutcomeOf(ops[h]) = "completed" => answers # {}
  BY <1>1 DEF RingCore, R!OutcomeOf, R!Outcomes, R!NamesAnswerer
<1>6. ASSUME NEW g \in Handlers PROVE R!OpFits(g)' /\ R!NamesAnswerer(ops[g].rec)'
  <2>1. CASE g = h
    BY <1>3, <1>4, <2>1 DEF R!OpFits, R!NamesAnswerer
  <2>2. CASE g # h
    BY <1>1, <1>2, <1>4, <2>2 DEF RingCore, R!OpFits, R!NamesAnswerer, R!Accepts
  <2>3. QED
    BY <2>1, <2>2
<1>7. RingCore'
  BY <1>1, <1>2, <1>4, <1>5, <1>6 DEF RingCore, R!IndexExact, R!CompletedWasAnswered, R!NamesAnswerer
<1>8. RingRest'
  <2>1. faults' \in 0..MaxFaults
    BY <1>1, RingConstants DEF R!Record, R!Crash, R!Fault, RingRest
  <2>2. UNCHANGED <<due, created, rphase, room, hooks>>
    BY DEF R!Record, R!Crash
  <2>3. QED
    BY <1>1, <2>1, <2>2 DEF RingRest
<1>9. QED
  BY <1>7, <1>8, RingWhole

LEMMA RingStep == R!RingInv /\ [R!Next]_RVars => R!RingInv'
<1> SUFFICES ASSUME R!RingInv, [R!Next]_RVars PROVE R!RingInv'
  OBVIOUS
<1>1. ASSUME NEW h \in Handlers,
             \/ \E d \in Callees : R!Answer(h, d) \/ R!Decline(h, d)
             \/ R!Sweep(h) \/ \E e \in {"joined", "finished"} : R!HandleWebhook(h, e)
      PROVE  R!RingInv'
  <2>1. {"answer", "decline", "sweep", "joined", "finished"} = R!Events
    BY DEF R!Events
  <2>2. QED
    BY <1>1, <2>1, RingLoad DEF R!Answer, R!Decline, R!Sweep, R!HandleWebhook
<1>2. QED
  BY <1>1, RingParty, RingSweepClean, RingCreate, RingWrite, RingRecord DEF R!Next

(* What a step may do to the stored record.                                *)
LEMMA RingArrows ==
  ASSUME R!RingInv, [R!Next]_RVars, ring' # ring, created
  PROVE  \/ ring.state = "ringing"
         \/ ring.state = "answered" /\ ring'.state = "ended"
         \/ ring' = R!Gone
         \/ R!StaleWrite
<1>1. ASSUME NEW h \in Handlers, R!Write(h) \/ R!SaveErrs(h), ops[h].rec = ring
      PROVE  ring.state = "ringing" \/ (ring.state = "answered" /\ ring'.state = "ended")
  <2>1. /\ ops[h].step = "save" /\ R!OpFits(h) /\ ring \in R!Records
    BY <1>1 DEF R!RingInv, R!Inv, R!TypeOK, R!Write, R!SaveErrs, R!OpFits
  <2>2. CASE ops[h].event # "finished"
    BY <1>1, <2>1, <2>2 DEF R!OpFits, R!Accepts
  <2>3. CASE ops[h].event = "finished"
    <3>1. ring.state \in {"ringing", "answered"}
      BY <1>1, <2>1, <2>3 DEF R!OpFits, R!Accepts, R!Records, R!RingStates, R!Terminal
    <3>2. ring' = R!Updated(ops[h])
      BY <1>1 DEF R!Write, R!SaveErrs, R!Save
    <3>3. ring'.state = "ended"
      BY <2>3, <3>2 DEF R!Updated, R!Target
    <3>4. QED
      BY <3>1, <3>3
  <2>4. QED
    BY <2>2, <2>3
<1>2. ASSUME NEW h \in Handlers, R!Write(h) \/ R!SaveErrs(h), ops[h].rec # ring
      PROVE  R!StaleWrite
  <2>1. ops[h].step = "save" /\ ops \in [Handlers -> RingOps]
    BY <1>2 DEF R!Write, R!SaveErrs, R!RingInv, R!Inv, R!TypeOK, RingOps
  <2>2. ops'[h].step # "save"
    <3>1. PICK op \in RingOps : op = ops[h]
      BY <2>1
    <3>2. [op EXCEPT !.step = "record"].step # "save" /\ R!Idle.step # "save"
      BY <3>1 DEF RingOps, R!Idle
    <3>3. ops' \in {[ops EXCEPT ![h] = R!Idle], [ops EXCEPT ![h] = [op EXCEPT !.step = "record"]]}
      BY <1>2, <3>1 DEF R!Write, R!SaveErrs
    <3>4. QED
      BY <2>1, <3>2, <3>3
  <2>3. QED
    BY <1>2, <2>1, <2>2 DEF R!StaleWrite
<1>3. \/ ring' = R!Gone
      \/ \E h \in Handlers : R!Write(h) \/ R!SaveErrs(h)
  BY DEF R!Next, R!Create, R!CreateErrs, R!DeadlinePasses, R!Expire, R!SweepClean, R!Record, R!Crash,
         R!Answer, R!Decline, R!Sweep, R!HandleWebhook, R!Load, R!Refuse, R!Join, R!Rejoin, R!HangUp,
         R!Disconnect, R!Drop, RVars
<1>4. QED
  BY <1>1, <1>2, <1>3

-----------------------------------------------------------------------------
(* The history.                                                            *)

LEMMA HistoryCardinality == ASSUME NEW S PROVE H!Cardinality(S) = Cardinality(S)
  BY DEF H!Cardinality, Cardinality, H!IsFiniteSet, IsFiniteSet

LEMMA LeastNat ==
  ASSUME NEW S \in SUBSET Nat, S # {}
  PROVE  \E m \in S : \A n \in S : m <= n
<1> DEFINE Less == {ss \in Nat \X Nat : ss[1] < ss[2]}
<1>1. IsWellFoundedOn(Less, Nat)
  BY NatLessThanWellFounded, Zenon DEF OpToRel
<1> HIDE DEF Less
<1>2. PICK m \in S : \A n \in S : ~(<<n, m>> \in Less)
  BY <1>1, WFMin
<1>3. ASSUME NEW n \in S PROVE m <= n
  <2>1. ~(n < m)
    BY <1>2 DEF Less
  <2>2. QED
    BY <2>1
<1>4. QED
  BY <1>3

LEMMA GreatestCall ==
  ASSUME NEW S \in SUBSET (1..NCalls), S # {}
  PROVE  \E m \in S : \A n \in S : n <= m
<1> USE HistoryConstants
<1> DEFINE T == {NCalls - i : i \in S}
<1>1. T \in SUBSET Nat /\ T # {}
  <2>1. \A i \in S : NCalls - i \in Nat
    OBVIOUS
  <2>2. QED
    BY <2>1
<1>2. PICK k \in T : \A n \in T : k <= n
  BY <1>1, LeastNat
<1>3. PICK m \in S : k = NCalls - m
  BY <1>2
<1>4. ASSUME NEW n \in S PROVE n <= m
  <2>1. NCalls - n \in T
    OBVIOUS
  <2>2. k <= NCalls - n
    BY <1>2, <2>1
  <2>3. QED
    BY <1>3, <2>2
<1>5. QED
  BY <1>4

\* Sizes of sets of calls.
LEMMA CallSets ==
  ASSUME NEW S \in SUBSET (1..NCalls)
  PROVE  /\ IsFiniteSet(S) /\ Cardinality(S) \in Nat
         /\ \A T \in SUBSET S : Cardinality(T) <= Cardinality(S) /\ Cardinality(T) \in Nat
         /\ \A T \in SUBSET S : Cardinality(T) = Cardinality(S) => T = S
<1>1. IsFiniteSet(1..NCalls)
  BY FS_Interval, HistoryConstants
<1>2. QED
  BY <1>1, FS_Subset, FS_CardinalityType

LEMMA CallSubsets ==
  ASSUME NEW S \in SUBSET (1..NCalls), NEW T \in SUBSET S
  PROVE  /\ Cardinality(T) \in Nat /\ Cardinality(S) \in Nat /\ Cardinality(T) <= Cardinality(S)
         /\ T # S => Cardinality(T) # Cardinality(S)
  BY CallSets

\* The calls of S that began after i.
Above(S, i) == {j \in S : j > i}

LEMMA AboveSize ==
  ASSUME NEW S \in SUBSET (1..NCalls), NEW i \in 1..NCalls
  PROVE  /\ Above(S, i) \in SUBSET S /\ Above(S, i) \in SUBSET (1..NCalls)
         /\ Cardinality(Above(S, i)) \in Nat
  <1>1. Above(S, i) \in SUBSET S
    BY DEF Above
  <1>2. QED
    BY <1>1, CallSets

(* The page, the cursor after it and what is below the cursor make up the  *)
(* rows that the query may return.                                         *)
LEMMA HistoryPage ==
  ASSUME NEW B \in SUBSET (1..NCalls), NEW L \in SUBSET B, NEW G \in SUBSET L,
         \A i \in B : i \in L <=> Cardinality(Above(B, i)) <= Limit,
         \A i \in L : i \in G <=> Cardinality(Above(L, i)) < Limit
  PROVE  /\ Cardinality(L) <= Limit => G = B
         /\ Cardinality(L) > Limit =>
              \E m \in L : /\ \A i \in L : m <= i
                           /\ \A i \in G : i > m
                           /\ \A i \in B : i \in G \/ i <= m
<1>a. Limit \in Nat /\ NCalls \in Nat /\ L \in SUBSET (1..NCalls) /\ Cardinality(L) \in Nat
  BY HistoryConstants, CallSets
<1>1. ASSUME Cardinality(L) <= Limit PROVE G = B
  <2>1. ASSUME B \ L # {} PROVE FALSE
    <3>1. B \ L \in SUBSET (1..NCalls)
      OBVIOUS
    <3>2. PICK i \in B \ L : \A n \in B \ L : n <= i
      BY <2>1, <3>1, GreatestCall
    <3>3. Above(B, i) \in SUBSET L
      <4>1. ASSUME NEW n \in Above(B, i), n \notin L PROVE FALSE
        <5>1. n \in B \ L /\ n > i /\ n \in 1..NCalls /\ i \in 1..NCalls
          BY <4>1 DEF Above
        <5>2. n <= i
          BY <3>2, <5>1
        <5>3. QED
          BY <1>a, <5>1, <5>2
      <4>2. QED
        BY <4>1
    <3>4. Cardinality(Above(B, i)) <= Cardinality(L) /\ Cardinality(Above(B, i)) \in Nat
      BY <1>a, <3>3, CallSubsets, Zenon
    <3>5. QED
      BY <1>a, <1>1, <3>2, <3>4
  <2>2. ASSUME NEW i \in L PROVE i \in G
    <3>1. Above(L, i) \in SUBSET L /\ Above(L, i) # L
      BY <1>a DEF Above
    <3>2. /\ Cardinality(Above(L, i)) <= Cardinality(L) /\ Cardinality(Above(L, i)) # Cardinality(L)
          /\ Cardinality(Above(L, i)) \in Nat
      BY <1>a, <3>1, CallSubsets, Zenon
    <3>3. QED
      BY <1>a, <1>1, <3>2
  <2>3. QED
    BY <2>1, <2>2
<1>2. ASSUME Cardinality(L) > Limit
      PROVE  \E m \in L : /\ \A i \in L : m <= i
                          /\ \A i \in G : i > m
                          /\ \A i \in B : i \in G \/ i <= m
  <2>1. L # {}
    <3>1. Cardinality({}) = 0
      BY FS_EmptySet
    <3>2. Cardinality(L) # 0
      BY <1>a, <1>2
    <3>3. QED
      BY <3>1, <3>2, Zenon
  <2>2. PICK m \in L : \A i \in L : m <= i
    <3>1. L \in SUBSET Nat
      BY <1>a
    <3>2. QED
      BY <2>1, <3>1, LeastNat
  <2>3. m \notin G
    <3>1. Above(L, m) = L \ {m}
      <4>1. \A i \in L : i > m <=> i # m
        <5>1. \A i \in L : i \in Int /\ m \in Int /\ m <= i
          BY <1>a, <2>2
        <5>2. QED
          BY <5>1
      <4>2. QED
        BY <4>1, Zenon DEF Above
    <3>2. Cardinality(L \ {m}) = Cardinality(L) - 1
      <4>1. IsFiniteSet(L)
        BY <1>a, CallSets
      <4>2. QED
        BY <4>1, FS_RemoveElement
    <3>3. QED
      BY <1>a, <1>2, <3>1, <3>2
  <2>4. ASSUME NEW i \in B, i \notin G, i > m PROVE FALSE
    <3>0. i \in 1..NCalls /\ m \in 1..NCalls /\ m \in B
      BY <1>a
    <3>1. Cardinality(Above(B, m)) <= Limit
      BY <3>0
    <3>2. Above(B, m) \in SUBSET (1..NCalls) /\ Cardinality(Above(B, m)) \in Nat
      BY <3>0, AboveSize
    <3>3. Above(B, i) \in SUBSET Above(B, m) /\ Above(B, i) # Above(B, m)
      <4>1. i \in Above(B, m) /\ i \notin Above(B, i)
        BY <2>4, <3>0 DEF Above
      <4>2. \A j \in B : j > i => j > m
        <5>1. \A j \in B : j \in Int
          OBVIOUS
        <5>2. QED
          BY <2>4, <3>0, <5>1
      <4>3. Above(B, i) \in SUBSET Above(B, m)
        BY <4>2, Zenon DEF Above
      <4>4. QED
        BY <4>1, <4>3
    <3>4. /\ Cardinality(Above(B, i)) <= Cardinality(Above(B, m)) /\ Cardinality(Above(B, i)) \in Nat
          /\ Cardinality(Above(B, i)) # Cardinality(Above(B, m))
      BY <3>2, <3>3, CallSubsets, Zenon
    <3>5. i \in L
      BY <1>a, <3>1, <3>2, <3>4
    <3>6. ~(Cardinality(Above(L, i)) < Limit)
      BY <2>4, <3>5
    <3>7. Above(L, i) \in SUBSET Above(B, i) /\ Above(B, i) \in SUBSET (1..NCalls)
      BY DEF Above
    <3>8. Cardinality(Above(L, i)) <= Cardinality(Above(B, i)) /\ Cardinality(Above(L, i)) \in Nat
      BY <3>7, CallSubsets, Zenon
    <3>9. QED
      BY <1>a, <3>1, <3>2, <3>4, <3>6, <3>8
  <2>5. ASSUME NEW i \in G PROVE i > m
    BY <1>a, <2>2, <2>3
  <2>6. ASSUME NEW i \in B PROVE i \in G \/ i <= m
    BY <1>a, <2>4
  <2>7. QED
    BY <2>2, <2>5, <2>6
<1>3. QED
  BY <1>1, <1>2

LEMMA HistoryInit == H!Init => H!HistoryInv
  BY DEF H!Init, H!HistoryInv, H!HistorySound, H!TypeOK, H!WalkSound, H!WalkFits, H!There, H!ListedIds,
         H!Rows, H!NoCursor

(* Upsert, PurgeOlderThan.                                                 *)
LEMMA HistoryWrite ==
  ASSUME H!HistoryInv, NEW i \in 1..NCalls,
         H!PurgeOlderThan(i) \/ \E o \in H!Outcomes : H!Upsert(i, o)
  PROVE  H!HistoryInv'
<1> USE HistoryConstants
<1>1. UNCHANGED <<began, walk, cursor, listed, twice, edges>>
  BY DEF H!PurgeOlderThan, H!Upsert
<1>2. /\ rec' \in [1..NCalls -> H!Rows]
      /\ stayed' \subseteq stayed
      /\ \A j \in 1..NCalls : /\ rec'[j] # H!None => rec'[j].kind = H!KindToDB(began[j])
                              /\ j \in stayed' => rec'[j] # H!None
  <2>1. CASE H!PurgeOlderThan(i)
    <3>1. rec' = [j \in 1..NCalls |-> IF j < i THEN H!None ELSE rec[j]]
          /\ stayed' = {j \in stayed : j >= i}
      BY <2>1 DEF H!PurgeOlderThan
    <3>2. rec \in [1..NCalls -> H!Rows] /\ H!None \in H!Rows
      BY DEF H!HistoryInv, H!Rows
    <3>3. QED
      BY <3>1, <3>2 DEF H!HistoryInv, H!There
  <2>2. ASSUME NEW o \in H!Outcomes, H!Upsert(i, o)
        PROVE  /\ rec' \in [1..NCalls -> H!Rows] /\ stayed' = stayed
               /\ \A j \in 1..NCalls : /\ rec'[j] # H!None => rec'[j].kind = H!KindToDB(began[j])
                                       /\ j \in stayed' => rec'[j] # H!None
    <3>1. rec \in [1..NCalls -> H!Rows] /\ began \in [1..NCalls -> {1, 2}]
      BY DEF H!HistoryInv, H!Kinds
    <3>2. PICK k \in {0, 1} : /\ k = H!KindToDB(began[i])
                              /\ k = IF rec[i] = H!None THEN H!KindToDB(began[i]) ELSE rec[i].kind
      <4>1. began[i] - 1 \in {0, 1}
        BY <3>1
      <4>2. QED
        BY <4>1 DEF H!HistoryInv, H!There, H!KindToDB
    <3>3. PICK r \in H!Rows : r = [kind |-> k, outcome |-> o]
      BY DEF H!Rows
    <3>4. r.kind = k
      BY <3>3
    <3>5. r # H!None
      BY <3>4 DEF H!None
    <3>6. rec' = [rec EXCEPT ![i] = r] /\ stayed' = stayed
      BY <2>2, <3>2, <3>3 DEF H!Upsert
    <3>7. QED
      BY <3>1, <3>2, <3>4, <3>5, <3>6 DEF H!HistoryInv, H!There
  <2>3. QED
    BY <2>1, <2>2
<1>3. H!TypeOK'
  <2>1. \A j \in 1..NCalls : rec'[j] # H!None => rec'[j].kind \in {0, 1} /\ rec'[j].outcome \in H!Outcomes
    BY <1>2 DEF H!Rows
  <2>2. QED
    BY <1>1, <2>1 DEF H!TypeOK, H!There, H!HistoryInv, H!HistorySound
<1>4. H!WalkSound' /\ H!WalkFits'
  BY <1>1, <1>2 DEF H!HistoryInv, H!HistorySound, H!WalkSound, H!WalkFits, H!ListedIds
<1>5. QED
  BY <1>1, <1>2, <1>3, <1>4 DEF H!HistoryInv, H!HistorySound, H!There

LEMMA HistoryList ==
  ASSUME H!HistoryInv, H!List
  PROVE  H!HistoryInv'
<1> USE HistoryConstants
<1> DEFINE B == {i \in H!There : cursor = H!NoCursor \/ i < cursor}
           L == H!Selected
           G == H!Page
<1>0. /\ walk \in {"new", "more"} /\ B \in SUBSET (1..NCalls) /\ L \in SUBSET B /\ G \in SUBSET L
      /\ G \subseteq H!There /\ stayed \subseteq H!There /\ H!There \subseteq 1..NCalls
      /\ L \in SUBSET (1..NCalls)
  BY DEF H!HistoryInv, H!List, H!There, H!Selected, H!Page
<1>1. /\ \A i \in B : i \in L <=> Cardinality(Above(B, i)) <= Limit
      /\ \A i \in L : i \in G <=> Cardinality(Above(L, i)) < Limit
  BY HistoryCardinality DEF H!Selected, H!Page, Above
<1>2. /\ rec' = rec /\ began' = began
      /\ stayed' = IF walk = "new" THEN H!There ELSE stayed
      /\ listed' = listed \cup {[id |-> i, kind |-> H!KindFromDB(rec[i].kind)] : i \in G}
      /\ twice' = twice \cup {i \in G : \E r \in listed : r.id = i}
  BY DEF H!List
<1>3. /\ \A i \in G : [id |-> i, kind |-> H!KindFromDB(rec[i].kind)] = [id |-> i, kind |-> began[i]]
      /\ began \in [1..NCalls -> H!Kinds]
  <2>1. ASSUME NEW i \in G PROVE H!KindFromDB(rec[i].kind) = began[i]
    <3>1. rec[i].kind = began[i] - 1 /\ began[i] \in {1, 2}
      BY <1>0 DEF H!HistoryInv, H!KindToDB, H!Kinds
    <3>2. QED
      BY <3>1 DEF H!KindFromDB
  <2>2. QED
    BY <2>1 DEF H!HistoryInv
<1>4. /\ listed' \subseteq [id : 1..NCalls, kind : H!Kinds]
      /\ \A r \in listed' : r.kind = began[r.id] /\ (r \in listed \/ r.id \in G)
      /\ \A i : i \in H!ListedIds' <=> i \in H!ListedIds \/ i \in G
  <2>1. listed' = listed \cup {[id |-> i, kind |-> began[i]] : i \in G}
    BY <1>2, <1>3
  <2>2. \A i \in G : /\ [id |-> i, kind |-> began[i]] \in [id : 1..NCalls, kind : H!Kinds]
                     /\ [id |-> i, kind |-> began[i]].id = i /\ [id |-> i, kind |-> began[i]].kind = began[i]
    BY <1>0, <1>3
  <2>3. listed \subseteq [id : 1..NCalls, kind : H!Kinds] /\ \A r \in listed : r.kind = began[r.id]
    BY DEF H!HistoryInv, H!HistorySound, H!WalkSound
  <2>4. ASSUME NEW r \in listed' PROVE r \in listed \/ \E i \in G : r = [id |-> i, kind |-> began[i]]
    BY <2>1
  <2>5. ASSUME NEW i PROVE i \in H!ListedIds' <=> i \in H!ListedIds \/ i \in G
    <3>1. ASSUME i \in H!ListedIds' PROVE i \in H!ListedIds \/ i \in G
      <4>1. PICK r \in listed' : r.id = i
        BY <3>1 DEF H!ListedIds
      <4>2. QED
        BY <2>2, <2>4, <4>1 DEF H!ListedIds
    <3>2. ASSUME i \in G PROVE i \in H!ListedIds'
      <4>1. PICK r \in listed' : r = [id |-> i, kind |-> began[i]]
        BY <2>1, <3>2
      <4>2. QED
        BY <2>2, <3>2, <4>1 DEF H!ListedIds
    <3>3. ASSUME i \in H!ListedIds PROVE i \in H!ListedIds'
      BY <2>1, <3>3 DEF H!ListedIds
    <3>4. QED
      BY <3>1, <3>2, <3>3
  <2>6. QED
    BY <2>2, <2>3, <2>4, <2>5
<1>5. twice' = {}
  <2>1. ASSUME NEW i \in G, NEW r \in listed, r.id = i PROVE FALSE
    <3>1. walk = "more" /\ cursor \in 1..NCalls /\ i > cursor
      BY <1>0, <2>1 DEF H!HistoryInv, H!WalkFits
    <3>2. i < cursor
      BY <1>0, <3>1 DEF H!NoCursor
    <3>3. QED
      BY <1>0, <3>1, <3>2
  <2>2. QED
    BY <1>2, <2>1 DEF H!HistoryInv, H!HistorySound, H!WalkSound
<1>6. \A i \in stayed' : i \in B \/ i \in H!ListedIds \cup edges
  BY <1>0, <1>2 DEF H!HistoryInv, H!WalkFits, H!NoCursor
<1>7. /\ walk' \in {"more", "done"} /\ H!WalkFits' /\ cursor' \in 1..NCalls \cup {H!NoCursor}
      /\ walk' = "done" => stayed' \subseteq H!ListedIds' \cup edges'
  <2>1. CASE Cardinality(L) <= Limit
    <3>1. G = B
      BY <1>0, <1>1, <2>1, HistoryPage
    <3>2. H!NextCursor = H!NoCursor
      BY <1>0, <2>1, CallSets, HistoryCardinality DEF H!NextCursor
    <3>3. walk' = "done" /\ edges' = edges /\ cursor' = H!NoCursor
      BY <3>2 DEF H!List
    <3>4. QED
      BY <1>4, <1>6, <3>1, <3>3 DEF H!WalkFits
  <2>2. CASE Cardinality(L) > Limit
    <3>1. PICK m \in L : /\ \A i \in L : m <= i
                         /\ \A i \in G : i > m
                         /\ \A i \in B : i \in G \/ i <= m
      <4> HIDE DEF B, L, G
      <4>1. \E m \in L : /\ \A i \in L : m <= i
                         /\ \A i \in G : i > m
                         /\ \A i \in B : i \in G \/ i <= m
        BY <1>0, <1>1, <2>2, HistoryPage, Zenon
      <4>2. QED
        BY <4>1
    <3>2. H!Min(L) = m
      <4>1. H!Min(L) \in L /\ \A i \in L : H!Min(L) <= i
        BY <3>1 DEF H!Min
      <4>2. \A i \in L : i \in Int
        BY <1>0
      <4>3. H!Min(L) <= m /\ m <= H!Min(L) /\ H!Min(L) \in Int /\ m \in Int
        BY <3>1, <4>1, <4>2
      <4>4. QED
        BY <4>3
    <3>3. H!NextCursor = m /\ m # H!NoCursor /\ m \in 1..NCalls
      BY <1>0, <2>2, <3>2, HistoryCardinality DEF H!NextCursor, H!NoCursor
    <3>4. walk' = "more" /\ edges' = edges \cup {m} /\ cursor' = m
      BY <3>3 DEF H!List
    <3>5. ASSUME NEW r \in listed' PROVE r.id > m
      <4>1. CASE r.id \in G
        BY <3>1, <4>1
      <4>2. CASE r \in listed
        <5>1. walk = "more" /\ cursor \in 1..NCalls /\ r.id > cursor /\ r.id \in 1..NCalls
          BY <1>0, <4>2 DEF H!HistoryInv, H!WalkFits
        <5>2. m < cursor
          BY <1>0, <5>1 DEF H!NoCursor
        <5>3. QED
          BY <1>0, <3>3, <5>1, <5>2
      <4>3. QED
        BY <1>4, <4>1, <4>2
    <3>6. ASSUME NEW i \in stayed' PROVE i < m \/ i \in H!ListedIds' \cup edges'
      BY <1>0, <1>4, <1>6, <3>1, <3>3, <3>4
    <3>7. QED
      BY <3>3, <3>4, <3>5, <3>6 DEF H!WalkFits
  <2>3. QED
    BY <1>0, <2>1, <2>2, CallSets
<1>8. H!There' = H!There /\ stayed' \subseteq H!There
  BY <1>0, <1>2 DEF H!There
<1>9. H!TypeOK'
  BY <1>2, <1>7, <1>8 DEF H!HistoryInv, H!HistorySound, H!TypeOK
<1>10. QED
  BY <1>2, <1>4, <1>5, <1>7, <1>8, <1>9 DEF H!HistoryInv, H!HistorySound, H!WalkSound

LEMMA HistoryStep == H!HistoryInv /\ [H!Next]_HVars => H!HistoryInv'
<1> SUFFICES ASSUME H!HistoryInv, [H!Next]_HVars PROVE H!HistoryInv'
  OBVIOUS
<1>1. CASE UNCHANGED HVars
  BY <1>1 DEF HVars, H!HistoryInv, H!HistorySound, H!TypeOK, H!WalkSound, H!WalkFits, H!There, H!ListedIds
<1>2. CASE H!Next
  BY <1>2, HistoryWrite, HistoryList DEF H!Next
<1>3. QED
  BY <1>1, <1>2

-----------------------------------------------------------------------------
(* The properties of the run, for every value of the constants.            *)

LEMMA PartStep ==
  ASSUME [MCNext]_mcvars
  PROVE  part' = part /\ [R!Next]_RVars /\ (part = "history" => [H!Next]_HVars)
<1>1. CASE UNCHANGED mcvars
  BY <1>1 DEF mcvars
<1>2. CASE MCNext
  BY <1>2 DEF MCNext
<1>3. QED
  BY <1>1, <1>2

(* Whatever handlers, sweeper, webhooks and clients do to a ring, for any  *)
(* number of handlers and called devices, the sweeper's index says whether *)
(* the stored record rings, and a completed call was answered (CallRing).  *)
THEOREM RingIsSound == MCSpec => []RingSound
<1>1. MCInit => RingSound
  BY RingInit DEF MCInit, RingSound
<1>2. RingSound /\ [MCNext]_mcvars => RingSound'
  BY PartStep, RingStep DEF RingSound
<1>3. QED
  BY <1>1, <1>2, PTL DEF MCSpec

(* A stored ring follows domain.Next's arrows or expires, unless a handler *)
(* writes over what another one wrote since its read (CallRing).           *)
THEOREM RingGoesOneWay == MCSpec => RingOneWay
<1>1. RingSound /\ [MCNext]_mcvars =>
        [ring' # ring /\ created =>
           \/ ring.state = "ringing"
           \/ ring.state = "answered" /\ ring'.state = "ended"
           \/ ring' = R!Gone
           \/ R!StaleWrite]_(R!vars)
  BY PartStep, RingArrows DEF RingSound
<1>2. QED
  BY <1>1, RingIsSound, PTL DEF MCSpec, RingOneWay, R!OneWay

(* A walk over a history of any length, with any page size, lists each     *)
(* record once as the call was made, and of the ones that stayed leaves    *)
(* out only those whose id it used as a cursor (CallHistory).              *)
THEOREM HistoryIsSound == MCSpec => []HistorySound
<1>1. MCInit => HistorySound
  BY HistoryInit DEF MCInit, HistorySound
<1>2. HistorySound /\ [MCNext]_mcvars => HistorySound'
  BY PartStep, HistoryStep DEF HistorySound
<1>3. QED
  BY <1>1, <1>2, PTL DEF MCSpec
=============================================================================
