------------------------------- MODULE Polls -------------------------------
(***************************************************************************)
(* One poll (polls/service.go, polls/domain/poll.go, polls/adapters/pg.go).*)
(* A vote replaces the voter's rows in a transaction: the DELETE removes   *)
(* the rows it could see when it began, the INSERTs add the new ones and a *)
(* row that is already there makes the transaction fail.                   *)
(***************************************************************************)
EXTENDS Integers, FiniteSets

CONSTANTS Voters, Options, Handlers, Multi, MaxFaults

VARIABLES
    poll,      \* polls: "none", "open" or "closed"
    past,      \* has closes_at passed
    votes,     \* poll_votes: the options of each voter
    job,       \* what each running handler has read and does next
    doubled,   \* history: voters two of whose votes overlapped
    late,      \* history: voters whose vote was under way at the closing
    final,     \* history: the votes at the closing
    faults

vars == <<poll, past, votes, job, doubled, late, final, faults>>

Idle == [at |-> "idle"]
Voting(u) == \E h \in Handlers : job[h] # Idle /\ job[h].u = u

Init ==
    /\ poll = "none" /\ past = FALSE
    /\ votes = [u \in Voters |-> {}]
    /\ job = [h \in Handlers |-> Idle]
    /\ doubled = {} /\ late = {} /\ final = votes /\ faults = 0

Become(h, next) == job' = [job EXCEPT ![h] = next]

Create ==
    /\ poll = "none"
    /\ poll' = "open"
    /\ UNCHANGED <<past, votes, job, doubled, late, final, faults>>

IsClosed == poll = "closed" \/ past

(* Mutant of ValidateVote: a single-choice poll takes several options.     *)
ValidateAnyVote(picks) == picks # {}

ValidateVote(picks) == picks # {} /\ (Multi \/ Cardinality(picks) = 1)

(* Vote is checked against the poll that was loaded, and written later.    *)
Vote(h, u, picks) ==
    /\ job[h] = Idle /\ poll # "none" /\ ~IsClosed /\ ValidateVote(picks)
    /\ Become(h, [at |-> "delete", u |-> u, picks |-> picks])
    /\ doubled' = IF Voting(u) THEN doubled \cup {u} ELSE doubled
    /\ UNCHANGED <<poll, past, votes, late, final, faults>>

(* Mutant of Removed: a new vote is added to the old one.                  *)
RemovedNone(u) == {}

Removed(u) == votes[u]

DeleteVotes(h) ==
    /\ job[h].at = "delete"
    /\ Become(h, [at |-> "insert", u |-> job[h].u, picks |-> job[h].picks,
                  old |-> Removed(job[h].u)])
    /\ UNCHANGED <<poll, past, votes, doubled, late, final, faults>>

ReplaceVotes(h) ==
    LET u == job[h].u
        left == votes[u] \ job[h].old
    IN  /\ job[h].at = "insert"
        /\ votes' = [votes EXCEPT ![u] = IF left \cap job[h].picks = {} THEN left \cup job[h].picks
                                         ELSE @]
        /\ Become(h, Idle)
        /\ UNCHANGED <<poll, past, doubled, late, final, faults>>

InFlight == {u \in Voters : Voting(u)}

Close ==
    /\ poll = "open"
    /\ poll' = "closed"
    /\ IF past THEN UNCHANGED <<late, final>> ELSE late' = InFlight /\ final' = votes
    /\ UNCHANGED <<past, votes, job, doubled, faults>>

DeadlinePasses ==
    /\ poll # "none" /\ ~past
    /\ past' = TRUE
    /\ IF poll = "closed" THEN UNCHANGED <<late, final>> ELSE late' = InFlight /\ final' = votes
    /\ UNCHANGED <<poll, votes, job, doubled, faults>>

(* The rows of poll_votes; counted per option, and by their voters.        *)
Rows == {r \in Voters \X Options : r[2] \in votes[r[1]]}
Tally(i) == Cardinality({r \in Rows : r[2] = i})
TotalVoters == Cardinality({r[1] : r \in Rows})

(* Service.Results.                                                        *)
Results ==
    [closed |-> IsClosed, total |-> TotalVoters, tallies |-> [i \in Options |-> Tally(i)]]

Abandon(h) ==
    /\ job[h] # Idle /\ faults < MaxFaults
    /\ faults' = faults + 1
    /\ Become(h, Idle)
    /\ UNCHANGED <<poll, past, votes, doubled, late, final>>

Next ==
    \/ Create \/ Close \/ DeadlinePasses
    \/ \E h \in Handlers :
        \/ DeleteVotes(h) \/ ReplaceVotes(h) \/ Abandon(h)
        \/ \E u \in Voters, picks \in SUBSET Options : Vote(h, u, picks)

-----------------------------------------------------------------------------
TypeOK ==
    /\ poll \in {"none", "open", "closed"}
    /\ votes \in [Voters -> SUBSET Options]

(* One voter, one choice: in a single-choice poll nobody has two options,  *)
(* and there are as many votes as voters, unless two votes of the same     *)
(* voter overlapped; no option has more votes than there are voters.       *)
OneChoice ==
    /\ \A i \in Options : Results.tallies[i] <= Results.total
    /\ ~Multi => /\ \A u \in Voters \ doubled : Cardinality(votes[u]) <= 1
                 /\ doubled = {} => Results.total = Cardinality(Rows)

(* A closed poll is final, except for the votes already being written when *)
(* it was closed.                                                          *)
ClosedIsFinal == IsClosed => \A u \in Voters \ late : votes[u] = final[u]

PollsSound == TypeOK /\ OneChoice /\ ClosedIsFinal

(* A vote under way was checked, and is that of a voter.                   *)
JobFits(j) ==
    /\ j.at \in {"idle", "delete", "insert"}
    /\ j # Idle => /\ j.at # "idle" /\ j.u \in Voters /\ j.picks \subseteq Options
                   /\ ~Multi => Cardinality(j.picks) = 1

(* A voter whose votes did not overlap has one under way, and once it has  *)
(* read the rows to delete they stay.                                      *)
VotesAlone ==
    /\ \A g, h \in Handlers :
          job[g] # Idle /\ job[h] # Idle /\ job[g].u = job[h].u => g = h \/ job[g].u \in doubled
    /\ \A h \in Handlers :
          job[h].at = "insert" => job[h].old = votes[job[h].u] \/ job[h].u \in doubled

(* The inductive invariant: after the closing only late votes are written. *)
PollsInv ==
    /\ PollsSound
    /\ job = [h \in Handlers |-> job[h]] /\ \A h \in Handlers : JobFits(job[h])
    /\ VotesAlone
    /\ IsClosed => \A h \in Handlers : job[h] # Idle => job[h].u \in late
=============================================================================
