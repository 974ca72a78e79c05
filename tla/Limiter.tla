------------------------------ MODULE Limiter ------------------------------
(***************************************************************************)
(* The GCRA rate limiter for one key (platform/ratelimit/gcra.go and its   *)
(* Lua twin in valkey.go).  Time is a number of microseconds; the rates    *)
(* the server configures have emission intervals of whole microseconds or  *)
(* longer, and the script receives them in that unit.  The memory backend  *)
(* keeps the theoretical arrival time for ever, Valkey lets the key expire.*)
(***************************************************************************)
EXTENDS Integers, Sequences

CONSTANTS
    Emission,   \* T, the interval between admitted events
    Burst,
    Second,     \* microseconds in the unit of Valkey's EX
    MaxTime     \* the clock stops here

VARIABLES
    now,
    tat,        \* MemoryLimiter.tats[key], 0 when there is none
    key,        \* the Valkey key: the TAT, or Gone
    expires,    \* when the key expires
    admitted    \* history: the times of the admitted events

vars == <<now, tat, key, expires, admitted>>

Gone == -1

(* Mutant of Tolerance: Burst intervals.                                   *)
ToleranceFull == Burst * Emission

Tolerance == (Burst - 1) * Emission

Init == now = 0 /\ tat = 0 /\ key = Gone /\ expires = 0 /\ admitted = <<>>

Later(a, b) == IF a < b THEN b ELSE a

(* decide, on the arrival time not earlier than now.                       *)
Allowed(arrival) == arrival - now <= Tolerance
RetryAfter(arrival) == arrival - now - Tolerance

(* Mutant of Ttl: the key lives for one second.                            *)
TtlOne(newtat) == 1

(* The script's TTL: the seconds until the new TAT, rounded up, and one.   *)
Ttl(newtat) == ((newtat - now + Second - 1) \div Second) + 1

(* One attempt, decided by both backends.  A denied one changes nothing.   *)
Allow ==
    LET arrival == Later(tat, now)
        varrival == IF key = Gone THEN now ELSE Later(key, now)
    IN  /\ IF Allowed(arrival)
           THEN /\ tat' = arrival + Emission
                /\ admitted' = Append(admitted, now)
           ELSE UNCHANGED <<tat, admitted>>
        /\ IF Allowed(varrival)
           THEN /\ key' = varrival + Emission
                /\ expires' = now + Second * Ttl(varrival + Emission)
           ELSE UNCHANGED <<key, expires>>
        /\ UNCHANGED now

(* Time passes; an expired key is gone.                                    *)
Tick ==
    /\ now < MaxTime
    /\ now' = now + 1
    /\ key' = IF key # Gone /\ expires <= now' THEN Gone ELSE key
    /\ UNCHANGED <<tat, expires, admitted>>

Next == Allow \/ Tick

-----------------------------------------------------------------------------
TypeOK ==
    /\ now \in 0..MaxTime
    /\ tat \in Nat /\ key \in Nat \cup {Gone}
    /\ admitted \in Seq(0..MaxTime)

(* No window admits more than the burst and the sustained rate: between    *)
(* any two admitted events lie at most Burst - 1 of them plus one for      *)
(* every interval that passed.                                             *)
RateHolds ==
    \A i, j \in DOMAIN admitted : i <= j =>
        j - i + 1 <= Burst + (admitted[j] - admitted[i]) \div Emission

(* The two backends decide alike, though the Valkey key expires.           *)
BackendsAgree ==
    Allowed(Later(tat, now)) <=> Allowed(IF key = Gone THEN now ELSE Later(key, now))

(* A denied caller that waits RetryAfter is served, and one that comes     *)
(* earlier is not.                                                         *)
RetryIsExact ==
    LET arrival == Later(tat, now)
        at(t) == Later(tat, t) - t <= Tolerance
    IN  ~Allowed(arrival) =>
            /\ at(now + RetryAfter(arrival))
            /\ ~at(now + RetryAfter(arrival) - 1)

LimiterSound == TypeOK /\ RateHolds /\ BackendsAgree /\ RetryIsExact

(* Every admitted event has pushed the arrival time on by one interval,    *)
(* and the key goes only once it no longer matters.                        *)
Pushed == \A i \in DOMAIN admitted :
    /\ admitted[i] <= now
    /\ admitted[i] + (Len(admitted) - i + 1) * Emission <= tat

(* The inductive strengthening.                                            *)
LimiterInv ==
    /\ LimiterSound /\ Pushed
    /\ expires \in Int
    /\ IF key = Gone THEN tat <= now ELSE key = tat /\ tat <= expires
=============================================================================
