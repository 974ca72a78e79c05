------------------------------ MODULE Prekeys ------------------------------
(***************************************************************************)
(* Prekeys of the devices of one user (keys/service.go, keys/adapters/     *)
(* pg.go): a device publishes a signed prekey and one-time prekeys, a      *)
(* sender fetches one bundle per device and claims a one-time prekey of    *)
(* each, a revocation deletes the rows of a device.                        *)
(*                                                                         *)
(* ConsumeBundle is one transaction, but its statements run at READ        *)
(* COMMITTED and lock rows one at a time, so each of them is a step.       *)
(***************************************************************************)
EXTENDS Integers, FiniteSets

CONSTANTS
    Devices,
    KeyIds,      \* ids of one-time prekeys, natural numbers
    Fetchers,    \* FetchBundle calls that may run at the same time
    MaxFaults

VARIABLES
    active,      \* devices that are not revoked
    signed,      \* devices that have a signed prekey
    prekey,      \* rows of prekeys: "none", "free" or "used"
    publishing,  \* devices between the two writes of Publish
    fetch,       \* per call: devices still to visit, keys claimed so far
    handed,      \* history: how often a one-time prekey was handed out
    faults

vars == <<active, signed, prekey, publishing, fetch, handed, faults>>

Idle == [at |-> "idle", todo |-> {}, got |-> {}]

Init ==
    /\ active = Devices
    /\ signed = {}
    /\ prekey = [d \in Devices |-> [k \in KeyIds |-> "none"]]
    /\ publishing = {}
    /\ fetch = [f \in Fetchers |-> Idle]
    /\ handed = [d \in Devices |-> [k \in KeyIds |-> 0]]
    /\ faults = 0

Locked == UNION {fetch[f].got : f \in Fetchers}

(* Publish: the signed prekey is upserted first.  The device is known by   *)
(* its access token, which outlives a revocation.                          *)
ReplaceSignedPrekey(d) ==
    /\ d \notin publishing
    /\ signed' = signed \cup {d}
    /\ publishing' = publishing \cup {d}
    /\ UNCHANGED <<active, prekey, fetch, handed, faults>>

(* Mutant of Added: an upload overwrites what is there.                    *)
AddedOver(ids, keys) == [k \in KeyIds |-> IF k \in ids THEN "free" ELSE keys[k]]

(* One batch, ON CONFLICT DO NOTHING: a key id that is there stays as it   *)
(* is.  A failed batch leaves the signed prekey alone.                     *)
Added(ids, keys) ==
    [k \in KeyIds |-> IF k \in ids /\ keys[k] = "none" THEN "free" ELSE keys[k]]

AddOneTimePrekeys(d, ids) ==
    /\ d \in publishing
    /\ publishing' = publishing \ {d}
    /\ \/ prekey' = [prekey EXCEPT ![d] = Added(ids, @)] /\ UNCHANGED faults
       \/ faults < MaxFaults /\ faults' = faults + 1 /\ UNCHANGED prekey
    /\ UNCHANGED <<active, signed, fetch, handed>>

(* FetchBundle, past the limiter: the devices that are active now.         *)
FetchBundle(f) ==
    /\ fetch[f].at = "idle" /\ active # {}
    /\ fetch' = [fetch EXCEPT ![f] = [at |-> "claim", todo |-> active, got |-> {}]]
    /\ UNCHANGED <<active, signed, prekey, publishing, handed, faults>>

(* The lowest free key that no other transaction has locked (SKIP LOCKED). *)
Pickable(d) == {k \in KeyIds : prekey[d][k] = "free" /\ <<d, k>> \notin Locked}

Claim(f, d) ==
    /\ fetch[f].at = "claim" /\ d \in fetch[f].todo
    /\ LET picked == {k \in Pickable(d) : d \in signed /\ \A j \in Pickable(d) : k <= j}
       IN  fetch' = [fetch EXCEPT ![f].todo = @ \ {d},
                                  ![f].got = @ \cup {<<d, k>> : k \in picked}]
    /\ UNCHANGED <<active, signed, prekey, publishing, handed, faults>>

CommitBundle(f) ==
    /\ fetch[f].at = "claim" /\ fetch[f].todo = {}
    /\ LET got == fetch[f].got
       IN  /\ prekey' = [d \in Devices |-> [k \in KeyIds |->
                           IF <<d, k>> \in got THEN "used" ELSE prekey[d][k]]]
           /\ handed' = [d \in Devices |-> [k \in KeyIds |->
                           IF <<d, k>> \in got THEN handed[d][k] + 1 ELSE handed[d][k]]]
    /\ fetch' = [fetch EXCEPT ![f] = Idle]
    /\ UNCHANGED <<active, signed, publishing, faults>>

(* A statement fails: the rollback releases the locks, nothing was used.   *)
RollbackBundle(f) ==
    /\ fetch[f].at = "claim" /\ faults < MaxFaults
    /\ faults' = faults + 1
    /\ fetch' = [fetch EXCEPT ![f] = Idle]
    /\ UNCHANGED <<active, signed, prekey, publishing, handed>>

(* RevokeDevice deletes the rows; the DELETE waits for locked rows.        *)
RevokeDevice(d) ==
    /\ d \in active
    /\ \A k \in KeyIds : <<d, k>> \notin Locked
    /\ active' = active \ {d}
    /\ signed' = signed \ {d}
    /\ prekey' = [prekey EXCEPT ![d] = [k \in KeyIds |-> "none"]]
    /\ UNCHANGED <<publishing, fetch, handed, faults>>

Next ==
    \/ \E d \in Devices : ReplaceSignedPrekey(d) \/ RevokeDevice(d)
    \/ \E d \in Devices, ids \in SUBSET KeyIds : AddOneTimePrekeys(d, ids)
    \/ \E f \in Fetchers :
          FetchBundle(f) \/ CommitBundle(f) \/ RollbackBundle(f)
          \/ \E d \in Devices : Claim(f, d)

-----------------------------------------------------------------------------
TypeOK ==
    /\ active \subseteq Devices /\ signed \subseteq Devices
    /\ prekey \in [Devices -> [KeyIds -> {"none", "free", "used"}]]
    /\ \A f \in Fetchers : fetch[f].todo \subseteq Devices

(* keys/service.go "Concurrent calls MUST never hand out the same one-time *)
(* prekey twice": neither two fetches nor a repeated upload make a key     *)
(* available again while the device is not revoked.                        *)
PrekeyOnce ==
    \A d \in active, k \in KeyIds :
        /\ handed[d][k] <= 1
        /\ handed[d][k] = 1 => prekey[d][k] = "used"
        /\ Cardinality({f \in Fetchers : <<d, k>> \in fetch[f].got}) <= 1

PrekeysSound == TypeOK /\ PrekeyOnce

(* A claimed key is free, and claimed by one call: a revocation waits for  *)
(* the lock and a second claim skips it.                                   *)
ClaimsHold ==
    \A f \in Fetchers : \A c \in fetch[f].got :
        /\ prekey[c[1]][c[2]] = "free"
        /\ \A g \in Fetchers : c \in fetch[g].got => f = g

(* The inductive invariant.                                                *)
PrekeysInv ==
    /\ PrekeysSound
    /\ fetch \in [Fetchers -> [at : {"idle", "claim"}, todo : SUBSET Devices,
                               got : SUBSET (Devices \X KeyIds)]]
    /\ handed \in [Devices -> [KeyIds -> Nat]]
    /\ ClaimsHold
=============================================================================
