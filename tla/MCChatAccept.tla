---------------------------- MODULE MCChatAccept ----------------------------
(* Two members, two devices, one conversation; m1 is a message and m2 an   *)
(* edit overlay of the same sender.                                        *)
EXTENDS ChatAccept, TLC, TLAPS

CONSTANTS m1, m2, k1, alice, bob, a1, b1

MCConvOf == [m \in Msgs |-> k1]
MCSender == [m \in Msgs |-> a1]
MCUserOf == (a1 :> alice) @@ (b1 :> bob)

Symmetry == Permutations(Calls)

-----------------------------------------------------------------------------
(***************************************************************************)
(* Proofs about the accept pipeline for every number of calls, messages,   *)
(* conversations, devices and faults.  The inductive invariant IInv adds   *)
(* to the properties what each call knows at its program counter:          *)
(*   LockInv    a call inside the transaction holds its conversation's row *)
(*              lock and its seq is the next one;                          *)
(*   AnswerInv  a seq that is about to be recorded, published or answered, *)
(*              or is stored in a dedupe key, is in the inbox;             *)
(*   ClaimInv   for a send that is neither aged nor unknown, the claim has *)
(*              at most one owner, the key exists while it has one or the  *)
(*              send is accepted, and an owner before COMMIT has not been  *)
(*              accepted.                                                  *)
(***************************************************************************)


LockInv ==
    \A c \in Calls : pc[c] \in {"insert", "commit"} =>
        /\ rowLock[Conv(c)] = c
        /\ seq[c] = convSeq[Conv(c)] + 1

Stored(m, n) == \E r \in accepted : r.msg = m /\ r.seq = n

AnswerInv ==
    /\ \A c \in Calls :
          /\ pc[c] \in {"record", "publish"} =>
                Accept(Conv(c), seq[c], msg[c], to[c]) \in accepted
          /\ pc[c] # "reply" => res[c] # "ack"
          /\ pc[c] = "reply" /\ res[c] = "ack" =>
                Stored(msg[c], seq[c])
    /\ \A m \in Msgs : dedupe[m] \notin {Absent, Pending} => Stored(m, dedupe[m])

Early == {"begin", "assign", "insert", "commit", "release"}
Late == {"record", "publish"}

ClaimInv ==
    \A m \in Msgs \ (aged \cup unknown) :
        /\ \A c \in Calls : msg[c] = m /\ pc[c] \in Early =>
              /\ dedupe[m] = Pending
              /\ \A a \in accepted : a.msg # m
        /\ \A c \in Calls : msg[c] = m /\ pc[c] \in Late =>
              dedupe[m] # Absent
        /\ \A c, d \in Calls :
              /\ msg[c] = m /\ pc[c] \in Early \cup Late
              /\ msg[d] = m /\ pc[d] \in Early \cup Late
              => c = d
        /\ (\E a \in accepted : a.msg = m) => dedupe[m] # Absent

IInv ==
    /\ TypeOK
    /\ LockInv
    /\ SeqsDense
    /\ AnswerInv
    /\ AckIsDurable
    /\ PublishedIsDurable
    /\ ClaimInv
    /\ AtMostOnce
-----------------------------------------------------------------------------
USE DEF Goto, Answer, AnswerAck, Reset, Free, TxFailed, MayRun, MayFail, Conv

LEMMA TypeInit == Init => TypeOK
  BY ConstantsAssumption
  DEF Init, TypeOK, PCs, Results, AcceptRecords

LEMMA TypeStep ==
  ASSUME TypeOK, NEW c \in Calls, Step(c) \/ Deadline(c) \/ Crash(c)
  PROVE  TypeOK'
<1> USE ConstantsAssumption DEF TypeOK, PCs, Results
<1>1. CASE Claim(c)
  BY <1>1 DEF Claim, KeyFree, KeyCommitted
<1>2. CASE TxError(c)
  BY <1>2 DEF TxError, Unlocked
<1>3. CASE CheckMember(c)
  BY <1>3 DEF CheckMember
<1>4. CASE AssignSeq(c)
  BY <1>4 DEF AssignSeq
<1>5. CASE InsertRows(c)
  BY <1>5 DEF InsertRows, Recipients
<1>6. CASE CommitTx(c)
  BY <1>6 DEF CommitTx, TakesEffect, Unlocked, AcceptRecords, Accept
<1>7. CASE CommitUnknown(c)
  BY <1>7 DEF CommitUnknown, TakesEffect, Unlocked, AcceptRecords, Accept
<1>8. CASE Release(c)
  BY <1>8 DEF Release
<1>9. CASE Record(c)
  BY <1>9 DEF Record
<1>10. CASE Publish(c)
  BY <1>10 DEF Publish, AcceptRecords, Accept
<1>11. CASE Reply(c)
  BY <1>11 DEF Reply
<1>12. CASE Deadline(c)
  BY <1>12 DEF Deadline
<1>13. CASE Crash(c)
  BY <1>13 DEF Crash, Unlocked
<1> HIDE DEF TypeOK, PCs, Results
<1>14. QED
  BY <1>1, <1>2, <1>3, <1>4, <1>5, <1>6, <1>7, <1>8, <1>9, <1>10, <1>11,
     <1>12, <1>13 DEF Step

LEMMA TypeEnvironment ==
  ASSUME TypeOK
  PROVE  /\ \A c \in Calls, m \in Msgs : Start(c, m) => TypeOK'
         /\ \A m \in Msgs : Expire(m) \/ CloseWindow(m) => TypeOK'
         /\ \A k \in Convs, u \in Movers : ChangeMembers(k, u) => TypeOK'
         /\ UNCHANGED vars => TypeOK'
<1> USE ConstantsAssumption DEF TypeOK, calls
<1>1. \A c \in Calls, m \in Msgs : Start(c, m) => TypeOK'
  <2> SUFFICES ASSUME NEW c \in Calls, NEW m \in Msgs, Start(c, m)
               PROVE  TypeOK'
    OBVIOUS
  <2>1. pc' \in [Calls -> PCs] /\ res' \in [Calls -> Results]
    BY DEF Start, PCs, Results
  <2>2. /\ msg' \in [Calls -> Msgs \cup {NoMsg}]
        /\ \A d \in Calls : pc'[d] # "idle" => msg'[d] \in Msgs
    BY DEF Start
  <2>3. ctx' \in [Calls -> BOOLEAN]
    BY DEF Start
  <2>4. seq' \in [Calls -> Nat]
    BY DEF Start
  <2>5. to' \in [Calls -> SUBSET Devices]
    BY DEF Start
  <2>6. QED
    BY <2>1, <2>2, <2>3, <2>4, <2>5 DEF Start
<1>2. \A m \in Msgs : Expire(m) => TypeOK'
  BY DEF Expire
<1>3. \A m \in Msgs : CloseWindow(m) => TypeOK'
  BY DEF CloseWindow
<1>4. \A k \in Convs, u \in Movers : ChangeMembers(k, u) => TypeOK'
  BY DEF ChangeMembers
<1>5. UNCHANGED vars => TypeOK'
  BY DEF vars
<1>6. QED
  BY <1>1, <1>2, <1>3, <1>4, <1>5

(* Every variable keeps its type in every behaviour of the accept pipeline *)
(* (chat.Service.Accept and its Valkey and PostgreSQL adapters).           *)
THEOREM TypeCorrect == Spec => []TypeOK
<1>1. TypeOK /\ [Next]_vars => TypeOK'
  BY TypeStep, TypeEnvironment DEF Next
<1>2. QED
  BY TypeInit, <1>1, PTL DEF Spec
-----------------------------------------------------------------------------
USE DEF Accept

LEMMA InvInit == Init => IInv
<1> SUFFICES ASSUME Init PROVE IInv
  OBVIOUS
<1>1. TypeOK
  BY TypeInit
<1>2. LockInv /\ SeqsDense /\ AnswerInv /\ AckIsDurable /\ PublishedIsDurable
  BY <1>1, ConstantsAssumption
  DEF Init, TypeOK, LockInv, SeqsDense, AnswerInv, AckIsDurable, PublishedIsDurable
<1>3. ClaimInv /\ AtMostOnce
  BY <1>1 DEF Init, ClaimInv, AtMostOnce, Early, Late
<1>4. QED
  BY <1>1, <1>2, <1>3 DEF IInv

LEMMA InvClaim ==
  ASSUME IInv, TypeOK', NEW c \in Calls, Claim(c)
  PROVE  IInv'
<1> USE ConstantsAssumption DEF IInv, Claim, KeyFree, KeyCommitted
<1>1. LockInv'
  BY DEF TypeOK, LockInv
<1>2. SeqsDense'
  BY DEF TypeOK, LockInv, SeqsDense, AcceptRecords
<1>3. AnswerInv'
  <2>1. accepted' = accepted
    OBVIOUS
  <2>2. \A m \in Msgs : dedupe'[m] = dedupe[m] \/ dedupe'[m] = Pending
    BY DEF TypeOK
  <2>3. (\A m \in Msgs : dedupe[m] \notin {Absent, Pending} => Stored(m, dedupe[m]))'
    BY <2>1, <2>2 DEF AnswerInv, Stored
  <2>4. msg[c] \in Msgs
    BY DEF TypeOK
  <2>5. pc'[c] = "reply" /\ res'[c] = "ack" => Stored(msg[c], seq'[c])
    BY <2>4 DEF AnswerInv, TypeOK
  <2>6. \A d \in Calls :
           /\ pc'[d] \in {"record", "publish"} =>
                pc'[d] = pc[d] /\ seq'[d] = seq[d] /\ msg'[d] = msg[d] /\ to'[d] = to[d]
           /\ d # c => pc'[d] = pc[d] /\ seq'[d] = seq[d] /\ res'[d] = res[d]
           /\ msg'[d] = msg[d]
    BY DEF TypeOK
  <2>7. \A d \in Calls : pc'[d] # "reply" => pc[d] # "reply" /\ res'[d] = res[d]
    BY DEF TypeOK
  <2>8. \A d \in Calls : pc'[d] \in {"record", "publish"} =>
           Accept(ConvOf[msg'[d]], seq'[d], msg'[d], to'[d]) \in accepted'
    BY <2>1, <2>6 DEF AnswerInv
  <2>9. \A d \in Calls : pc'[d] = "reply" /\ res'[d] = "ack" =>
           \E r \in accepted' : r.msg = msg'[d] /\ r.seq = seq'[d]
    <3> SUFFICES ASSUME NEW d \in Calls, pc'[d] = "reply", res'[d] = "ack"
                 PROVE  Stored(msg[d], seq'[d])
      BY <2>1, <2>6 DEF Stored
    <3>1. CASE d = c
      BY <2>5, <3>1
    <3>2. CASE d # c
      BY <2>6, <3>2 DEF AnswerInv
    <3>3. QED
      BY <3>1, <3>2
  <2>10. \A d \in Calls : pc'[d] # "reply" => res'[d] # "ack"
    BY <2>7 DEF AnswerInv
  <2>11. QED
    BY <2>3, <2>8, <2>9, <2>10 DEF AnswerInv, Stored
<1>4. AckIsDurable'
  BY DEF TypeOK, AnswerInv, AckIsDurable, Stored
<1>5. PublishedIsDurable'
  BY DEF TypeOK, AnswerInv, PublishedIsDurable
<1>6. ClaimInv'
  BY DEF TypeOK, ClaimInv, Early, Late
<1>7. AtMostOnce'
  BY DEF TypeOK, ClaimInv, AtMostOnce, Early, Late
<1>8. QED
  BY <1>1, <1>2, <1>3, <1>4, <1>5, <1>6, <1>7

LEMMA InvTxError ==
  ASSUME IInv, TypeOK', NEW c \in Calls, TxError(c)
  PROVE  IInv'
<1> USE ConstantsAssumption DEF IInv, TxError, Unlocked
<1>1. LockInv'
  BY DEF TypeOK, LockInv
<1>2. SeqsDense'
  BY DEF TypeOK, LockInv, SeqsDense, AcceptRecords
<1>3. AnswerInv'
  BY DEF TypeOK, AnswerInv, Stored
<1>4. AckIsDurable'
  BY DEF TypeOK, AnswerInv, AckIsDurable, Stored
<1>5. PublishedIsDurable'
  BY DEF TypeOK, AnswerInv, PublishedIsDurable
<1>6. ClaimInv'
  BY DEF TypeOK, ClaimInv, Early, Late
<1>7. AtMostOnce'
  BY DEF TypeOK, ClaimInv, AtMostOnce, Early, Late
<1>8. QED
  BY <1>1, <1>2, <1>3, <1>4, <1>5, <1>6, <1>7

LEMMA InvCheckMember ==
  ASSUME IInv, TypeOK', NEW c \in Calls, CheckMember(c)
  PROVE  IInv'
<1> USE ConstantsAssumption DEF IInv, CheckMember
<1>1. LockInv'
  BY DEF TypeOK, LockInv
<1>2. SeqsDense'
  BY DEF TypeOK, LockInv, SeqsDense, AcceptRecords
<1>3. AnswerInv'
  BY DEF TypeOK, AnswerInv, Stored
<1>4. AckIsDurable'
  BY DEF TypeOK, AnswerInv, AckIsDurable, Stored
<1>5. PublishedIsDurable'
  BY DEF TypeOK, AnswerInv, PublishedIsDurable
<1>6. ClaimInv'
  BY DEF TypeOK, ClaimInv, Early, Late
<1>7. AtMostOnce'
  BY DEF TypeOK, ClaimInv, AtMostOnce, Early, Late
<1>8. QED
  BY <1>1, <1>2, <1>3, <1>4, <1>5, <1>6, <1>7

LEMMA InvAssignSeq ==
  ASSUME IInv, TypeOK', NEW c \in Calls, AssignSeq(c)
  PROVE  IInv'
<1> USE ConstantsAssumption DEF IInv, AssignSeq, RowLockFree
<1>1. LockInv'
  BY DEF TypeOK, LockInv
<1>2. SeqsDense'
  BY DEF TypeOK, LockInv, SeqsDense, AcceptRecords
<1>3. AnswerInv'
  BY DEF TypeOK, AnswerInv, Stored
<1>4. AckIsDurable'
  BY DEF TypeOK, AnswerInv, AckIsDurable, Stored
<1>5. PublishedIsDurable'
  BY DEF TypeOK, AnswerInv, PublishedIsDurable
<1>6. ClaimInv'
  BY DEF TypeOK, ClaimInv, Early, Late
<1>7. AtMostOnce'
  BY DEF TypeOK, ClaimInv, AtMostOnce, Early, Late
<1>8. QED
  BY <1>1, <1>2, <1>3, <1>4, <1>5, <1>6, <1>7

LEMMA InvInsertRows ==
  ASSUME IInv, TypeOK', NEW c \in Calls, InsertRows(c)
  PROVE  IInv'
<1> USE ConstantsAssumption DEF IInv, InsertRows
<1>1. LockInv'
  BY DEF TypeOK, LockInv
<1>2. SeqsDense'
  BY DEF TypeOK, LockInv, SeqsDense, AcceptRecords
<1>3. AnswerInv'
  BY DEF TypeOK, AnswerInv, Stored
<1>4. AckIsDurable'
  BY DEF TypeOK, AnswerInv, AckIsDurable, Stored
<1>5. PublishedIsDurable'
  BY DEF TypeOK, AnswerInv, PublishedIsDurable
<1>6. ClaimInv'
  BY DEF TypeOK, ClaimInv, Early, Late
<1>7. AtMostOnce'
  BY DEF TypeOK, ClaimInv, AtMostOnce, Early, Late
<1>8. QED
  BY <1>1, <1>2, <1>3, <1>4, <1>5, <1>6, <1>7

LEMMA InvCommitTx ==
  ASSUME IInv, TypeOK', NEW c \in Calls, CommitTx(c)
  PROVE  IInv'
<1> USE ConstantsAssumption DEF IInv, CommitTx, TakesEffect, Unlocked, AcceptRecords
<1>1. LockInv'
  BY DEF TypeOK, LockInv
<1>2. SeqsDense'
  <2> DEFINE k == Conv(c)
             x == Accept(k, seq[c], msg[c], to[c])
  <2>1. k \in Convs /\ convSeq[k] \in Nat /\ seq[c] = convSeq[k] + 1
    BY DEF TypeOK, LockInv
  <2>2. /\ convSeq'[k] = seq[c]
        /\ \A j \in Convs \ {k} : convSeq'[j] = convSeq[j]
        /\ accepted' = accepted \cup {x}
        /\ x.conv = k /\ x.seq = seq[c]
    BY <2>1 DEF TypeOK
  <2>3. \A a \in accepted : a.conv \in Convs /\ a.seq \in 1..convSeq[a.conv]
    BY DEF TypeOK, SeqsDense
  <2> HIDE DEF k, x
  <2>4. \A a \in accepted' : a.seq \in 1..convSeq'[a.conv]
    BY <2>1, <2>2, <2>3
  <2>5. ASSUME NEW j \in Convs, NEW n \in 1..convSeq'[j]
        PROVE  \E a \in accepted' : a.conv = j /\ a.seq = n
    <3>1. CASE j = k /\ n = seq[c]
      BY <2>2, <3>1
    <3>2. CASE ~(j = k /\ n = seq[c])
      <4>1. n \in 1..convSeq[j]
        BY <2>1, <2>2, <3>2
      <4>2. QED
        BY <2>2, <4>1 DEF SeqsDense
    <3>3. QED
      BY <3>1, <3>2
  <2>6. \A a, b \in accepted' : a.conv = b.conv /\ a.seq = b.seq => a = b
    BY <2>1, <2>2, <2>3 DEF SeqsDense
  <2>7. QED
    BY <2>4, <2>5, <2>6 DEF SeqsDense
<1>3. AnswerInv'
  BY DEF TypeOK, AnswerInv, Stored
<1>4. AckIsDurable'
  BY DEF TypeOK, AnswerInv, AckIsDurable, Stored
<1>5. PublishedIsDurable'
  BY DEF TypeOK, AnswerInv, PublishedIsDurable
<1>6. ClaimInv'
  BY DEF TypeOK, ClaimInv, Early, Late
<1>7. AtMostOnce'
  BY DEF TypeOK, ClaimInv, AtMostOnce, Early, Late
<1>8. QED
  BY <1>1, <1>2, <1>3, <1>4, <1>5, <1>6, <1>7

LEMMA InvCommitUnknown ==
  ASSUME IInv, TypeOK', NEW c \in Calls, CommitUnknown(c)
  PROVE  IInv'
<1> USE ConstantsAssumption DEF IInv, CommitUnknown, TakesEffect, Unlocked, AcceptRecords
<1>1. LockInv'
  BY DEF TypeOK, LockInv
<1>2. SeqsDense'
  <2> DEFINE k == Conv(c)
             x == Accept(k, seq[c], msg[c], to[c])
  <2>1. k \in Convs /\ convSeq[k] \in Nat /\ seq[c] = convSeq[k] + 1
    BY DEF TypeOK, LockInv
  <2>2. /\ convSeq'[k] = seq[c]
        /\ \A j \in Convs \ {k} : convSeq'[j] = convSeq[j]
        /\ accepted' = accepted \cup {x}
        /\ x.conv = k /\ x.seq = seq[c]
    BY <2>1 DEF TypeOK
  <2>3. \A a \in accepted : a.conv \in Convs /\ a.seq \in 1..convSeq[a.conv]
    BY DEF TypeOK, SeqsDense
  <2> HIDE DEF k, x
  <2>4. \A a \in accepted' : a.seq \in 1..convSeq'[a.conv]
    BY <2>1, <2>2, <2>3
  <2>5. ASSUME NEW j \in Convs, NEW n \in 1..convSeq'[j]
        PROVE  \E a \in accepted' : a.conv = j /\ a.seq = n
    <3>1. CASE j = k /\ n = seq[c]
      BY <2>2, <3>1
    <3>2. CASE ~(j = k /\ n = seq[c])
      <4>1. n \in 1..convSeq[j]
        BY <2>1, <2>2, <3>2
      <4>2. QED
        BY <2>2, <4>1 DEF SeqsDense
    <3>3. QED
      BY <3>1, <3>2
  <2>6. \A a, b \in accepted' : a.conv = b.conv /\ a.seq = b.seq => a = b
    BY <2>1, <2>2, <2>3 DEF SeqsDense
  <2>7. QED
    BY <2>4, <2>5, <2>6 DEF SeqsDense
<1>3. AnswerInv'
  BY DEF TypeOK, AnswerInv, Stored
<1>4. AckIsDurable'
  BY DEF TypeOK, AnswerInv, AckIsDurable, Stored
<1>5. PublishedIsDurable'
  BY DEF TypeOK, AnswerInv, PublishedIsDurable
<1>6. ClaimInv'
  BY DEF TypeOK, ClaimInv, Early, Late
<1>7. AtMostOnce'
  BY DEF TypeOK, ClaimInv, AtMostOnce, Early, Late
<1>8. QED
  BY <1>1, <1>2, <1>3, <1>4, <1>5, <1>6, <1>7

LEMMA InvRelease ==
  ASSUME IInv, TypeOK', NEW c \in Calls, Release(c)
  PROVE  IInv'
<1> USE ConstantsAssumption DEF IInv, Release
<1>1. LockInv'
  BY DEF TypeOK, LockInv
<1>2. SeqsDense'
  BY DEF TypeOK, LockInv, SeqsDense, AcceptRecords
<1>3. AnswerInv'
  BY DEF TypeOK, AnswerInv, Stored
<1>4. AckIsDurable'
  BY DEF TypeOK, AnswerInv, AckIsDurable, Stored
<1>5. PublishedIsDurable'
  BY DEF TypeOK, AnswerInv, PublishedIsDurable
<1>6. ClaimInv'
  BY DEF TypeOK, ClaimInv, Early, Late
<1>7. AtMostOnce'
  BY DEF TypeOK, ClaimInv, AtMostOnce, Early, Late
<1>8. QED
  BY <1>1, <1>2, <1>3, <1>4, <1>5, <1>6, <1>7

LEMMA InvRecord ==
  ASSUME IInv, TypeOK', NEW c \in Calls, Record(c)
  PROVE  IInv'
<1> USE ConstantsAssumption DEF IInv, Record
<1>1. LockInv'
  BY DEF TypeOK, LockInv
<1>2. SeqsDense'
  BY DEF TypeOK, LockInv, SeqsDense, AcceptRecords
<1>3. AnswerInv'
  <2>1. accepted' = accepted /\ Stored(msg[c], seq[c])
    BY DEF AnswerInv, Stored
  <2>2. \A m \in Msgs : dedupe'[m] = dedupe[m] \/ (m = msg[c] /\ dedupe'[m] = seq[c])
    BY DEF TypeOK
  <2>3. (\A m \in Msgs : dedupe[m] \notin {Absent, Pending} => Stored(m, dedupe[m]))'
    BY <2>1, <2>2 DEF AnswerInv, Stored
  <2>4. QED
    BY <2>1, <2>3 DEF AnswerInv, Stored, TypeOK
<1>4. AckIsDurable'
  BY DEF TypeOK, AnswerInv, AckIsDurable, Stored
<1>5. PublishedIsDurable'
  BY DEF TypeOK, AnswerInv, PublishedIsDurable
<1>6. ClaimInv'
  BY DEF TypeOK, ClaimInv, Early, Late
<1>7. AtMostOnce'
  BY DEF TypeOK, ClaimInv, AtMostOnce, Early, Late
<1>8. QED
  BY <1>1, <1>2, <1>3, <1>4, <1>5, <1>6, <1>7

LEMMA InvPublish ==
  ASSUME IInv, TypeOK', NEW c \in Calls, Publish(c)
  PROVE  IInv'
<1> USE ConstantsAssumption DEF IInv, Publish
<1>1. LockInv'
  BY DEF TypeOK, LockInv
<1>2. SeqsDense'
  BY DEF TypeOK, LockInv, SeqsDense, AcceptRecords
<1>3. AnswerInv'
  BY DEF TypeOK, AnswerInv, Stored
<1>4. AckIsDurable'
  BY DEF TypeOK, AnswerInv, AckIsDurable, Stored
<1>5. PublishedIsDurable'
  BY DEF TypeOK, AnswerInv, PublishedIsDurable
<1>6. ClaimInv'
  BY DEF TypeOK, ClaimInv, Early, Late
<1>7. AtMostOnce'
  BY DEF TypeOK, ClaimInv, AtMostOnce, Early, Late
<1>8. QED
  BY <1>1, <1>2, <1>3, <1>4, <1>5, <1>6, <1>7

LEMMA InvReply ==
  ASSUME IInv, TypeOK', NEW c \in Calls, Reply(c)
  PROVE  IInv'
<1> USE ConstantsAssumption DEF IInv, Reply
<1>1. LockInv'
  BY DEF TypeOK, LockInv
<1>2. SeqsDense'
  BY DEF TypeOK, LockInv, SeqsDense, AcceptRecords
<1>3. AnswerInv'
  BY DEF TypeOK, AnswerInv, Stored
<1>4. AckIsDurable'
  <2>1. accepted' = accepted
    OBVIOUS
  <2>2. \A a \in acks' : a \in acks \/
           (a.msg = msg[c] /\ a.seq = seq[c] /\ res[c] = "ack")
    OBVIOUS
  <2>3. res[c] = "ack" => Stored(msg[c], seq[c])
    BY DEF AnswerInv
  <2>4. QED
    BY <2>1, <2>2, <2>3 DEF AckIsDurable, Stored
<1>5. PublishedIsDurable'
  BY DEF TypeOK, AnswerInv, PublishedIsDurable
<1>6. ClaimInv'
  BY DEF TypeOK, ClaimInv, Early, Late
<1>7. AtMostOnce'
  BY DEF TypeOK, ClaimInv, AtMostOnce, Early, Late
<1>8. QED
  BY <1>1, <1>2, <1>3, <1>4, <1>5, <1>6, <1>7

LEMMA InvDeadline ==
  ASSUME IInv, TypeOK', NEW c \in Calls, Deadline(c)
  PROVE  IInv'
<1> USE ConstantsAssumption DEF IInv, Deadline
<1>1. LockInv'
  BY DEF TypeOK, LockInv
<1>2. SeqsDense'
  BY DEF TypeOK, LockInv, SeqsDense, AcceptRecords
<1>3. AnswerInv'
  BY DEF TypeOK, AnswerInv, Stored
<1>4. AckIsDurable'
  BY DEF TypeOK, AnswerInv, AckIsDurable, Stored
<1>5. PublishedIsDurable'
  BY DEF TypeOK, AnswerInv, PublishedIsDurable
<1>6. ClaimInv'
  BY DEF TypeOK, ClaimInv, Early, Late
<1>7. AtMostOnce'
  BY DEF TypeOK, ClaimInv, AtMostOnce, Early, Late
<1>8. QED
  BY <1>1, <1>2, <1>3, <1>4, <1>5, <1>6, <1>7

LEMMA InvCrash ==
  ASSUME IInv, TypeOK', NEW c \in Calls, Crash(c)
  PROVE  IInv'
<1> USE ConstantsAssumption DEF IInv, Crash, Unlocked
<1>1. LockInv'
  BY DEF TypeOK, LockInv
<1>2. SeqsDense'
  BY DEF TypeOK, LockInv, SeqsDense, AcceptRecords
<1>3. AnswerInv'
  BY DEF TypeOK, AnswerInv, Stored
<1>4. AckIsDurable'
  BY DEF TypeOK, AnswerInv, AckIsDurable, Stored
<1>5. PublishedIsDurable'
  BY DEF TypeOK, AnswerInv, PublishedIsDurable
<1>6. ClaimInv'
  BY DEF TypeOK, ClaimInv, Early, Late
<1>7. AtMostOnce'
  BY DEF TypeOK, ClaimInv, AtMostOnce, Early, Late
<1>8. QED
  BY <1>1, <1>2, <1>3, <1>4, <1>5, <1>6, <1>7

LEMMA InvStart ==
  ASSUME IInv, TypeOK', NEW c \in Calls, NEW m \in Msgs, Start(c, m)
  PROVE  IInv'
<1> USE DEF IInv, Start
<1>1. LockInv' /\ SeqsDense'
  BY DEF TypeOK, LockInv, SeqsDense
<1>2. AnswerInv' /\ AckIsDurable' /\ PublishedIsDurable'
  BY DEF TypeOK, AnswerInv, Stored, AckIsDurable, PublishedIsDurable
<1>3. ClaimInv' /\ AtMostOnce'
  BY DEF TypeOK, ClaimInv, AtMostOnce, Early, Late
<1>4. QED
  BY <1>1, <1>2, <1>3

LEMMA InvExpire ==
  ASSUME IInv, TypeOK', NEW m \in Msgs, Expire(m)
  PROVE  IInv'
<1> USE DEF IInv, Expire, calls
<1>1. LockInv' /\ SeqsDense'
  BY DEF TypeOK, LockInv, SeqsDense
<1>2. AnswerInv' /\ AckIsDurable' /\ PublishedIsDurable'
  BY DEF TypeOK, AnswerInv, Stored, AckIsDurable, PublishedIsDurable
<1>3. \A c \in Calls : msg[c] = m => pc[c] = "idle"
  BY DEF InFlight
<1>4. ClaimInv'
  BY <1>3 DEF TypeOK, ClaimInv, Early, Late
<1>5. AtMostOnce'
  BY DEF AtMostOnce
<1>6. QED
  BY <1>1, <1>2, <1>4, <1>5

\* Closing a window, changing members and stuttering leave all of it alone.
LEMMA InvOther ==
  ASSUME IInv, TypeOK',
         UNCHANGED <<calls, dedupe, convSeq, rowLock, accepted, published, acks,
                     aged, unknown>>
  PROVE  IInv'
  BY DEF IInv, calls, LockInv, SeqsDense, AnswerInv, Stored, AckIsDurable,
         PublishedIsDurable, ClaimInv, AtMostOnce

LEMMA InvNext == IInv /\ [Next]_vars => IInv'
<1> SUFFICES ASSUME IInv, [Next]_vars PROVE IInv'
  OBVIOUS
<1>1. TypeOK'
  BY TypeStep, TypeEnvironment DEF Next, IInv
<1>2. ASSUME NEW c \in Calls, Step(c) \/ Deadline(c) \/ Crash(c)
      PROVE  IInv'
  BY <1>1, <1>2, InvClaim, InvTxError, InvCheckMember, InvAssignSeq, InvInsertRows,
     InvCommitTx, InvCommitUnknown, InvRelease, InvRecord, InvPublish, InvReply,
     InvDeadline, InvCrash DEF Step
<1>3. ASSUME NEW c \in Calls, NEW m \in Msgs, Start(c, m)
      PROVE  IInv'
  BY <1>1, <1>3, InvStart
<1>4. ASSUME NEW m \in Msgs, Expire(m)
      PROVE  IInv'
  BY <1>1, <1>4, InvExpire
<1>5. ASSUME NEW m \in Msgs, CloseWindow(m)
      PROVE  IInv'
  BY <1>1, <1>5, InvOther DEF CloseWindow
<1>6. ASSUME NEW k \in Convs, NEW u \in Movers, ChangeMembers(k, u)
      PROVE  IInv'
  BY <1>1, <1>6, InvOther DEF ChangeMembers
<1>7. CASE UNCHANGED vars
  BY <1>1, <1>7, InvOther DEF vars
<1>8. QED
  BY <1>2, <1>3, <1>4, <1>5, <1>6, <1>7 DEF Next

LEMMA InvHolds == Spec => []IInv
  BY InvInit, InvNext, PTL DEF Spec

(* A "sent" acknowledgement and a live push always name a committed inbox  *)
(* entry, for any number of concurrent calls, retries and faults           *)
(* (chat.Service.Accept).                                                  *)
THEOREM AcksAreDurable == Spec => []DurableFirst
<1>1. IInv => DurableFirst
  BY DEF IInv, DurableFirst
<1>2. QED
  BY InvHolds, <1>1, PTL

(* The seqs of every conversation are 1, 2, 3, ... without gap or repeat,  *)
(* for any number of concurrent transactions (Store.Accept's row lock).    *)
THEOREM SeqsAreDense == Spec => []SeqsDense
<1>1. IInv => SeqsDense
  BY DEF IInv
<1>2. QED
  BY InvHolds, <1>1, PTL

(* A msg_uuid is accepted twice only after its dedupe key expired or a     *)
(* COMMIT with an unknown outcome took effect (the Valkey claim protocol). *)
THEOREM AcceptedAtMostOnce == Spec => []AtMostOnce
<1>1. IInv => AtMostOnce
  BY DEF IInv
<1>2. QED
  BY InvHolds, <1>1, PTL
=============================================================================
