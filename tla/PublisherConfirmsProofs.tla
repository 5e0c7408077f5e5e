----------------------- MODULE PublisherConfirmsProofs -----------------------
(* Theorems of PublisherConfirms, for any publishers and any number of calls. *)
EXTENDS PublisherConfirms, SequenceTheorems, TLAPS

USE NoneIsNoPublisher, CallsAreBounded

\* pubMu: only its holder is between Lock and Unlock.
MutexHeld ==
    \A p \in Publishers : (pc[p] \in {"publish", "confirm"}) <=> (mutex = p)

\* Every message sent has had its confirmation read, was given up, or is being
\* waited for; while the channel is open nothing else happens to one.
Accounted ==
    /\ \A p \in Publishers : pc[p] = "confirm" =>
         mine[p] = published /\ published = read + timedOut + 1
    /\ open /\ (\A p \in Publishers : pc[p] # "confirm") => published = read + timedOut

\* The library hands confirmations on in order, and holds at most one back.
InOrder ==
    /\ read <= pushed /\ pushed <= read + confirmBuffer /\ pushed <= published
    /\ \A n \in Tags : n <= pushed => outcome[n] # "none"

IInv == TypeOK /\ MutexHeld /\ Accounted /\ InOrder /\ OkIsRecentAck

USE DEF published, Tags, confirmBuffer

\* Telling the caller rewrites one entry of the history of verdicts.
LEMMA TellType ==
    ASSUME TypeOK, NEW p \in Publishers, NEW v \in {"none", "ok", "error"}, Tell(p, v)
    PROVE  verdict' \in Seq({"none", "ok", "error"}) /\ Len(verdict') = published
<1>1. CASE mine[p] \in 1..Len(verdict)
  BY <1>1, ExceptSeq DEF Tell, TypeOK
<1>2. CASE mine[p] \notin 1..Len(verdict)
  <2>1. verdict' = verdict
    BY <1>2 DEF Tell, TypeOK
  <2> QED BY <2>1 DEF TypeOK
<1> QED BY <1>1, <1>2

LEMMA CallStep ==
    ASSUME IInv, NEW p \in Publishers, Call(p)
    PROVE  IInv'
BY DEF IInv, Call, TypeOK, MutexHeld, Accounted, InOrder, OkIsRecentAck, channel, history

LEMMA LockStep ==
    ASSUME IInv, NEW p \in Publishers, Lock(p)
    PROVE  IInv'
BY DEF IInv, Lock, TypeOK, MutexHeld, Accounted, InOrder, OkIsRecentAck, channel, history

LEMMA SendStep ==
    ASSUME IInv, NEW p \in Publishers, Send(p)
    PROVE  IInv'
<1> USE DEF Send, IInv, TypeOK
<1>1. TypeOK'
  OBVIOUS
<1>2. MutexHeld'
  BY DEF MutexHeld
<1>3. Accounted'
  BY DEF Accounted, MutexHeld
<1>4. InOrder'
  BY DEF InOrder
<1>5. OkIsRecentAck'
  BY DEF OkIsRecentAck
<1> QED BY <1>1, <1>2, <1>3, <1>4, <1>5

LEMMA SendFailsStep ==
    ASSUME IInv, NEW p \in Publishers, SendFails(p)
    PROVE  IInv'
BY DEF IInv, SendFails, Return, TypeOK, MutexHeld, Accounted, InOrder, OkIsRecentAck,
       channel, history

\* The confirmation read is the one of message read + 1, timedOut places back.
LEMMA ReadStep ==
    ASSUME IInv, NEW p \in Publishers, Read(p)
    PROVE  IInv'
<1>0. verdict' \in Seq({"none", "ok", "error"}) /\ Len(verdict') = published
  <2> DEFINE v == IF outcome[read + 1] = "ack" THEN "ok" ELSE "error"
  <2>1. v \in {"none", "ok", "error"} /\ Tell(p, v)
    BY DEF Read
  <2> HIDE DEF v
  <2> QED BY <2>1, TellType DEF IInv
<1> USE DEF Read, Tell, Return, IInv, TypeOK
<1>1. TypeOK'
  BY <1>0
<1>2. MutexHeld'
  BY DEF MutexHeld
<1>3. Accounted'
  BY DEF Accounted, MutexHeld
<1>4. InOrder'
  BY DEF InOrder
<1>5. OkIsRecentAck'
  BY DEF OkIsRecentAck, Accounted, InOrder
<1> QED BY <1>1, <1>2, <1>3, <1>4, <1>5

LEMMA ReadClosedStep ==
    ASSUME IInv, NEW p \in Publishers, ReadClosed(p)
    PROVE  IInv'
<1> USE DEF ReadClosed, Tell, Return, IInv, TypeOK, channel
<1>1. TypeOK' /\ MutexHeld'
  BY TellType DEF MutexHeld
<1>2. Accounted' /\ InOrder'
  BY DEF Accounted, MutexHeld, InOrder
<1>3. OkIsRecentAck'
  BY DEF OkIsRecentAck
<1> QED BY <1>1, <1>2, <1>3

LEMMA TimeoutStep ==
    ASSUME IInv, NEW p \in Publishers, Timeout(p)
    PROVE  IInv'
<1>0. verdict' \in Seq({"none", "ok", "error"}) /\ Len(verdict') = published
  BY TellType DEF Timeout, IInv
<1> USE DEF Timeout, Tell, Return, IInv, TypeOK, channel
<1>1. TypeOK' /\ MutexHeld'
  BY <1>0 DEF MutexHeld
<1>2. Accounted' /\ InOrder'
  BY DEF Accounted, MutexHeld, InOrder
<1>3. OkIsRecentAck'
  BY DEF OkIsRecentAck
<1> QED BY <1>1, <1>2, <1>3

LEMMA BrokerStep ==
    ASSUME IInv, Broker
    PROVE  IInv'
<1>1. ASSUME NEW n \in Tags, NEW a \in {"ack", "nack"}, Answer(n, a) PROVE IInv'
  <2> USE <1>1 DEF Answer, callers, history, IInv, TypeOK
  <2>1. TypeOK' /\ MutexHeld' /\ Accounted' /\ InOrder'
    BY DEF MutexHeld, Accounted, InOrder
  <2>2. OkIsRecentAck'
    BY DEF OkIsRecentAck
  <2> QED BY <2>1, <2>2
<1>2. CASE Push
  BY <1>2 DEF Push, Ready, callers, history, IInv, TypeOK, MutexHeld, Accounted,
              InOrder, OkIsRecentAck
<1>3. CASE Close
  BY <1>3 DEF Close, callers, history, IInv, TypeOK, MutexHeld, Accounted,
              InOrder, OkIsRecentAck
<1> QED BY <1>1, <1>2, <1>3 DEF Broker

\* The inductive invariant, whatever the broker answers and when.
THEOREM Inductive == Spec => []IInv
<1>1. Init => IInv
  BY DEF Init, IInv, TypeOK, MutexHeld, Accounted, InOrder, OkIsRecentAck
<1>2. IInv /\ [Next]_vars => IInv'
  <2> SUFFICES ASSUME IInv, [Next]_vars PROVE IInv'
    OBVIOUS
  <2>1. ASSUME NEW p \in Publishers, Publisher(p) PROVE IInv'
    BY <2>1, CallStep, LockStep, SendStep, SendFailsStep, ReadStep, ReadClosedStep,
       TimeoutStep DEF Publisher
  <2>2. CASE UNCHANGED vars
    BY <2>2 DEF vars, callers, channel, history, IInv, TypeOK, MutexHeld, Accounted,
                InOrder, OkIsRecentAck
  <2> QED BY <2>1, <2>2, BrokerStep DEF Next
<1> QED BY <1>1, <1>2, PTL DEF Spec

\* Every variable has its type, and every message that publish sent has an
\* entry for what its caller was told.
THEOREM TypeCorrect == Spec => []TypeOK
BY Inductive, PTL DEF IInv

\* A publish that returns nil speaks of an ack at most timedOut messages old.
THEOREM OkIsNeverOlder == Spec => []OkIsRecentAck
BY Inductive, PTL DEF IInv

\* The confirmation a publisher reads lags by the publishes that gave up.
THEOREM LagIsTimeouts == Spec => []ConfirmsLagByTimeouts
<1>1. IInv => ConfirmsLagByTimeouts
  BY DEF IInv, TypeOK, Accounted, ConfirmsLagByTimeouts
<1> QED BY <1>1, Inductive, PTL

\* Until a publish gives up, nil means that the broker took this message.
THEOREM TruthfulUntilTimeout == Spec => []TruthfulBeforeTimeout
<1>1. IInv => TruthfulBeforeTimeout
  BY DEF IInv, TypeOK, OkIsRecentAck, TruthfulBeforeTimeout
<1> QED BY <1>1, Inductive, PTL

\* The library's reader blocks on an unread confirmation, with no publisher to
\* release it, only after two publishes gave up.
THEOREM ReaderNeedsTwoTimeouts == Spec => []ReaderBlocksAfterTwo
<1>1. IInv => ReaderBlocksAfterTwo
  BY DEF IInv, TypeOK, Accounted, ReaderBlocksAfterTwo, Ready
<1> QED BY <1>1, Inductive, PTL
=============================================================================
