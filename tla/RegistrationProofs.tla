------------------------- MODULE RegistrationProofs -------------------------
(***************************************************************************)
(* Theorems of Registration, for any number of requests, emails and        *)
(* faults: one account per email, attempts that never overstate failures,  *)
(* and, for a publisher that never reports a success that is none, no      *)
(* event lost.                                                             *)
(***************************************************************************)
EXTENDS Registration, TLAPS

USE IdentifiersDiffer, OutcomesAreKnown

(***************************************************************************)
(* The messages of a sequence.                                             *)
(***************************************************************************)

LEMMA ElementsAreMembers ==
    ASSUME NEW s \in Seq(Messages), NEW i \in 1..Len(s)
    PROVE  s[i] \in ToSet(s) /\ s[i] \in Messages
BY DEF ToSet

LEMMA NotEmpty ==
    ASSUME NEW s \in Seq(Messages), s # <<>>
    PROVE  Len(s) \in Nat \ {0}
OBVIOUS

LEMMA AppendedMessages ==
    ASSUME NEW s \in Seq(Messages), NEW m \in Messages
    PROVE  /\ Append(s, m) \in Seq(Messages)
           /\ ToSet(Append(s, m)) = ToSet(s) \cup {m}
<1>1. /\ Append(s, m) \in Seq(Messages)
      /\ Len(Append(s, m)) = Len(s) + 1
      /\ \A i \in 1..Len(s) : Append(s, m)[i] = s[i]
      /\ Append(s, m)[Len(s) + 1] = m
  OBVIOUS
<1>2. 1..(Len(s) + 1) = 1..Len(s) \cup {Len(s) + 1}
  OBVIOUS
<1> QED BY <1>1, <1>2 DEF ToSet

LEMMA FirstMessage ==
    ASSUME NEW s \in Seq(Messages), s # <<>>
    PROVE  /\ Head(s) \in Messages /\ Tail(s) \in Seq(Messages)
           /\ ToSet(s) = {Head(s)} \cup ToSet(Tail(s))
<1>1. /\ Len(s) \in Nat \ {0} /\ Head(s) = s[1] /\ Tail(s) \in Seq(Messages)
      /\ Len(Tail(s)) = Len(s) - 1
      /\ \A i \in 1..(Len(s) - 1) : Tail(s)[i] = s[i + 1]
  OBVIOUS
<1>2. ToSet(s) \subseteq {Head(s)} \cup ToSet(Tail(s))
  <2> SUFFICES ASSUME NEW i \in 1..Len(s) PROVE s[i] \in {Head(s)} \cup ToSet(Tail(s))
    BY DEF ToSet
  <2>1. CASE i = 1
    BY <1>1, <2>1
  <2>2. CASE i # 1
    <3>1. i - 1 \in 1..(Len(s) - 1) /\ (i - 1) + 1 = i
      BY <1>1, <2>2
    <3>2. Tail(s)[i - 1] = s[i]
      BY <1>1, <3>1
    <3>3. Tail(s)[i - 1] \in ToSet(Tail(s))
      <4>1. i - 1 \in 1..Len(Tail(s))
        BY <1>1, <3>1
      <4> QED BY <1>1, <4>1, ElementsAreMembers
    <3> QED BY <3>2, <3>3
  <2> QED BY <2>1, <2>2
<1>3. {Head(s)} \cup ToSet(Tail(s)) \subseteq ToSet(s)
  <2>1. Head(s) \in ToSet(s)
    BY <1>1 DEF ToSet
  <2>2. ASSUME NEW i \in 1..(Len(s) - 1) PROVE Tail(s)[i] \in ToSet(s)
    <3>1. i + 1 \in 1..Len(s)
      BY <1>1
    <3> QED BY <1>1, <3>1 DEF ToSet
  <2> QED BY <1>1, <2>1, <2>2 DEF ToSet
<1> QED BY <1>1, <1>2, <1>3

LEMMA JoinedMessages ==
    ASSUME NEW s \in Seq(Messages), NEW t \in Seq(Messages)
    PROVE  s \o t \in Seq(Messages) /\ ToSet(s \o t) = ToSet(s) \cup ToSet(t)
<1>1. /\ s \o t \in Seq(Messages) /\ Len(s \o t) = Len(s) + Len(t)
      /\ Len(s) \in Nat /\ Len(t) \in Nat
      /\ \A i \in 1..Len(s) : (s \o t)[i] = s[i]
      /\ \A i \in (Len(s) + 1)..(Len(s) + Len(t)) : (s \o t)[i] = t[i - Len(s)]
  OBVIOUS
<1>2. ToSet(s \o t) \subseteq ToSet(s) \cup ToSet(t)
  <2> SUFFICES ASSUME NEW i \in 1..(Len(s) + Len(t))
               PROVE  (s \o t)[i] \in ToSet(s) \cup ToSet(t)
    BY <1>1 DEF ToSet
  <2>1. CASE i <= Len(s)
    BY <1>1, <2>1 DEF ToSet
  <2>2. CASE i > Len(s)
    <3>1. i - Len(s) \in 1..Len(t) /\ i \in (Len(s) + 1)..(Len(s) + Len(t))
      BY <1>1, <2>2
    <3> QED BY <1>1, <3>1 DEF ToSet
  <2> QED BY <1>1, <2>1, <2>2
<1>3. ToSet(s) \subseteq ToSet(s \o t)
  BY <1>1 DEF ToSet
<1>4. ToSet(t) \subseteq ToSet(s \o t)
  <2>1. ASSUME NEW i \in 1..Len(t) PROVE t[i] \in ToSet(s \o t)
    <3>1. /\ Len(s) + i \in (Len(s) + 1)..(Len(s) + Len(t))
          /\ Len(s) + i \in 1..Len(s \o t)
          /\ (Len(s) + i) - Len(s) = i
      BY <1>1
    <3>2. (s \o t)[Len(s) + i] = t[i]
      BY <1>1, <3>1
    <3>3. (s \o t)[Len(s) + i] \in ToSet(s \o t)
      BY <1>1, <3>1 DEF ToSet
    <3> QED BY <3>2, <3>3
  <2>2. \A x \in ToSet(t) : \E i \in 1..Len(t) : x = t[i]
    BY DEF ToSet
  <2> QED BY <2>1, <2>2
<1> QED BY <1>1, <1>2, <1>3, <1>4

LEMMA FewMessages ==
    /\ <<>> \in Seq(Messages) /\ ToSet(<<>>) = {} /\ Len(<<>>) <= 1
    /\ \A m \in Messages : /\ <<m>> \in Seq(Messages) /\ ToSet(<<m>>) = {m}
                           /\ <<m>> # <<>> /\ Len(<<m>>) <= 1 /\ <<m>>[1] = m
<1>1. ASSUME NEW m \in Messages PROVE ToSet(<<m>>) = {m}
  BY DEF ToSet
<1> QED BY <1>1 DEF ToSet

LEMMA MembersAreMessages ==
    ASSUME NEW s \in Seq(Messages)
    PROVE  ToSet(s) \subseteq Messages
BY DEF ToSet

\* What TLC looks for by index is looked for in the set of messages here.
LEMMA FoundByIndex ==
    ASSUME NEW s \in Seq(Messages), NEW e
    PROVE  (\E i \in 1..Len(s) : s[i].event = e) <=> (\E m \in ToSet(s) : m.event = e)
BY DEF ToSet

(***************************************************************************)
(* The inductive invariant.  OneAccountPerEmail and AttemptsWereFailures   *)
(* speak of users, of the queue and of the dead letters; to survive a step *)
(* they have to say the same of the message in the consumer's hands, of    *)
(* the request between its insert and its publish, and of an email that no *)
(* other request can take any more.                                        *)
(***************************************************************************)

Live == ToSet(queue) \cup ToSet(unacked)

Shape ==
    /\ step = "idle" <=> unacked = <<>>
    /\ step \in {"retry", "requeue", "ack"} => Message.event \in Requests

\* Every event belongs to a user, and so does every mail.
Known ==
    /\ \A m \in Live \cup dead : m.event # Garbage => m.event \in users
    /\ stored \subseteq users
    /\ \A r \in Requests : mailed[r] > 0 => r \in users
    /\ \A r \in Requests : pc[r] = "publish" => r \in users

OnePerEmail ==
    /\ \A r \in users : pc[r] \in {"publish", "done"}
    /\ \A r, s \in users : email[r] = email[s] => r = s

Counted ==
    /\ \A m \in Live : m.event # Garbage => failures[m.event] + 1 >= m.attempt
    /\ \A m \in dead : m.event # Garbage => failures[m.event] >= maxDeliveryAttempts
    /\ step = "retry" => failures[Message.event] >= Attempt

IInv == TypeOK /\ Shape /\ Known /\ OnePerEmail /\ Counted

(***************************************************************************)
(* Where the messages go in a step.                                        *)
(***************************************************************************)

LEMMA MessageInHand ==
    ASSUME TypeOK, Shape, step # "idle"
    PROVE  /\ Message \in Messages /\ Message.event \in Events
           /\ Message.attempt \in 0..maxDeliveryAttempts
           /\ Attempt \in 1..maxDeliveryAttempts /\ Attempt >= Message.attempt
           /\ ToSet(unacked) = {Message} /\ Message \in Live
<1>1. Len(unacked) = 1 /\ unacked \in Seq(Messages)
  <2>1. unacked \in Seq(Messages) /\ Len(unacked) <= 1
    BY DEF TypeOK
  <2>2. unacked # <<>>
    BY DEF Shape
  <2>3. Len(unacked) \in Nat \ {0}
    BY <2>1, <2>2, NotEmpty
  <2> QED BY <2>1, <2>3
<1>2. Message \in Messages
  BY <1>1 DEF Message
<1>3. ToSet(unacked) = {Message}
  BY <1>1 DEF ToSet, Message
<1> QED BY <1>2, <1>3 DEF Messages, Attempt, Live, maxDeliveryAttempts

LEMMA Delivered ==
    ASSUME TypeOK, Shape, Deliver
    PROVE  /\ queue' \in Seq(Messages) /\ unacked' \in Seq(Messages)
           /\ Len(unacked') <= 1 /\ Live' = Live /\ Shape'
<1>1. /\ Head(queue) \in Messages /\ Tail(queue) \in Seq(Messages)
      /\ ToSet(queue) = {Head(queue)} \cup ToSet(Tail(queue))
  BY FirstMessage DEF TypeOK, Deliver
<1>2. /\ unacked' \in Seq(Messages) /\ ToSet(unacked') = {Head(queue)}
      /\ unacked' # <<>> /\ Len(unacked') <= 1
  BY <1>1, FewMessages DEF Deliver
<1>3. unacked = <<>> /\ ToSet(unacked) = {}
  BY FewMessages DEF Shape, Deliver
<1>4. Live' = Live
  BY <1>1, <1>2, <1>3 DEF Live, Deliver
<1> QED BY <1>1, <1>2, <1>4 DEF Deliver, Shape

\* The message goes back to the queue, if there is one.
LEMMA PutBack ==
    ASSUME TypeOK, queue' = unacked \o queue, unacked' = <<>>, step' = "idle"
    PROVE  /\ queue' \in Seq(Messages) /\ unacked' \in Seq(Messages)
           /\ Len(unacked') <= 1 /\ Live' = Live /\ ToSet(queue') = Live /\ Shape'
<1>1. queue' \in Seq(Messages) /\ ToSet(queue') = ToSet(unacked) \cup ToSet(queue)
  BY JoinedMessages DEF TypeOK
<1>2. unacked' \in Seq(Messages) /\ ToSet(unacked') = {} /\ Len(unacked') <= 1
  BY FewMessages
<1>3. Live' = Live /\ ToSet(queue') = Live
  BY <1>1, <1>2 DEF Live
<1> QED BY <1>1, <1>2, <1>3 DEF Shape

\* The message leaves the consumer and the queue.
LEMMA LetGo ==
    ASSUME TypeOK, Shape, step # "idle", unacked' = <<>>, step' = "idle", UNCHANGED queue
    PROVE  /\ unacked' \in Seq(Messages) /\ Len(unacked') <= 1
           /\ Live' = ToSet(queue) /\ Live = Live' \cup {Message} /\ Shape'
<1>1. unacked' \in Seq(Messages) /\ ToSet(unacked') = {} /\ Len(unacked') <= 1
  BY FewMessages
<1>2. ToSet(unacked) = {Message}
  BY MessageInHand
<1>3. Live' = ToSet(queue) /\ Live = Live' \cup {Message}
  BY <1>1, <1>2 DEF Live
<1> QED BY <1>1, <1>3 DEF Shape

\* A publish: the queue may gain the message, and nothing else.
LEMMA Published ==
    ASSUME TypeOK, NEW m \in Messages, NEW outcome \in Outcomes, m.event \in Requests,
           Publish(m, outcome), UNCHANGED unacked
    PROVE  /\ queue' \in Seq(Messages) /\ stored' \subseteq stored \cup {m.event}
           /\ ToSet(queue) \subseteq ToSet(queue') /\ stored \subseteq stored'
           /\ Live \subseteq Live' /\ Live' \subseteq Live \cup {m}
           /\ faults' \in 0..MaxFaults
           /\ outcome \in {"confirmed", "unconfirmed"} =>
                m \in ToSet(queue') /\ m.event \in stored'
           /\ m.event \in stored' \ stored => m \in ToSet(queue')
<1>1. CASE outcome \in {"confirmed", "unconfirmed"}
  <2>1. /\ queue' \in Seq(Messages) /\ ToSet(queue') = ToSet(queue) \cup {m}
        /\ stored' = stored \cup {m.event}
    <3>1. queue' = Append(queue, m) /\ stored' = stored \cup {m.event}
      BY <1>1 DEF Publish, Taken
    <3>2. queue \in Seq(Messages)
      BY DEF TypeOK
    <3> QED BY <3>1, <3>2, AppendedMessages
  <2>2. faults' \in 0..MaxFaults
    BY FaultsAreBounded DEF Publish, Fault, NoFault, TypeOK
  <2> QED BY <2>1, <2>2 DEF Live
<1>2. CASE outcome \notin {"confirmed", "unconfirmed"}
  <2>1. queue' = queue /\ stored' = stored
    BY <1>2 DEF Publish
  <2>2. faults' \in 0..MaxFaults
    BY FaultsAreBounded DEF Publish, Fault, NoFault, TypeOK
  <2> QED BY <1>2, <2>1, <2>2 DEF Live, TypeOK
<1> QED BY <1>1, <1>2

\* What PublishEvent and Republish send.
LEMMA FirstCopy ==
    ASSUME NEW r \in Requests
    PROVE  /\ [event |-> r, attempt |-> 1] \in Messages
           /\ [event |-> r, attempt |-> 1].event = r
           /\ [event |-> r, attempt |-> 1].attempt = 1
BY DEF Messages, Events, maxDeliveryAttempts

LEMMA NextCopy ==
    ASSUME TypeOK, Shape, step = "retry", Attempt < maxDeliveryAttempts
    PROVE  /\ [Message EXCEPT !.attempt = Attempt + 1] \in Messages
           /\ [Message EXCEPT !.attempt = Attempt + 1].event = Message.event
           /\ [Message EXCEPT !.attempt = Attempt + 1].attempt = Attempt + 1
           /\ Message.event \in Requests
<1>1. /\ Message \in Messages /\ Attempt \in 1..maxDeliveryAttempts
  BY MessageInHand
<1>2. Attempt + 1 \in 0..maxDeliveryAttempts
  BY <1>1 DEF maxDeliveryAttempts
<1>3. Message.event \in Requests
  BY DEF Shape
<1> QED BY <1>1, <1>2, <1>3 DEF Messages

(***************************************************************************)
(* Types and the shape of the consumer.                                    *)
(***************************************************************************)

LEMMA OneMore ==
    ASSUME NEW f \in [Requests -> Nat], NEW r \in Requests
    PROVE  /\ [f EXCEPT ![r] = @ + 1] \in [Requests -> Nat]
           /\ [f EXCEPT ![r] = @ + 1][r] = f[r] + 1
           /\ \A q \in Requests : [f EXCEPT ![r] = @ + 1][q] >= f[q]
OBVIOUS

LEMMA MoreIsSome ==
    ASSUME NEW f \in [Requests -> Nat], NEW r \in Requests
    PROVE  /\ [f EXCEPT ![r] = @ + 1][r] > 0
           /\ \A q \in Requests : f[q] > 0 => [f EXCEPT ![r] = @ + 1][q] > 0
OBVIOUS

LEMMA FaultsInRange ==
    ASSUME TypeOK, Fault \/ NoFault \/ faults' = faults
    PROVE  faults' \in 0..MaxFaults
BY FaultsAreBounded DEF TypeOK, Fault, NoFault

LEMMA Replied ==
    ASSUME TypeOK, NEW r \in Requests, NEW code \in {201, 409, 500}, Reply(r, code)
    PROVE  /\ pc' \in [Requests -> {"idle", "create", "publish", "done"}]
           /\ answer' \in [Requests -> {0, 201, 409, 500}]
           /\ pc'[r] = "done" /\ answer'[r] = code
           /\ \A q \in Requests \ {r} : pc'[q] = pc[q] /\ answer'[q] = answer[q]
BY DEF TypeOK, Reply

LEMMA MovedOn ==
    ASSUME TypeOK, NEW r \in Requests, NEW where \in {"create", "publish"},
           pc' = [pc EXCEPT ![r] = where]
    PROVE  /\ pc' \in [Requests -> {"idle", "create", "publish", "done"}]
           /\ pc'[r] = where /\ \A q \in Requests \ {r} : pc'[q] = pc[q]
BY DEF TypeOK

LEMMA TypeStep == TypeOK /\ Shape /\ [Next]_vars => TypeOK' /\ Shape'
<1> SUFFICES ASSUME TypeOK, Shape, [Next]_vars PROVE TypeOK' /\ Shape'
  OBVIOUS
<1> USE DEF handlers, broker, smtp
<1>1. ASSUME NEW r \in Requests, NEW e \in Emails, Find(r, e) PROVE TypeOK' /\ Shape'
  <2>1. faults' \in 0..MaxFaults
    BY <1>1, FaultsInRange DEF Find
  <2>2. email' \in [Requests -> Emails \cup {None}]
    BY <1>1 DEF Find, TypeOK
  <2>4. /\ pc' \in [Requests -> {"idle", "create", "publish", "done"}]
        /\ answer' \in [Requests -> {0, 201, 409, 500}]
    <3>1. \/ Reply(r, 409) \/ Reply(r, 500)
          \/ pc' = [pc EXCEPT ![r] = "create"] /\ UNCHANGED answer
      BY <1>1 DEF Find
    <3> QED BY <3>1, Replied, MovedOn DEF TypeOK
  <2>3. UNCHANGED <<users, broker, step, consuming, smtp>>
    BY <1>1 DEF Find
  <2> QED BY <2>1, <2>2, <2>3, <2>4 DEF TypeOK, Shape, Message
<1>2. ASSUME NEW r \in Requests, Create(r) PROVE TypeOK' /\ Shape'
  <2>1. faults' \in 0..MaxFaults
    BY <1>2, FaultsInRange DEF Create
  <2>2. /\ pc' \in [Requests -> {"idle", "create", "publish", "done"}]
        /\ answer' \in [Requests -> {0, 201, 409, 500}] /\ users' \subseteq Requests
    <3>1. \/ Reply(r, 500) /\ UNCHANGED users
          \/ /\ pc' = [pc EXCEPT ![r] = "publish"] /\ users' = users \cup {r}
             /\ UNCHANGED answer
      BY <1>2 DEF Create
    <3>2. users' \subseteq Requests
      BY <3>1 DEF TypeOK
    <3> QED BY <3>1, <3>2, Replied, MovedOn DEF TypeOK
  <2>3. UNCHANGED <<email, broker, step, consuming, smtp>>
    BY <1>2 DEF Create
  <2> QED BY <2>1, <2>2, <2>3 DEF TypeOK, Shape, Message
<1>3. ASSUME NEW r \in Requests, PublishEvent(r) PROVE TypeOK' /\ Shape'
  <2>1. PICK outcome \in Outcomes :
          /\ Publish([event |-> r, attempt |-> 1], outcome)
          /\ Reply(r, IF Told(outcome) THEN 201 ELSE 500)
    BY <1>3 DEF PublishEvent
  <2>2. UNCHANGED <<email, users, unacked, dead, step, consuming, smtp>>
    BY <1>3 DEF PublishEvent
  <2>3. queue' \in Seq(Messages) /\ stored' \subseteq Requests /\ faults' \in 0..MaxFaults
    BY <2>1, <2>2, FirstCopy, Published DEF TypeOK
  <2>4. /\ pc' \in [Requests -> {"idle", "create", "publish", "done"}]
        /\ answer' \in [Requests -> {0, 201, 409, 500}]
    BY <2>1 DEF Reply, TypeOK
  <2> QED BY <2>2, <2>3, <2>4 DEF TypeOK, Shape, Message
<1>4. CASE Deliver
  <2>1. UNCHANGED <<handlers, dead, stored, consuming, smtp, faults>> /\ step' = "send"
    BY <1>4 DEF Deliver
  <2>2. /\ queue' \in Seq(Messages) /\ unacked' \in Seq(Messages)
        /\ Len(unacked') <= 1 /\ Shape'
    BY <1>4, Delivered
  <2> QED BY <2>1, <2>2 DEF TypeOK
<1>5. CASE Reject \/ GiveUp
  <2>1. DeadLetter /\ step # "idle"
    BY <1>5 DEF Reject, GiveUp
  <2>2. Message \in Messages
    BY <2>1, MessageInHand
  <2>3. unacked' \in Seq(Messages) /\ Len(unacked') <= 1 /\ Shape'
    BY <2>1, LetGo DEF DeadLetter
  <2> QED BY <2>1, <2>2, <2>3 DEF TypeOK, DeadLetter
<1>6. CASE SendOk
  <2>1. Message.event \in Requests
    BY <1>6, MessageInHand DEF SendOk, Events
  <2>2. mailed' \in [Requests -> Nat]
    BY <1>6, <2>1, OneMore DEF SendOk, TypeOK
  <2> QED BY <1>6, <2>1, <2>2 DEF SendOk, TypeOK, Shape, Message
<1>7. CASE SendFail
  <2>1. Message.event \in Requests
    BY <1>7, MessageInHand DEF SendFail, Events
  <2>2. mailed' \in [Requests -> Nat] /\ failures' \in [Requests -> Nat]
    <3>1. mailed \in [Requests -> Nat] /\ failures \in [Requests -> Nat]
      BY DEF TypeOK
    <3>2. failures' = [failures EXCEPT ![Message.event] = @ + 1]
      BY <1>7 DEF SendFail
    <3>3. mailed' = mailed \/ mailed' = [mailed EXCEPT ![Message.event] = @ + 1]
      BY <1>7 DEF SendFail
    <3> QED BY <2>1, <3>1, <3>2, <3>3, OneMore
  <2> QED BY <1>7, <2>1, <2>2 DEF SendFail, TypeOK, Shape, Message
<1>8. CASE Republish
  <2>1. PICK outcome \in Outcomes :
          /\ Publish([Message EXCEPT !.attempt = Attempt + 1], outcome)
          /\ step' = IF Told(outcome) THEN "ack" ELSE "requeue"
    BY <1>8 DEF Republish
  <2>2. UNCHANGED <<handlers, unacked, dead, consuming, smtp>>
    BY <1>8 DEF Republish
  <2>3. queue' \in Seq(Messages) /\ stored' \subseteq Requests /\ faults' \in 0..MaxFaults
    <3>1. /\ [Message EXCEPT !.attempt = Attempt + 1] \in Messages
          /\ [Message EXCEPT !.attempt = Attempt + 1].event \in Requests
      BY <1>8, NextCopy DEF Republish
    <3>2. /\ queue' \in Seq(Messages) /\ faults' \in 0..MaxFaults
          /\ stored' \subseteq
               stored \cup {[Message EXCEPT !.attempt = Attempt + 1].event}
      BY <2>1, <2>2, <3>1, Published
    <3> QED BY <3>1, <3>2 DEF TypeOK
  <2>4. Message.event \in Requests /\ unacked # <<>>
    BY <1>8 DEF Shape, Republish
  <2>5. Shape'
    BY <2>1, <2>2, <2>4 DEF Shape, Message
  <2> QED BY <2>1, <2>2, <2>3, <2>5 DEF TypeOK
<1>9. CASE Requeue
  <2>1. /\ queue' \in Seq(Messages) /\ unacked' \in Seq(Messages)
        /\ Len(unacked') <= 1 /\ Shape'
    BY <1>9, PutBack DEF Requeue
  <2> QED BY <1>9, <2>1 DEF Requeue, TypeOK
<1>10. CASE Ack
  <2>1. unacked' \in Seq(Messages) /\ Len(unacked') <= 1 /\ Shape'
    BY <1>10, LetGo DEF Ack
  <2> QED BY <1>10, <2>1 DEF Ack, TypeOK
<1>11. CASE Crash
  <2>1. /\ queue' \in Seq(Messages) /\ unacked' \in Seq(Messages)
        /\ Len(unacked') <= 1 /\ Shape' /\ faults' \in 0..MaxFaults
    BY <1>11, PutBack, FaultsInRange DEF Crash
  <2>2. pc' \in [Requests -> {"idle", "create", "publish", "done"}]
    BY <1>11 DEF Crash, TypeOK
  <2> QED BY <1>11, <2>1, <2>2 DEF Crash, TypeOK
<1>12. CASE LoseConsumer
  <2>1. /\ queue' \in Seq(Messages) /\ unacked' \in Seq(Messages)
        /\ Len(unacked') <= 1 /\ Shape' /\ faults' \in 0..MaxFaults
    BY <1>12, PutBack, FaultsInRange DEF LoseConsumer
  <2>2. /\ UNCHANGED <<handlers, dead, stored, smtp>>
        /\ consuming' \in BOOLEAN /\ step' = "idle"
    BY <1>12 DEF LoseConsumer
  <2> QED BY <2>1, <2>2 DEF TypeOK
<1>13. CASE UNCHANGED vars
  BY <1>13 DEF vars, TypeOK, Shape, Message
<1> QED BY <1>1, <1>2, <1>3, <1>4, <1>5, <1>6, <1>7, <1>8, <1>9, <1>10, <1>11,
           <1>12, <1>13 DEF Next, Handler, Consumer

(***************************************************************************)
(* Events belong to users.                                                 *)
(***************************************************************************)

LEMMA KnownKept ==
    ASSUME Known, Live' \cup dead' \subseteq Live \cup dead, users \subseteq users',
           stored' = stored, mailed' = mailed,
           \A r \in Requests : pc'[r] = "publish" => pc[r] = "publish" \/ r \in users'
    PROVE  Known'
BY DEF Known

LEMMA KnownStep == TypeOK /\ Shape /\ Known /\ OnePerEmail /\ [Next]_vars => Known'
<1> SUFFICES ASSUME TypeOK, Shape, Known, OnePerEmail, [Next]_vars PROVE Known'
  OBVIOUS
<1> USE DEF handlers, broker, smtp
<1>1. ASSUME NEW r \in Requests, NEW e \in Emails, Find(r, e) PROVE Known'
  <2>1. UNCHANGED <<users, broker, smtp>> /\ Live' = Live
    BY <1>1 DEF Find, Live
  <2>2. \/ Reply(r, 409) \/ Reply(r, 500)
        \/ pc' = [pc EXCEPT ![r] = "create"] /\ UNCHANGED answer
    BY <1>1 DEF Find
  <2>3. \A q \in Requests : pc'[q] = "publish" => pc[q] = "publish"
    BY <2>2, Replied, MovedOn
  <2> QED BY <2>1, <2>3, KnownKept
<1>2. ASSUME NEW r \in Requests, Create(r) PROVE Known'
  <2>1. UNCHANGED <<broker, smtp>> /\ Live' = Live
    BY <1>2 DEF Create, Live
  <2>2. \/ Reply(r, 500) /\ UNCHANGED users
        \/ /\ pc' = [pc EXCEPT ![r] = "publish"] /\ users' = users \cup {r}
           /\ UNCHANGED answer
    BY <1>2 DEF Create
  <2>3. \A q \in Requests : pc'[q] = "publish" => pc[q] = "publish" \/ q \in users'
    BY <2>2, Replied, MovedOn
  <2> QED BY <2>1, <2>2, <2>3, KnownKept
<1>3. ASSUME NEW r \in Requests, PublishEvent(r) PROVE Known'
  <2>1. PICK outcome \in Outcomes :
          /\ Publish([event |-> r, attempt |-> 1], outcome)
          /\ Reply(r, IF Told(outcome) THEN 201 ELSE 500)
    BY <1>3 DEF PublishEvent
  <2>2. UNCHANGED <<email, users, unacked, dead, step, consuming, smtp>>
    BY <1>3 DEF PublishEvent
  <2>3. r \in users
    BY <1>3 DEF PublishEvent, Known
  <2>4. /\ stored' \subseteq stored \cup {r}
        /\ Live' \subseteq Live \cup {[event |-> r, attempt |-> 1]}
    BY <2>1, <2>2, FirstCopy, Published
  <2>5. \A q \in Requests : pc'[q] = "publish" => pc[q] = "publish"
    BY <2>1, Replied
  <2> QED BY <2>2, <2>3, <2>4, <2>5, FirstCopy DEF Known
<1>4. CASE Deliver
  <2>1. Live' = Live
    BY <1>4, Delivered
  <2> QED BY <1>4, <2>1, KnownKept DEF Deliver
<1>5. CASE Reject \/ GiveUp
  <2>1. DeadLetter /\ step # "idle"
    BY <1>5 DEF Reject, GiveUp
  <2>2. Live = Live' \cup {Message}
    BY <2>1, LetGo DEF DeadLetter
  <2> QED BY <2>1, <2>2, KnownKept DEF DeadLetter
<1>6. CASE SendOk \/ SendFail
  <2>1. /\ Message.event # Garbage /\ step # "idle" /\ Live' = Live
        /\ UNCHANGED <<handlers, broker>>
        /\ \/ mailed' = mailed
           \/ mailed' = [mailed EXCEPT ![Message.event] = @ + 1]
    BY <1>6 DEF SendOk, SendFail, Live
  <2>2. Message.event \in users /\ Message.event \in Requests
    BY <2>1, MessageInHand DEF Known, Events
  <2>3. \A r \in Requests : mailed'[r] > 0 => mailed[r] > 0 \/ r \in users
    <3> SUFFICES ASSUME NEW r \in Requests, r # Message.event
                 PROVE  mailed'[r] = mailed[r]
      BY <2>2
    <3>1. mailed \in [Requests -> Nat]
      BY DEF TypeOK
    <3> QED BY <2>1, <3>1
  <2> QED BY <2>1, <2>3 DEF Known
<1>7. CASE Republish
  <2>1. PICK outcome \in Outcomes : Publish([Message EXCEPT !.attempt = Attempt + 1], outcome)
    BY <1>7 DEF Republish
  <2>2. UNCHANGED <<handlers, unacked, dead, consuming, smtp>> /\ step = "retry"
    BY <1>7 DEF Republish
  <2>3. /\ [Message EXCEPT !.attempt = Attempt + 1] \in Messages
        /\ [Message EXCEPT !.attempt = Attempt + 1].event = Message.event
        /\ Message.event \in Requests
    BY <1>7, NextCopy DEF Republish
  <2>4. /\ stored' \subseteq stored \cup {Message.event}
        /\ Live' \subseteq Live \cup {[Message EXCEPT !.attempt = Attempt + 1]}
    BY <2>1, <2>2, <2>3, Published
  <2>5. Message.event \in users
    BY <2>2, <2>3, MessageInHand DEF Known
  <2> QED BY <2>2, <2>3, <2>4, <2>5 DEF Known
<1>8. CASE Requeue \/ LoseConsumer
  <2>1. UNCHANGED <<handlers, dead, stored, smtp>> /\ Live' = Live
    BY <1>8, PutBack DEF Requeue, LoseConsumer
  <2> QED BY <2>1, KnownKept
<1>9. CASE Ack
  <2>1. Live = Live' \cup {Message}
    BY <1>9, LetGo DEF Ack
  <2> QED BY <1>9, <2>1, KnownKept DEF Ack
<1>10. CASE Crash
  <2>1. UNCHANGED <<users, dead, stored, smtp>> /\ Live' = Live
    BY <1>10, PutBack DEF Crash
  <2>2. \A r \in Requests : pc'[r] # "publish"
    BY <1>10 DEF Crash
  <2> QED BY <2>1, <2>2, KnownKept
<1>11. CASE UNCHANGED vars
  BY <1>11 DEF vars, Known, Live
<1> QED BY <1>1, <1>2, <1>3, <1>4, <1>5, <1>6, <1>7, <1>8, <1>9, <1>10, <1>11
        DEF Next, Handler, Consumer

(***************************************************************************)
(* One user per email.                                                     *)
(***************************************************************************)

LEMMA OnePerEmailStep == TypeOK /\ OnePerEmail /\ [Next]_vars => OnePerEmail'
<1> SUFFICES ASSUME TypeOK, OnePerEmail, [Next]_vars PROVE OnePerEmail'
  OBVIOUS
<1> USE DEF handlers
<1>1. ASSUME NEW r \in Requests, NEW e \in Emails, Find(r, e) PROVE OnePerEmail'
  <2>1. r \notin users /\ users \subseteq Requests
    BY <1>1 DEF Find, OnePerEmail, TypeOK
  <2>2. /\ users' = users
        /\ \A q \in Requests \ {r} : email'[q] = email[q] /\ pc'[q] = pc[q]
    BY <1>1 DEF Find, Reply, TypeOK
  <2> QED BY <2>1, <2>2 DEF OnePerEmail
<1>2. ASSUME NEW r \in Requests, Create(r) PROVE OnePerEmail'
  <2>1. r \notin users /\ users \subseteq Requests /\ email' = email
    BY <1>2 DEF Create, OnePerEmail, TypeOK
  <2>2. CASE Reply(r, 500) /\ users' = users
    BY <2>1, <2>2, Replied DEF OnePerEmail
  <2>3. CASE /\ pc' = [pc EXCEPT ![r] = "publish"] /\ users' = users \cup {r}
             /\ ~EmailTaken(email[r])
    BY <2>1, <2>3, MovedOn DEF OnePerEmail, EmailTaken
  <2> QED BY <1>2, <2>2, <2>3 DEF Create
<1>3. ASSUME NEW r \in Requests, PublishEvent(r) PROVE OnePerEmail'
  <2>1. users' = users /\ email' = email /\ users \subseteq Requests
    BY <1>3 DEF PublishEvent, TypeOK
  <2>2. pc'[r] = "done" /\ \A q \in Requests \ {r} : pc'[q] = pc[q]
    BY <1>3 DEF PublishEvent, Reply, TypeOK
  <2> QED BY <2>1, <2>2 DEF OnePerEmail
<1>4. CASE Consumer \/ LoseConsumer \/ UNCHANGED vars
  <2>1. UNCHANGED handlers
    BY <1>4 DEF Consumer, LoseConsumer, vars, Deliver, Reject, SendOk, SendFail,
                GiveUp, DeadLetter, Republish, Requeue, Ack
  <2> QED BY <2>1 DEF OnePerEmail
<1>5. CASE Crash
  <2>1. users' = users /\ email' = email /\ users \subseteq Requests
    BY <1>5 DEF Crash, TypeOK
  <2>2. \A q \in Requests : pc[q] \in {"publish", "done"} => pc'[q] = "done"
    BY <1>5 DEF Crash
  <2> QED BY <2>1, <2>2 DEF OnePerEmail
<1> QED BY <1>1, <1>2, <1>3, <1>4, <1>5 DEF Next, Handler

(***************************************************************************)
(* Attempts and failures.                                                  *)
(***************************************************************************)

LEMMA CountedKept ==
    ASSUME Counted, Live' \subseteq Live, dead' = dead, failures' = failures,
           step' # "retry"
    PROVE  Counted'
BY DEF Counted

LEMMA CountedStep == TypeOK /\ Shape /\ Counted /\ [Next]_vars => Counted'
<1> SUFFICES ASSUME TypeOK, Shape, Counted, [Next]_vars PROVE Counted'
  OBVIOUS
<1> USE DEF handlers, broker, smtp
<1>1. ASSUME NEW r \in Requests, NEW e \in Emails, Find(r, e) PROVE Counted'
  BY <1>1 DEF Find, Counted, Live, Message, Attempt
<1>11. ASSUME NEW r \in Requests, Create(r) PROVE Counted'
  BY <1>11 DEF Create, Counted, Live, Message, Attempt
<1>2. ASSUME NEW r \in Requests, PublishEvent(r) PROVE Counted'
  <2>1. PICK outcome \in Outcomes : Publish([event |-> r, attempt |-> 1], outcome)
    BY <1>2 DEF PublishEvent
  <2>2. UNCHANGED <<unacked, dead, step, smtp>>
    BY <1>2 DEF PublishEvent
  <2>3. Live' \subseteq Live \cup {[event |-> r, attempt |-> 1]}
    BY <2>1, <2>2, FirstCopy, Published
  <2>4. failures[r] + 1 >= 1
    <3>1. failures[r] \in Nat
      BY DEF TypeOK
    <3> QED BY <3>1
  <2> QED BY <2>2, <2>3, <2>4, FirstCopy DEF Counted, Message, Attempt
<1>3. CASE Deliver
  <2>1. Live' = Live
    BY <1>3, Delivered
  <2> QED BY <1>3, <2>1, CountedKept DEF Deliver
<1>4. CASE Reject \/ GiveUp
  <2>1. DeadLetter /\ step # "idle"
    BY <1>4 DEF Reject, GiveUp
  <2>2. Live = Live' \cup {Message}
    BY <2>1, LetGo DEF DeadLetter
  <2>3. dead' = dead \cup {Message} /\ failures' = failures /\ step' = "idle"
    BY <2>1 DEF DeadLetter
  <2>4. Message.event # Garbage => failures[Message.event] >= maxDeliveryAttempts
    <3>1. CASE Reject
      BY <3>1 DEF Reject
    <3>2. CASE GiveUp
      <4>1. /\ Message.event \in Requests /\ Attempt >= maxDeliveryAttempts
            /\ failures[Message.event] >= Attempt
        BY <3>2 DEF GiveUp, Shape, Counted
      <4>2. failures[Message.event] \in Nat /\ Attempt \in 1..maxDeliveryAttempts
        BY <2>1, <4>1, MessageInHand DEF TypeOK
      <4> QED BY <4>1, <4>2 DEF maxDeliveryAttempts
    <3> QED BY <1>4, <3>1, <3>2
  <2> QED BY <2>2, <2>3, <2>4 DEF Counted
<1>5. CASE SendOk
  <2>1. Live' = Live /\ UNCHANGED <<dead, failures>> /\ step' = "ack"
    BY <1>5 DEF SendOk, Live
  <2> QED BY <2>1, CountedKept
<1>6. CASE SendFail
  <2>1. /\ step = "send" /\ Message.event # Garbage
        /\ failures' = [failures EXCEPT ![Message.event] = @ + 1]
        /\ UNCHANGED broker /\ Live' = Live
    BY <1>6 DEF SendFail, Live
  <2>2. /\ Message.event \in Requests /\ Message \in Live
        /\ Message.attempt \in 0..maxDeliveryAttempts
    BY <2>1, MessageInHand DEF Events
  <2>3. /\ \A q \in Requests : failures[q] \in Nat /\ failures'[q] \in Nat
        /\ \A q \in Requests : failures'[q] >= failures[q]
        /\ failures'[Message.event] = failures[Message.event] + 1
    <3>1. failures \in [Requests -> Nat]
      BY DEF TypeOK
    <3> QED BY <2>1, <2>2, <3>1, OneMore
  <2>4. failures[Message.event] + 1 >= Message.attempt
    BY <2>1, <2>2 DEF Counted
  <2>5. failures'[Message.event] >= Attempt
    BY <2>2, <2>3, <2>4 DEF Attempt
  <2>6. Message' = Message /\ Attempt' = Attempt
    BY <2>1 DEF Message, Attempt
  <2>7. ASSUME NEW m \in Live, m.event # Garbage PROVE failures'[m.event] + 1 >= m.attempt
    <3>1. m \in Messages
      BY <2>7, MembersAreMessages DEF Live, TypeOK
    <3>2. m.event \in Requests /\ m.attempt \in Nat
      BY <2>7, <3>1 DEF Messages, Events, maxDeliveryAttempts
    <3>3. failures[m.event] + 1 >= m.attempt
      BY <2>7 DEF Counted
    <3>4. /\ failures[m.event] \in Nat /\ failures'[m.event] \in Nat
          /\ failures'[m.event] >= failures[m.event]
      BY <2>3, <3>2
    <3> QED BY <3>2, <3>3, <3>4
  <2>8. ASSUME NEW m \in dead, m.event # Garbage
        PROVE  failures'[m.event] >= maxDeliveryAttempts
    <3>1. m.event \in Requests
      BY <2>8 DEF TypeOK, Messages, Events
    <3>2. failures[m.event] >= maxDeliveryAttempts
      BY <2>8 DEF Counted
    <3>3. /\ failures[m.event] \in Nat /\ failures'[m.event] \in Nat
          /\ failures'[m.event] >= failures[m.event]
      BY <2>3, <3>1
    <3> QED BY <3>2, <3>3 DEF maxDeliveryAttempts
  <2>9. dead' = dead
    BY <2>1
  <2> QED BY <2>1, <2>5, <2>6, <2>7, <2>8, <2>9 DEF Counted
<1>7. CASE Republish
  <2>1. PICK outcome \in Outcomes :
          /\ Publish([Message EXCEPT !.attempt = Attempt + 1], outcome)
          /\ step' = IF Told(outcome) THEN "ack" ELSE "requeue"
    BY <1>7 DEF Republish
  <2>2. /\ UNCHANGED <<unacked, dead, failures>> /\ step = "retry" /\ step' # "retry"
    BY <1>7, <2>1 DEF Republish
  <2>3. /\ [Message EXCEPT !.attempt = Attempt + 1] \in Messages
        /\ [Message EXCEPT !.attempt = Attempt + 1].event = Message.event
        /\ [Message EXCEPT !.attempt = Attempt + 1].attempt = Attempt + 1
        /\ Message.event \in Requests
    BY <1>7, NextCopy DEF Republish
  <2>4. Live' \subseteq Live \cup {[Message EXCEPT !.attempt = Attempt + 1]}
    BY <2>1, <2>2, <2>3, Published
  <2>5. failures[Message.event] + 1 >= Attempt + 1
    <3>1. failures[Message.event] \in Nat /\ Attempt \in 1..maxDeliveryAttempts
      BY <2>2, <2>3, MessageInHand DEF TypeOK
    <3>2. failures[Message.event] >= Attempt
      BY <2>2 DEF Counted
    <3> QED BY <3>1, <3>2 DEF maxDeliveryAttempts
  <2> QED BY <2>2, <2>3, <2>4, <2>5 DEF Counted
<1>8. CASE Requeue \/ LoseConsumer \/ Crash
  <2>1. /\ UNCHANGED <<dead, failures>> /\ Live' = Live /\ step' = "idle"
    BY <1>8, PutBack DEF Requeue, LoseConsumer, Crash
  <2> QED BY <2>1, CountedKept
<1>9. CASE Ack
  <2>1. Live = Live' \cup {Message}
    BY <1>9, LetGo DEF Ack
  <2> QED BY <1>9, <2>1, CountedKept DEF Ack
<1>10. CASE UNCHANGED vars
  BY <1>10 DEF vars, Counted, Live, Message, Attempt
<1> QED BY <1>1, <1>2, <1>3, <1>4, <1>5, <1>6, <1>7, <1>8, <1>9, <1>10, <1>11
        DEF Next, Handler, Consumer

(***************************************************************************)
(* Theorems.                                                               *)
(***************************************************************************)

LEMMA InitIInv == Init => IInv
<1> SUFFICES ASSUME Init PROVE IInv
  OBVIOUS
<1>1. 0 \in 0..MaxFaults /\ faults = 0
  BY FaultsAreBounded DEF Init
<1>2. queue = <<>> \/ queue = <<[event |-> Garbage, attempt |-> 0]>>
  BY DEF Init
<1>3. [event |-> Garbage, attempt |-> 0] \in Messages
  BY DEF Messages, Events, maxDeliveryAttempts
<1>4. /\ queue \in Seq(Messages) /\ unacked \in Seq(Messages) /\ Len(unacked) <= 1
      /\ ToSet(unacked) = {} /\ unacked = <<>> /\ step = "idle"
      /\ ToSet(queue) \subseteq {[event |-> Garbage, attempt |-> 0]}
  BY <1>2, <1>3, FewMessages DEF Init
<1>5. TypeOK
  BY <1>1, <1>4 DEF Init, TypeOK
<1>6. \A m \in Live : m.event = Garbage
  BY <1>4 DEF Live
<1>7. /\ dead = {} /\ users = {} /\ stored = {}
      /\ \A r \in Requests : mailed[r] = 0 /\ pc[r] = "idle"
  BY DEF Init
<1> QED BY <1>4, <1>5, <1>6, <1>7 DEF IInv, Shape, Known, OnePerEmail, Counted

\* The inductive invariant of registration: the consumer has a message exactly
\* when it works, every event and mail belongs to a user, no email has two
\* users, and no attempt is ahead of the failures.
THEOREM Inductive == Spec => []IInv
<1>1. IInv /\ [Next]_vars => IInv'
  BY TypeStep, KnownStep, OnePerEmailStep, CountedStep DEF IInv
<1> QED BY InitIInv, <1>1, PTL DEF Spec

\* Every variable of the registration model keeps its type.
THEOREM TypeCorrect == Spec => []TypeOK
<1>1. IInv => TypeOK
  BY DEF IInv
<1> QED BY Inductive, <1>1, PTL

\* Whatever registrations pass FindByEmail together, and wherever the process
\* dies, no email gets two users and no mail goes out for a user that is not in
\* the collection.
THEOREM EmailsAreUnique == Spec => []OneAccountPerEmail
<1>1. IInv => OneAccountPerEmail
  BY DEF IInv, Known, OnePerEmail, OneAccountPerEmail
<1> QED BY Inductive, <1>1, PTL

\* No message claims more attempts than SMTP refused mails for its event, and
\* three failures stand behind each event in the dead letter queue.
THEOREM DeadLettersWereTried == Spec => []AttemptsWereFailures
<1>1. ASSUME IInv PROVE AttemptsWereFailures
  <2>1. \A i \in 1..Len(queue) : queue[i] \in Live
    BY <1>1, ElementsAreMembers DEF IInv, TypeOK, Live
  <2> QED BY <1>1, <2>1 DEF IInv, Counted, AttemptsWereFailures
<1> QED BY Inductive, <1>1, PTL

(***************************************************************************)
(* No event lost.  The hypothesis is on the publisher: PublisherConfirms   *)
(* shows what it takes for a publish to be reported as done and not be.    *)
(* "ack" is the dangerous step of the consumer: the message in its hands   *)
(* is about to be dropped, so the event has to be safe without it.         *)
(***************************************************************************)

Waiting == ToSet(queue) \cup dead
Settled(e) == mailed[e] > 0 \/ \E m \in Waiting : m.event = e

Kept ==
    /\ \A e \in stored : Settled(e) \/ \E m \in ToSet(unacked) : m.event = e
    /\ step = "ack" => Settled(Message.event)
    /\ \A r \in Requests : answer[r] = 201 => r \in stored

\* A step that takes nothing out of the queue but what goes to the consumer.
LEMMA KeptStays ==
    ASSUME Kept, stored' = stored, Live \cup dead \subseteq Live' \cup dead',
           \A e \in stored : mailed[e] > 0 => mailed'[e] > 0,
           step' # "ack",
           \A r \in Requests : answer'[r] = 201 => answer[r] = 201
    PROVE  Kept'
BY DEF Kept, Settled, Waiting, Live

LEMMA KeptStep ==
    ASSUME "misconfirmed" \notin Outcomes
    PROVE  TypeOK /\ Shape /\ Kept /\ [Next]_vars => Kept'
<1> SUFFICES ASSUME TypeOK, Shape, Kept, [Next]_vars PROVE Kept'
  OBVIOUS
<1> USE DEF handlers, broker, smtp
<1>1. ASSUME NEW r \in Requests, NEW e \in Emails, Find(r, e) PROVE Kept'
  <2>1. UNCHANGED <<users, broker, step, smtp>>
    BY <1>1 DEF Find
  <2>2. \/ Reply(r, 409) \/ Reply(r, 500)
        \/ pc' = [pc EXCEPT ![r] = "create"] /\ UNCHANGED answer
    BY <1>1 DEF Find
  <2>3. \A q \in Requests : answer'[q] = 201 => answer[q] = 201
    BY <2>2, Replied
  <2> QED BY <2>1, <2>3 DEF Kept, Settled, Waiting, Message
<1>2. ASSUME NEW r \in Requests, Create(r) PROVE Kept'
  <2>1. UNCHANGED <<broker, step, smtp>>
    BY <1>2 DEF Create
  <2>2. Reply(r, 500) \/ UNCHANGED answer
    BY <1>2 DEF Create
  <2>3. \A q \in Requests : answer'[q] = 201 => answer[q] = 201
    BY <2>2, Replied
  <2> QED BY <2>1, <2>3 DEF Kept, Settled, Waiting, Message
<1>3. ASSUME NEW r \in Requests, PublishEvent(r) PROVE Kept'
  <2>1. PICK outcome \in Outcomes :
          /\ Publish([event |-> r, attempt |-> 1], outcome)
          /\ Reply(r, IF Told(outcome) THEN 201 ELSE 500)
    BY <1>3 DEF PublishEvent
  <2>2. UNCHANGED <<email, users, unacked, dead, step, consuming, smtp>>
    BY <1>3 DEF PublishEvent
  <2>3. /\ stored' \subseteq stored \cup {r} /\ stored \subseteq stored'
        /\ ToSet(queue) \subseteq ToSet(queue')
        /\ outcome \in {"confirmed", "unconfirmed"} => r \in stored'
        /\ r \in stored' \ stored => [event |-> r, attempt |-> 1] \in ToSet(queue')
    BY <2>1, <2>2, FirstCopy, Published
  <2>4. \A q \in Requests : answer'[q] = 201 => q \in stored'
    <3>1. CASE outcome = "confirmed"
      <4>1. Reply(r, 201)
        BY <2>1, <3>1 DEF Told
      <4> QED BY <2>3, <3>1, <4>1, Replied DEF Kept
    <3>2. CASE outcome # "confirmed"
      <4>1. Reply(r, 500)
        BY <2>1, <3>2 DEF Told
      <4> QED BY <2>3, <4>1, Replied DEF Kept
    <3> QED BY <3>1, <3>2
  <2>5. \A e \in stored' : Settled(e)' \/ \E m \in ToSet(unacked') : m.event = e
    BY <2>2, <2>3, FirstCopy DEF Kept, Settled, Waiting
  <2>6. step' = "ack" => Settled(Message.event)'
    BY <2>2, <2>3 DEF Kept, Settled, Waiting, Message
  <2> QED BY <2>4, <2>5, <2>6 DEF Kept
<1>4. CASE Deliver
  <2>1. Live' = Live
    BY <1>4, Delivered
  <2> QED BY <1>4, <2>1, KeptStays DEF Deliver
<1>5. CASE Reject \/ GiveUp
  <2>1. DeadLetter /\ step # "idle"
    BY <1>5 DEF Reject, GiveUp
  <2>2. Live = Live' \cup {Message}
    BY <2>1, LetGo DEF DeadLetter
  <2>3. /\ dead' = dead \cup {Message} /\ step' # "ack"
        /\ stored' = stored /\ mailed' = mailed /\ answer' = answer
    BY <2>1 DEF DeadLetter
  <2> QED BY <2>2, <2>3, KeptStays
<1>6. CASE SendOk
  <2>1. /\ step = "send" /\ Message.event # Garbage /\ step' = "ack"
        /\ mailed' = [mailed EXCEPT ![Message.event] = @ + 1]
        /\ UNCHANGED <<handlers, broker>>
    BY <1>6 DEF SendOk
  <2>2. Message.event \in Requests
    BY <2>1, MessageInHand DEF Events
  <2>3. /\ \A q \in Requests : mailed[q] > 0 => mailed'[q] > 0
        /\ mailed'[Message.event] > 0
    BY <2>1, <2>2, MoreIsSome DEF TypeOK
  <2> QED BY <2>1, <2>2, <2>3 DEF Kept, Settled, Waiting, Message, TypeOK
<1>7. CASE SendFail
  <2>1. /\ step = "send" /\ Message.event # Garbage /\ step' = "retry"
        /\ \/ mailed' = mailed
           \/ mailed' = [mailed EXCEPT ![Message.event] = @ + 1]
        /\ UNCHANGED <<handlers, broker>> /\ Live' = Live
    BY <1>7 DEF SendFail, Live
  <2>2. Message.event \in Requests
    BY <2>1, MessageInHand DEF Events
  <2>3. \A q \in Requests : mailed[q] > 0 => mailed'[q] > 0
    BY <2>1, <2>2, MoreIsSome DEF TypeOK
  <2>4. stored \subseteq Requests
    BY DEF TypeOK
  <2> QED BY <2>1, <2>3, <2>4, KeptStays
<1>8. CASE Republish
  <2>1. PICK outcome \in Outcomes :
          /\ Publish([Message EXCEPT !.attempt = Attempt + 1], outcome)
          /\ step' = IF Told(outcome) THEN "ack" ELSE "requeue"
    BY <1>8 DEF Republish
  <2>2. UNCHANGED <<handlers, unacked, dead, consuming, smtp>>
    BY <1>8 DEF Republish
  <2>3. /\ [Message EXCEPT !.attempt = Attempt + 1] \in Messages
        /\ [Message EXCEPT !.attempt = Attempt + 1].event = Message.event
        /\ Message.event \in Requests
    BY <1>8, NextCopy DEF Republish
  <2>4. /\ stored' \subseteq stored \cup {Message.event} /\ stored \subseteq stored'
        /\ ToSet(queue) \subseteq ToSet(queue')
        /\ outcome \in {"confirmed", "unconfirmed"} =>
             [Message EXCEPT !.attempt = Attempt + 1] \in ToSet(queue')
        /\ Message.event \in stored' \ stored =>
             [Message EXCEPT !.attempt = Attempt + 1] \in ToSet(queue')
    BY <2>1, <2>2, <2>3, Published
  <2>5. \A e \in stored' : Settled(e)' \/ \E m \in ToSet(unacked') : m.event = e
    BY <2>2, <2>3, <2>4 DEF Kept, Settled, Waiting
  <2>6. ASSUME step' = "ack" PROVE Settled(Message.event)'
    <3>1. outcome = "confirmed"
      BY <2>1, <2>6 DEF Told
    <3>2. [Message EXCEPT !.attempt = Attempt + 1] \in Waiting'
      BY <2>4, <3>1 DEF Waiting
    <3>3. Message' = Message
      BY <2>2 DEF Message
    <3> QED BY <2>3, <3>2, <3>3 DEF Settled
  <2> QED BY <2>2, <2>4, <2>5, <2>6 DEF Kept
<1>9. CASE Requeue \/ LoseConsumer \/ Crash
  <2>1. /\ UNCHANGED <<answer, dead, stored, smtp>> /\ Live' = Live /\ step' = "idle"
    BY <1>9, PutBack DEF Requeue, LoseConsumer, Crash
  <2> QED BY <2>1, KeptStays
<1>10. CASE Ack
  <2>1. ToSet(unacked) = {Message} /\ Settled(Message.event)
    BY <1>10, MessageInHand DEF Ack, Kept
  <2>2. /\ UNCHANGED <<handlers, queue, dead, stored, smtp>> /\ step' = "idle"
    BY <1>10 DEF Ack
  <2> QED BY <2>1, <2>2 DEF Kept, Settled, Waiting
<1>11. CASE UNCHANGED vars
  BY <1>11 DEF vars, Kept, Settled, Waiting, Message
<1> QED BY <1>1, <1>2, <1>3, <1>4, <1>5, <1>6, <1>7, <1>8, <1>9, <1>10, <1>11
        DEF Next, Handler, Consumer

\* With a publisher that never reports a success that is none, every event the
\* broker took and every registration answered 201 has its mail, or a message
\* that still stands for it: a crash at any point, a failed republish and an
\* acknowledgement lose nothing.
THEOREM EventsAreKept ==
    ASSUME "misconfirmed" \notin Outcomes
    PROVE  Spec => []NoEventLost
<1>1. Init => Kept
  BY DEF Init, Kept
<1>2. IInv /\ Kept /\ [Next]_vars => Kept'
  BY KeptStep DEF IInv
<1>3. ASSUME IInv, Kept PROVE NoEventLost
  <2>1. /\ \A e : Queued(e) <=> \E m \in ToSet(queue) : m.event = e
        /\ \A e : InHand(e) <=> \E m \in ToSet(unacked) : m.event = e
    BY <1>3, FoundByIndex DEF IInv, TypeOK, Queued, InHand
  <2>2. stored \cup {r \in Requests : answer[r] = 201} = stored
    BY <1>3 DEF Kept
  <2>3. \A e \in stored :
          mailed[e] > 0 \/ Queued(e) \/ InHand(e) \/ Buried(e)
    BY <1>3, <2>1 DEF Kept, Settled, Waiting, Buried
  <2> QED BY <2>2, <2>3 DEF NoEventLost
<1> QED BY Inductive, <1>1, <1>2, <1>3, PTL DEF Spec
=============================================================================
