---------------------------- MODULE Registration ----------------------------
(***************************************************************************)
(* POST /auth/register and the welcome mail it causes.                     *)
(*                                                                         *)
(* The handler looks the email up, inserts the user and publishes a        *)
(* user.registered event; the consumer goroutine of the same process takes *)
(* events from a durable queue one at a time, sends a mail by SMTP and     *)
(* acknowledges, republishes with a higher attempt, or dead-letters.       *)
(* MongoDB, RabbitMQ and SMTP are separate systems: every call to one of   *)
(* them is an action of its own, and the process may die between any two.  *)
(*                                                                         *)
(* How a publish ends is left to the constant Outcomes; what outcomes the  *)
(* publisher can have is the subject of module PublisherConfirms.          *)
(***************************************************************************)
EXTENDS Naturals, Sequences, SequencesExt, FiniteSets

CONSTANTS
    Requests,      \* registrations; the user and the event of one share its name
    Emails,
    Garbage,       \* the event of a message whose body does not decode
    None,
    Outcomes,      \* how a publish may end, a subset of AllOutcomes
    ConsumerLoss,  \* whether the broker may close the consumer's channel
    MaxFaults      \* bound on crashes, failed calls and lost channels

AllOutcomes == {"confirmed",     \* stored, and the caller is told so
                "unconfirmed",   \* stored, and the caller gets an error
                "rejected",      \* not stored, and the caller gets an error
                "misconfirmed"}  \* not stored, and the caller is told it is

ASSUME IdentifiersDiffer == Garbage \notin Requests /\ None \notin Requests \cup Emails
ASSUME OutcomesAreKnown == Outcomes \subseteq AllOutcomes /\ "confirmed" \in Outcomes
ASSUME FaultsAreBounded == MaxFaults \in Nat /\ ConsumerLoss \in BOOLEAN

VARIABLES
    email,     \* the email a request asked for
    pc,        \* where the handler of a request is
    answer,    \* the status code it answered
    users,     \* the users collection: requests whose user is inserted
    queue,     \* messages of the queue, oldest first
    unacked,   \* what the consumer is working on: a sequence of at most one
    step,      \* where the consumer is in its handler
    dead,      \* messages of the dead letter queue
    consuming, \* whether the consumer goroutine runs
    stored,    \* history: events RabbitMQ ever took
    mailed,    \* history: mails handed to SMTP for an event
    failures,  \* history: SMTP errors for an event
    faults     \* the faults so far

handlers == <<email, pc, answer, users>>
broker   == <<queue, unacked, dead, stored>>
smtp     == <<mailed, failures>>
vars     == <<handlers, broker, step, consuming, smtp, faults>>

maxDeliveryAttempts == 3
Events   == Requests \cup {Garbage}
Messages == [event : Events, attempt : 0..maxDeliveryAttempts]

TypeOK ==
    /\ email \in [Requests -> Emails \cup {None}]
    /\ pc \in [Requests -> {"idle", "create", "publish", "done"}]
    /\ answer \in [Requests -> {0, 201, 409, 500}]
    /\ users \subseteq Requests
    /\ queue \in Seq(Messages)
    /\ unacked \in Seq(Messages) /\ Len(unacked) <= 1
    /\ step \in {"idle", "send", "retry", "requeue", "ack"}
    /\ dead \subseteq Messages
    /\ consuming \in BOOLEAN
    /\ stored \subseteq Requests
    /\ mailed \in [Requests -> Nat] /\ failures \in [Requests -> Nat]
    /\ faults \in 0..MaxFaults

Init ==
    /\ email = [r \in Requests |-> None]
    /\ pc = [r \in Requests |-> "idle"]
    /\ answer = [r \in Requests |-> 0]
    /\ users = {}
    /\ queue \in {<<>>, <<[event |-> Garbage, attempt |-> 0]>>}
    /\ unacked = <<>> /\ step = "idle" /\ dead = {} /\ consuming = TRUE
    /\ stored = {}
    /\ mailed = [r \in Requests |-> 0] /\ failures = [r \in Requests |-> 0]
    /\ faults = 0

Fault == faults < MaxFaults /\ faults' = faults + 1
NoFault == faults' = faults

Reply(r, code) ==
    /\ answer' = [answer EXCEPT ![r] = code]
    /\ pc' = [pc EXCEPT ![r] = "done"]

-----------------------------------------------------------------------------
(* The handler                                                             *)

\* What FindByEmail finds, and what the unique index on email refuses.
EmailTaken(e) == \E s \in users : email[s] = e

\* FindByEmail: 409, 500 on a MongoDB error, or go on.
Find(r, e) ==
    /\ pc[r] = "idle"
    /\ email' = [email EXCEPT ![r] = e]
    /\ \/ /\ EmailTaken(e)
          /\ Reply(r, 409) /\ NoFault
       \/ /\ ~EmailTaken(e)
          /\ pc' = [pc EXCEPT ![r] = "create"]
          /\ NoFault /\ UNCHANGED answer
       \/ Reply(r, 500) /\ Fault
    /\ UNCHANGED <<users, broker, step, consuming, smtp>>

\* Mutant of Create: the collection has no unique index on email.
CreateWithoutIndex(r) ==
    /\ pc[r] = "create"
    /\ users' = users \cup {r}
    /\ pc' = [pc EXCEPT ![r] = "publish"]
    /\ NoFault /\ UNCHANGED <<email, answer, broker, step, consuming, smtp>>

\* userRepo.Create under the unique index on email; any error is a 500.
Create(r) ==
    /\ pc[r] = "create"
    /\ \/ /\ ~EmailTaken(email[r])
          /\ users' = users \cup {r}
          /\ pc' = [pc EXCEPT ![r] = "publish"]
          /\ NoFault /\ UNCHANGED answer
       \/ /\ EmailTaken(email[r])
          /\ Reply(r, 500) /\ NoFault /\ UNCHANGED users
       \/ Reply(r, 500) /\ Fault /\ UNCHANGED users
    /\ UNCHANGED <<email, broker, step, consuming, smtp>>

\* What the broker does with message m, and what the publisher is told.
Taken(m) == /\ queue' = Append(queue, m)
            /\ stored' = stored \cup {m.event}
Publish(m, outcome) ==
    /\ outcome \in Outcomes
    /\ IF outcome = "confirmed" THEN NoFault ELSE Fault
    /\ IF outcome \in {"confirmed", "unconfirmed"}
       THEN Taken(m) ELSE UNCHANGED <<queue, stored>>
Told(outcome) == outcome \in {"confirmed", "misconfirmed"}

\* PublishUserRegistered: 201, or 500 with the user left in the collection.
PublishEvent(r) ==
    /\ pc[r] = "publish"
    /\ \E outcome \in Outcomes :
         /\ Publish([event |-> r, attempt |-> 1], outcome)
         /\ Reply(r, IF Told(outcome) THEN 201 ELSE 500)
    /\ UNCHANGED <<email, users, unacked, dead, step, consuming, smtp>>

-----------------------------------------------------------------------------
(* The consumer, prefetch 1 and manual acknowledgements                    *)

Message  == unacked[1]
\* An attempt of 0 or less counts as the first.
Attempt  == IF Message.attempt = 0 THEN 1 ELSE Message.attempt

Deliver ==
    /\ consuming /\ step = "idle" /\ queue # <<>>
    /\ unacked' = <<Head(queue)>> /\ queue' = Tail(queue)
    /\ step' = "send"
    /\ UNCHANGED <<handlers, dead, stored, consuming, smtp, faults>>

DeadLetter ==
    /\ dead' = dead \cup {Message}
    /\ unacked' = <<>> /\ step' = "idle"
    /\ UNCHANGED <<handlers, queue, stored, consuming, smtp, faults>>

\* Mutant of Reject: Nack with requeue, so the message comes back forever.
RejectAndRequeue ==
    /\ step = "send" /\ Message.event = Garbage
    /\ queue' = unacked \o queue
    /\ unacked' = <<>> /\ step' = "idle"
    /\ UNCHANGED <<handlers, dead, stored, consuming, smtp, faults>>

\* The body does not decode: Nack without requeue.
Reject ==
    /\ step = "send" /\ Message.event = Garbage
    /\ DeadLetter

\* SendWelcomeEmail returned nil.
SendOk ==
    /\ step = "send" /\ Message.event # Garbage
    /\ mailed' = [mailed EXCEPT ![Message.event] = @ + 1]
    /\ step' = "ack"
    /\ UNCHANGED <<handlers, broker, consuming, failures, faults>>

\* SendWelcomeEmail returned an error; the mail may have left all the same.
SendFail ==
    /\ step = "send" /\ Message.event # Garbage
    /\ failures' = [failures EXCEPT ![Message.event] = @ + 1]
    /\ mailed' \in {mailed, [mailed EXCEPT ![Message.event] = @ + 1]}
    /\ step' = "retry"
    /\ UNCHANGED <<handlers, broker, consuming, faults>>

\* Mutant of GiveUp: the failure just seen is counted twice.
GiveUpEarly ==
    /\ step = "retry" /\ Attempt + 1 >= maxDeliveryAttempts
    /\ DeadLetter

\* The last attempt failed: Nack without requeue.
GiveUp ==
    /\ step = "retry" /\ Attempt >= maxDeliveryAttempts
    /\ DeadLetter

\* Mutants of Republish: the original is acknowledged whatever the publisher
\* says; the limit is off by one.
RepublishAndAck ==
    /\ step = "retry" /\ Attempt < maxDeliveryAttempts
    /\ \E outcome \in Outcomes :
         Publish([Message EXCEPT !.attempt = Attempt + 1], outcome)
    /\ step' = "ack"
    /\ UNCHANGED <<handlers, unacked, dead, consuming, smtp>>
RepublishPastLimit ==
    /\ step = "retry" /\ Attempt <= maxDeliveryAttempts
    /\ Publish([Message EXCEPT !.attempt = Attempt + 1], "confirmed")
    /\ step' = "ack"
    /\ UNCHANGED <<handlers, unacked, dead, consuming, smtp>>

\* Publish a copy with the next attempt; acknowledge the original only if told.
Republish ==
    /\ step = "retry" /\ Attempt < maxDeliveryAttempts
    /\ \E outcome \in Outcomes :
         /\ Publish([Message EXCEPT !.attempt = Attempt + 1], outcome)
         /\ step' = IF Told(outcome) THEN "ack" ELSE "requeue"
    /\ UNCHANGED <<handlers, unacked, dead, consuming, smtp>>

\* Nack with requeue: the broker still has the body with the old attempt.
Requeue ==
    /\ step = "requeue"
    /\ queue' = unacked \o queue
    /\ unacked' = <<>> /\ step' = "idle"
    /\ UNCHANGED <<handlers, dead, stored, consuming, smtp, faults>>

Ack ==
    /\ step = "ack"
    /\ unacked' = <<>> /\ step' = "idle"
    /\ UNCHANGED <<handlers, queue, dead, stored, consuming, smtp, faults>>

-----------------------------------------------------------------------------
(* Failures                                                                *)

\* The process dies, or main.go ends it because the connection closed, and the
\* container starts it again.  RabbitMQ puts back what was not acknowledged.
Crash ==
    /\ Fault
    /\ pc' = [r \in Requests |-> IF pc[r] = "idle" THEN "idle" ELSE "done"]
    /\ queue' = unacked \o queue
    /\ unacked' = <<>> /\ step' = "idle" /\ consuming' = TRUE
    /\ UNCHANGED <<email, answer, users, dead, stored, smtp>>

\* The consumer's channel closes: handleDeliveries returns and nobody calls
\* Start again before the process restarts.
LoseConsumer ==
    /\ ConsumerLoss /\ consuming
    /\ Fault
    /\ queue' = unacked \o queue
    /\ unacked' = <<>> /\ step' = "idle" /\ consuming' = FALSE
    /\ UNCHANGED <<handlers, dead, stored, smtp>>

-----------------------------------------------------------------------------
Handler(r)  == (\E e \in Emails : Find(r, e)) \/ Create(r) \/ PublishEvent(r)
Consumer    == \/ Deliver \/ Reject \/ SendOk \/ SendFail \/ GiveUp
               \/ Republish \/ Requeue \/ Ack

Next == \/ \E r \in Requests : Handler(r)
        \/ Consumer \/ Crash \/ LoseConsumer

\* The consumer is a goroutine that is always scheduled again, and publish has a
\* timer.  The mailer sets no deadline, so nothing says that SMTP ever answers.
Fairness == WF_vars(Deliver \/ Reject \/ GiveUp \/ Republish \/ Requeue \/ Ack)

Spec == Init /\ [][Next]_vars /\ Fairness

-----------------------------------------------------------------------------
(* Properties                                                              *)

InHand(e) == \E i \in 1..Len(unacked) : unacked[i].event = e
Queued(e) == \E i \in 1..Len(queue) : queue[i].event = e
Buried(e) == \E m \in dead : m.event = e

\* No event is ever lost that the broker took or whose request was answered 201:
\* until its mail is sent it is in the queue, in the consumer's hands or in the
\* dead letter queue, whatever crashes, failed republishes and acknowledgements
\* come in between.
NoEventLost ==
    \A e \in stored \cup {r \in Requests : answer[r] = 201} :
        mailed[e] > 0 \/ Queued(e) \/ InHand(e) \/ Buried(e)

\* Two requests for one email that pass FindByEmail together do not both
\* succeed, and no welcome mail goes to an email nobody registered.
OneAccountPerEmail ==
    /\ \A r, s \in users : email[r] = email[s] => r = s
    /\ \A r \in Requests : mailed[r] > 0 => r \in users

\* The attempt a message carries never overstates the failures behind it, so a
\* message is dead-lettered only after three of them, even with several copies
\* of one event in flight.
AttemptsWereFailures ==
    /\ \A i \in 1..Len(queue) : queue[i].event # Garbage =>
         failures[queue[i].event] + 1 >= queue[i].attempt
    /\ \A m \in dead : m.event # Garbage => failures[m.event] >= maxDeliveryAttempts

\* With a consumer that keeps its channel in the end and an SMTP server that
\* answers something, mail or error, every event the broker took is mailed or
\* dead-lettered, whatever failed before.
EveryEventSettles ==
    <>[]consuming /\ []<>(step # "send") =>
        \A r \in Requests : r \in stored ~> (mailed[r] > 0 \/ Buried(r))
=============================================================================
