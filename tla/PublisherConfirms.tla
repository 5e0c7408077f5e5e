-------------------------- MODULE PublisherConfirms --------------------------
(***************************************************************************)
(* queue.Client.publish: one AMQP channel in confirm mode, shared under a  *)
(* mutex by the registration handlers and by the consumer's retries.       *)
(*                                                                         *)
(* The client library numbers the messages of the channel 1, 2, 3, ... and *)
(* puts the broker's confirmations into the Go channel c.confirms in this  *)
(* order.  publish takes the next confirmation out of c.confirms, whatever *)
(* its number is, or gives up after five seconds.                          *)
(***************************************************************************)
EXTENDS Naturals, Sequences

CONSTANTS
    Publishers,  \* goroutines that call publish
    None,
    MaxCalls     \* bound on the calls of a behaviour

ASSUME CallsAreBounded == MaxCalls \in Nat
ASSUME NoneIsNoPublisher == None \notin Publishers

VARIABLES
    pc,        \* "idle", "lock", "publish" or "confirm"
    mutex,     \* the holder of pubMu, or None
    mine,      \* the number of the message a publisher sent last
    calls,     \* calls so far
    outcome,   \* the broker's answer to each message sent, by its number
    pushed,    \* confirmations the library put into c.confirms
    read,      \* confirmations publish took out of it
    open,      \* whether the AMQP channel is open
    timedOut,  \* history: publishes that gave up waiting
    verdict    \* history: what the caller of each message was told

callers == <<pc, mutex, mine, calls>>
channel == <<outcome, pushed, read, open>>
history == <<timedOut, verdict>>
vars    == <<callers, channel, history>>

published == Len(outcome)
Tags == 1..published
\* Mutant of confirmBuffer: make(chan amqp.Confirmation).
confirmUnbuffered == 0
confirmBuffer == 1   \* make(chan amqp.Confirmation, 1)

TypeOK ==
    /\ pc \in [Publishers -> {"idle", "lock", "publish", "confirm"}]
    /\ mutex \in Publishers \cup {None}
    /\ mine \in [Publishers -> Nat]
    /\ calls \in 0..MaxCalls
    /\ outcome \in Seq({"none", "ack", "nack"})
    /\ pushed \in Nat /\ read \in Nat
    /\ open \in BOOLEAN
    /\ timedOut \in Nat
    /\ verdict \in Seq({"none", "ok", "error"}) /\ Len(verdict) = published

Init ==
    /\ pc = [p \in Publishers |-> "idle"]
    /\ mutex = None
    /\ mine = [p \in Publishers |-> 0]
    /\ calls = 0 /\ pushed = 0 /\ read = 0
    /\ outcome = <<>> /\ verdict = <<>>
    /\ open = TRUE
    /\ timedOut = 0

-----------------------------------------------------------------------------
(* publish                                                                 *)

Call(p) ==
    /\ pc[p] = "idle" /\ calls < MaxCalls
    /\ calls' = calls + 1
    /\ pc' = [pc EXCEPT ![p] = "lock"]
    /\ UNCHANGED <<mutex, mine, channel, history>>

\* Mutant of Lock: publish is called without pubMu.
LockNothing(p) ==
    /\ pc[p] = "lock"
    /\ mutex' = p
    /\ pc' = [pc EXCEPT ![p] = "publish"]
    /\ UNCHANGED <<mine, calls, channel, history>>

Lock(p) ==
    /\ pc[p] = "lock" /\ mutex = None
    /\ mutex' = p
    /\ pc' = [pc EXCEPT ![p] = "publish"]
    /\ UNCHANGED <<mine, calls, channel, history>>

\* Mutant of Return: a return path without Unlock.
ReturnLocked(p) ==
    /\ mutex' = mutex
    /\ pc' = [pc EXCEPT ![p] = "idle"]

\* The deferred Unlock and the return.
Return(p) ==
    /\ mutex' = None
    /\ pc' = [pc EXCEPT ![p] = "idle"]

\* PublishWithContext on an open channel.
Send(p) ==
    /\ pc[p] = "publish" /\ open
    /\ outcome' = Append(outcome, "none") /\ verdict' = Append(verdict, "none")
    /\ mine' = [mine EXCEPT ![p] = published + 1]
    /\ pc' = [pc EXCEPT ![p] = "confirm"]
    /\ UNCHANGED <<mutex, calls, pushed, read, open, timedOut>>

SendFails(p) ==
    /\ pc[p] = "publish" /\ ~open
    /\ Return(p)
    /\ UNCHANGED <<mine, calls, channel, history>>

Tell(p, v) == verdict' = [verdict EXCEPT ![mine[p]] = v]

\* Mutants of Read: the Ack flag is not looked at; the flag itself is returned.
ReadAnything(p) ==
    /\ pc[p] = "confirm" /\ read < pushed
    /\ read' = read + 1
    /\ Tell(p, "ok")
    /\ Return(p)
    /\ UNCHANGED <<mine, calls, outcome, pushed, open, timedOut>>
ReadFlag(p) ==
    /\ pc[p] = "confirm" /\ read < pushed
    /\ read' = read + 1
    /\ Tell(p, outcome[read + 1])
    /\ Return(p)
    /\ UNCHANGED <<mine, calls, outcome, pushed, open, timedOut>>

\* A confirmation is in c.confirms: nil for an ack, an error for a nack.
Read(p) ==
    /\ pc[p] = "confirm" /\ read < pushed
    /\ read' = read + 1
    /\ Tell(p, IF outcome[read + 1] = "ack" THEN "ok" ELSE "error")
    /\ Return(p)
    /\ UNCHANGED <<mine, calls, outcome, pushed, open, timedOut>>

\* c.confirms is closed and empty.
ReadClosed(p) ==
    /\ pc[p] = "confirm" /\ ~open /\ read = pushed
    /\ Tell(p, "error")
    /\ Return(p)
    /\ UNCHANGED <<mine, calls, channel, timedOut>>

\* Five seconds are over, or the context of the caller ended.
Timeout(p) ==
    /\ pc[p] = "confirm"
    /\ timedOut' = timedOut + 1
    /\ Tell(p, "error")
    /\ Return(p)
    /\ UNCHANGED <<mine, calls, channel>>

-----------------------------------------------------------------------------
(* The broker and the client library                                       *)

\* The broker answers the messages in any order.
Answer(n, a) ==
    /\ outcome[n] = "none"
    /\ outcome' = [outcome EXCEPT ![n] = a]
    /\ UNCHANGED <<callers, pushed, read, open, history>>

\* The next confirmation in the order of the messages has come.
Ready == pushed < published /\ outcome[pushed + 1] # "none"

\* The library's reader puts it into c.confirms, and blocks while it is full.
Push ==
    /\ open /\ Ready
    /\ pushed < read + confirmBuffer
    /\ pushed' = pushed + 1
    /\ UNCHANGED <<callers, outcome, read, open, history>>

\* The broker or the network closes the channel.
Close ==
    /\ open
    /\ open' = FALSE
    /\ UNCHANGED <<callers, outcome, pushed, read, history>>

-----------------------------------------------------------------------------
Publisher(p) == \/ Call(p) \/ Lock(p) \/ Send(p) \/ SendFails(p)
                \/ Read(p) \/ ReadClosed(p) \/ Timeout(p)

Broker == \/ \E n \in Tags, a \in {"ack", "nack"} : Answer(n, a)
          \/ Push \/ Close

Next == (\E p \in Publishers : Publisher(p)) \/ Broker

\* A goroutine that holds the mutex is scheduled and its timer fires; a Go
\* mutex does not starve a waiter.  Nothing is assumed of the broker.
Fairness == \A p \in Publishers :
                /\ SF_vars(Lock(p))
                /\ WF_vars(Send(p) \/ SendFails(p))
                /\ WF_vars(Timeout(p))

Spec == Init /\ [][Next]_vars /\ Fairness

-----------------------------------------------------------------------------
(* Properties                                                              *)

\* The confirmation that a waiting publisher will read is the one of the
\* message "timedOut" places before its own: every publish that gave up leaves
\* its confirmation behind for the next one.
ConfirmsLagByTimeouts ==
    \A p \in Publishers : pc[p] = "confirm" => mine[p] = read + 1 + timedOut

\* A publish that returns nil speaks of an ack, of its own message or of one
\* that was published at most "timedOut" places before.
OkIsRecentAck ==
    \A n \in Tags : verdict[n] = "ok" =>
        \E m \in Tags : m <= n /\ n <= m + timedOut /\ outcome[m] = "ack"

\* As long as no publish gave up, nil means that the broker took this message.
TruthfulBeforeTimeout ==
    timedOut = 0 => \A n \in Tags : verdict[n] = "ok" => outcome[n] = "ack"

\* The library's reader, which serves the consumer's deliveries as well, is
\* blocked on c.confirms with no publisher to release it only after two
\* publishes gave up.
ReaderBlocksAfterTwo ==
    open /\ Ready /\ pushed = read + confirmBuffer
      /\ (\A p \in Publishers : pc[p] # "confirm") => timedOut >= 2

\* Every call of publish returns, even if the broker never answers.
EveryCallReturns ==
    \A p \in Publishers : pc[p] = "lock" ~> pc[p] = "idle"

\* README: "if the event could not be published, the API answers 500".  Nil
\* means that the broker took this message.
OkMeansTaken ==
    \A n \in Tags : verdict[n] = "ok" => outcome[n] = "ack"
=============================================================================
