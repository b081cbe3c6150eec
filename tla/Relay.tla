------------------------------- MODULE Relay -------------------------------
(***************************************************************************)
(* Relay and run() of services/bridge/validator.py: one thread that opens  *)
(* an MQTT client per attempt, subscribes to node01's raw topics, passes   *)
(* what it receives through the anti-replay gate and publishes it on the   *)
(* validated topics.  The broker, the network and the clock step between   *)
(* any two callbacks.                                                      *)
(***************************************************************************)
EXTENDS Integers, Sequences

CONSTANTS MaxSample,   \* node01's samples are 1 .. MaxSample, in gate order
          MaxQueue,    \* packets the broker may have sent and the relay not read
          MaxDelay,    \* the cap of the reconnect delay, 60 seconds
          Status,      \* the states node01 reports
          None

ASSUME RelayAssumption ==
    MaxSample \in Nat \ {0} /\ MaxQueue \in Nat \ {0} /\ MaxDelay \in Nat \ {0}

VARIABLES
    attempt,      \* run(): "backoff" before an attempt, "loop" during one
    delay,        \* run(): the wait before the next attempt
    relay,        \* the fields of Relay
    mark,         \* the gate's high-water mark, on disk (see SequenceGate)
    link,         \* the client's connection: "none", "connecting", "up", "lost"
    subscribed,   \* the broker has processed SUBSCRIBE
    inbox,        \* packets from the broker, unread
    wire,         \* publishes written to the socket, unread by the broker
    rawStatus,    \* the retained message of node01's status topic
    validStatus,  \* the retained message of the validated status topic
    validSamples, \* what subscribers of the validated telemetry topic have seen
    calm          \* from now on no fault, no new sample, no change of status

net == <<link, subscribed, inbox, wire>>
topics == <<rawStatus, validStatus, validSamples>>
vars == <<attempt, delay, relay, mark, net, topics, calm>>

Sample == 0 .. MaxSample      \* 0: a payload decode_telemetry refuses
Message == [kind : {"sample"}, n : Sample, retain : BOOLEAN]
               \cup [kind : {"status"}, state : Status]
Packet == Message \cup [kind : {"connack", "suback"}, ok : BOOLEAN]
               \cup [kind : {"puback"}]
Deadline == {"none", "armed", "past"}

\* _pending_info, and the other fields of Relay.
Pending == [msg : Message, written : BOOLEAN, done : BOOLEAN]
Fields == [connected : BOOLEAN, ready : BOOLEAN, failed : BOOLEAN,
           subscribing : BOOLEAN,              \* _subscribe_mid is set
           pendingStatus : Status \cup {None}, \* came before SUBACK
           info : Pending \cup {None}, hasPublished : BOOLEAN,
           readyDeadline : Deadline, sendDeadline : Deadline]

ASSUME NoneAssumption == None \notin Status /\ None \notin Pending

TypeOK ==
    /\ attempt \in {"backoff", "loop"} /\ delay \in 1 .. MaxDelay
    /\ relay \in Fields /\ mark \in Sample
    /\ link \in {"none", "connecting", "up", "lost"} /\ subscribed \in BOOLEAN
    /\ inbox \in Seq(Packet) /\ wire \in Seq(Message)
    /\ rawStatus \in Status /\ validStatus \in Status \cup {None}
    /\ validSamples \in Seq(Sample) /\ calm \in BOOLEAN

NewRelay == [connected |-> FALSE, ready |-> FALSE, failed |-> FALSE,
             subscribing |-> FALSE, pendingStatus |-> None, info |-> None,
             hasPublished |-> FALSE, readyDeadline |-> "none", sendDeadline |-> "none"]

Init ==
    /\ attempt = "backoff" /\ delay = 1 /\ relay = NewRelay /\ mark = 0
    /\ link = "none" /\ subscribed = FALSE /\ inbox = <<>> /\ wire = <<>>
    /\ rawStatus \in Status /\ validStatus = None /\ validSamples = <<>>
    /\ calm = FALSE
-----------------------------------------------------------------------------
(* Relay *)

\* abort_client: the socket is closed first.  What was written to it may still
\* reach the broker, nothing more is written.
AbortClient == link' = "none" /\ subscribed' = FALSE /\ inbox' = <<>> /\ UNCHANGED wire

\* _fail_subscription.
Fail ==
    /\ relay' = [NewRelay EXCEPT !.failed = TRUE, !.hasPublished = relay.hasPublished]
    /\ AbortClient

\* Bug: nobody looks at the clock while the handshake hangs.
BugNoCutoff == FALSE

\* check_ready would fail the attempt.
TooLate == ~relay.ready /\ relay.readyDeadline = "past"

\* Bug: only a publish past its budget counts, a second one replaces the first.
BugOverwritePending ==
    relay.info # None /\ ~relay.info.done /\ relay.sendDeadline = "past"

\* check_pending finds a publish that has not finished.
Unfinished == relay.info # None /\ ~relay.info.done

\* check_pending forgets a finished publish.
Reaped == IF Unfinished \/ relay.info = None THEN relay
          ELSE [relay EXCEPT !.info = None, !.sendDeadline = "none", !.hasPublished = TRUE]

\* The next packet of this attempt's client is of this kind.
Receive(kind) ==
    /\ attempt = "loop" /\ link = "up" /\ ~relay.failed
    /\ inbox # <<>> /\ Head(inbox).kind = kind
    /\ UNCHANGED <<attempt, delay, topics, calm>>

Consume == inbox' = Tail(inbox) /\ UNCHANGED <<link, subscribed, wire>>

\* client.publish, called with the fields at r: paho queues it, or it fails.
Publish(r, msg) ==
    \/ /\ relay' = [r EXCEPT !.sendDeadline = "armed",
                             !.info = [msg |-> msg, written |-> FALSE, done |-> FALSE]]
       /\ Consume
    \/ ~calm /\ Fail

Subscribing == [NewRelay EXCEPT !.connected = TRUE, !.subscribing = TRUE,
                                !.readyDeadline = relay.readyDeadline]

OnConnect ==
    /\ Receive("connack")
    /\ \/ (TooLate \/ ~Head(inbox).ok) /\ Fail
       \/ ~TooLate /\ Head(inbox).ok /\ relay' = Subscribing /\ Consume
    /\ UNCHANGED mark

\* Timely SUBACK ends the handshake; the status that came before it is replayed.
OnSubscribe ==
    /\ Receive("suback")
    /\ LET Ready == [relay EXCEPT !.ready = TRUE, !.subscribing = FALSE,
                                  !.pendingStatus = None, !.readyDeadline = "none"]
           accepted == ~TooLate /\ Head(inbox).ok /\ relay.subscribing
       IN  \/ ~accepted /\ Fail
           \/ accepted /\ relay.pendingStatus = None /\ relay' = Ready /\ Consume
           \/ /\ accepted /\ relay.pendingStatus # None
              /\ Publish(Ready, [kind |-> "status", state |-> relay.pendingStatus])
    /\ UNCHANGED mark

ReceiveMessage == Receive("status") \/ Receive("sample")

\* Bug: what comes before SUBACK is dropped, the retained status too.
BugDropSnapshot ==
    /\ ReceiveMessage /\ ~relay.ready
    /\ Consume
    /\ UNCHANGED <<relay, mark>>

\* on_message before SUBACK: the retained status is kept, all else is dropped.
OnEarlyMessage ==
    /\ ReceiveMessage /\ ~relay.ready
    /\ \/ TooLate /\ Fail
       \/ /\ ~TooLate
          /\ relay' = IF Head(inbox).kind = "status" /\ relay.subscribing
                      THEN [relay EXCEPT !.pendingStatus = Head(inbox).state]
                      ELSE relay
          /\ Consume
    /\ UNCHANGED mark

\* PUBLISH_BUSY, or PUBLISH_TIMEOUT: a message that arrives while a publish is
\* unfinished is dropped before it is decoded, and the attempt with it.
OnMessageBusy ==
    /\ ReceiveMessage /\ relay.ready /\ Unfinished
    /\ Fail
    /\ UNCHANGED mark

OnStatus ==
    /\ Receive("status") /\ relay.ready /\ ~Unfinished
    /\ Publish(Reaped, Head(inbox))
    /\ UNCHANGED mark

\* Retained telemetry and what the gate has a mark for are refused.
Fresh(sample) == ~sample.retain /\ sample.n > mark

\* Bug: an I/O error of the gate is taken for an acceptance.
BugIgnoreGateError ==
    /\ Receive("sample") /\ relay.ready /\ ~Unfinished
    /\ Fresh(Head(inbox))
    /\ mark' \in {mark, Head(inbox).n}
    /\ Publish(Reaped, Head(inbox))

\* accept() returns True: the mark is on disk before the sample is published.
OnFreshSample ==
    /\ Receive("sample") /\ relay.ready /\ ~Unfinished
    /\ Fresh(Head(inbox))
    /\ mark' = Head(inbox).n
    /\ Publish(Reaped, Head(inbox))

\* RETAINED_TELEMETRY, GATE_REJECT, or an I/O error of the gate, which may have
\* moved the mark already.
OnRefusedSample ==
    /\ Receive("sample") /\ relay.ready /\ ~Unfinished
    /\ \/ ~Fresh(Head(inbox)) /\ UNCHANGED mark
       \/ Fresh(Head(inbox)) /\ ~calm /\ mark' \in {mark, Head(inbox).n}
    /\ relay' = Reaped
    /\ Consume

\* PUBACK finishes a status, at QoS 1.
OnPuback ==
    /\ Receive("puback")
    /\ relay' = IF relay.info = None THEN relay ELSE [relay EXCEPT !.info.done = TRUE]
    /\ Consume
    /\ UNCHANGED mark

\* paho writes the queued publish; at QoS 0 it counts as published then.
WritePublish ==
    /\ attempt = "loop" /\ link = "up" /\ ~relay.failed
    /\ relay.info # None /\ ~relay.info.written
    /\ wire' = Append(wire, relay.info.msg)
    /\ relay' = [relay EXCEPT !.info.written = TRUE,
                              !.info.done = relay.info.msg.kind = "sample"]
    /\ UNCHANGED <<attempt, delay, mark, link, subscribed, inbox, topics, calm>>
-----------------------------------------------------------------------------
(* run() *)

\* make_client, attach, begin_handshake and connect.
Connect ==
    /\ attempt = "backoff"
    /\ attempt' = "loop"
    /\ relay' = [NewRelay EXCEPT !.readyDeadline = "armed"]
    /\ link' = "connecting"
    /\ UNCHANGED <<delay, mark, subscribed, inbox, wire, topics, calm>>

\* check_pending and check_ready around client.loop(); a session that is ready
\* and has published gets the shortest delay for the next attempt.
Checks ==
    /\ attempt = "loop" /\ ~relay.failed /\ link # "lost"
    /\ LET late == (Unfinished /\ relay.sendDeadline = "past") \/ TooLate
       IN  \/ late /\ Fail /\ UNCHANGED delay
           \/ /\ ~late /\ relay' = Reaped
              /\ delay' = IF relay.ready /\ Reaped.hasPublished THEN 1 ELSE delay
              /\ UNCHANGED net
    /\ UNCHANGED <<attempt, mark, topics, calm>>

EndWith(nextDelay) ==
    /\ attempt = "loop" /\ (relay.failed \/ link = "lost")
    /\ attempt' = "backoff"
    /\ relay' = [NewRelay EXCEPT !.failed = relay.failed]
    /\ AbortClient
    /\ delay' = nextDelay
    /\ UNCHANGED <<mark, topics, calm>>

\* The loop is left by a failure, by loop() # 0 (after on_disconnect) or by an
\* exception of connect(); finally clears the session and aborts the client.
EndAttempt == EndWith(IF delay * 2 <= MaxDelay THEN delay * 2 ELSE MaxDelay)

\* The validator is restarted: only the gate's mark survives.
Restart ==
    /\ ~calm
    /\ attempt' = "backoff" /\ delay' = 1 /\ relay' = NewRelay
    /\ AbortClient
    /\ UNCHANGED <<mark, topics, calm>>
-----------------------------------------------------------------------------
(* Broker, network and clock *)

\* A new CONNECT takes the client id over: the broker drops the old socket and
\* what it has not read from it.
BrokerConnack(ok) ==
    /\ link = "connecting" /\ (ok \/ ~calm)
    /\ link' = "up" /\ wire' = <<>>
    /\ inbox' = <<[kind |-> "connack", ok |-> ok]>>
    /\ UNCHANGED <<attempt, delay, relay, mark, subscribed, topics, calm>>

\* SUBACK and the retained status leave in either order.
BrokerSuback(ok) ==
    /\ link = "up" /\ relay.subscribing /\ ~subscribed /\ (ok \/ ~calm)
    /\ subscribed' = TRUE
    /\ LET suback == [kind |-> "suback", ok |-> ok]
           status == [kind |-> "status", state |-> rawStatus]
       IN  inbox' \in {inbox \o <<suback, status>>, inbox \o <<status, suback>>}
    /\ UNCHANGED <<attempt, delay, relay, mark, link, wire, topics, calm>>

\* The broker reads a publish, of this client's socket or of the last one's.
BrokerPublish ==
    /\ wire # <<>>
    /\ wire' = Tail(wire)
    /\ LET msg == Head(wire)
       IN  \/ /\ msg.kind = "sample"
              /\ validSamples' = Append(validSamples, msg.n)
              /\ UNCHANGED <<validStatus, inbox>>
           \/ /\ msg.kind = "status"
              /\ validStatus' = msg.state
              /\ inbox' = IF link = "up" THEN Append(inbox, [kind |-> "puback"]) ELSE inbox
              /\ UNCHANGED validSamples
    /\ UNCHANGED <<attempt, delay, relay, mark, link, subscribed, rawStatus, calm>>

\* A message on a raw topic reaches the subscription, if there is one.
Forward(msg) ==
    /\ ~calm /\ Len(inbox) < MaxQueue
    /\ inbox' = IF link = "up" /\ subscribed THEN Append(inbox, msg) ELSE inbox
    /\ UNCHANGED <<attempt, delay, relay, mark, link, subscribed, wire,
                   validStatus, validSamples, calm>>

\* node01 publishes, or somebody publishes an old sample again.
RawSample(n, retain) ==
    /\ Forward([kind |-> "sample", n |-> n, retain |-> retain])
    /\ UNCHANGED rawStatus

RawStatus(s) ==
    /\ s # rawStatus
    /\ rawStatus' = s
    /\ Forward([kind |-> "status", state |-> s])

\* The connection breaks, or connect() raises.
LoseLink ==
    /\ ~calm /\ link \in {"connecting", "up"}
    /\ link' = "lost" /\ subscribed' = FALSE /\ inbox' = <<>>
    /\ \E k \in 0 .. Len(wire) : wire' = SubSeq(wire, 1, k)
    /\ UNCHANGED <<attempt, delay, relay, mark, topics, calm>>

Pass(deadline) ==
    /\ ~calm /\ relay[deadline] = "armed"
    /\ relay' = [relay EXCEPT ![deadline] = "past"]
    /\ UNCHANGED <<attempt, delay, mark, net, topics, calm>>

\* The last fault is over.  Deadlines that are past stay past.
CalmDown ==
    /\ ~calm /\ calm' = TRUE
    /\ UNCHANGED <<attempt, delay, relay, mark, net, topics>>
-----------------------------------------------------------------------------
Worker ==
    \/ OnConnect \/ OnSubscribe \/ OnEarlyMessage \/ OnMessageBusy \/ OnStatus
    \/ OnFreshSample \/ OnRefusedSample \/ OnPuback
    \/ WritePublish \/ Connect \/ Checks \/ EndAttempt

Broker == (\E ok \in BOOLEAN : BrokerConnack(ok) \/ BrokerSuback(ok)) \/ BrokerPublish

Environment ==
    \/ \E n \in Sample, retain \in BOOLEAN : RawSample(n, retain)
    \/ \E s \in Status : RawStatus(s)
    \/ \E deadline \in {"readyDeadline", "sendDeadline"} : Pass(deadline)
    \/ Restart \/ LoseLink \/ CalmDown

Next == Worker \/ Broker \/ Environment

Spec == Init /\ [][Next]_vars

\* The loop never stops turning and the clock never stops; the broker may.
WorkerSpec == Spec /\ WF_vars(Worker) /\ WF_vars(Pass("readyDeadline"))

\* A broker that answers: only where a property asks for it.
BrokerAnswers == WF_vars(Broker)
-----------------------------------------------------------------------------
(* Properties *)

\* Through reconnects, restarts, replays and publishes of a dead connection that
\* arrive late, subscribers of the validated topic see every sample at most once
\* and in order, and never one the gate has not put its mark on.
SamplesInOrder ==
    \A j \in 1 .. Len(validSamples) :
        /\ validSamples[j] \in 1 .. mark
        /\ \A i \in 1 .. (j - 1) : validSamples[i] < validSamples[j]

\* Samples the gate spent and the broker has not read yet.
InTransit ==
    LET written == {wire[i] : i \in 1 .. Len(wire)}
        queued == IF relay.info # None /\ ~relay.info.written
                  THEN {relay.info.msg} ELSE {}
    IN  {m.n : m \in {m \in written \cup queued : m.kind = "sample"}}

\* A sample the gate has spent is lost with its connection or not at all: no
\* other message pushes it out of the single pending slot.
LostOnlyWithLink ==
    [][\A n \in InTransit :
          \/ n \in InTransit'
          \/ \E i \in 1 .. Len(validSamples') : validSamples'[i] = n
          \/ link' # link]_vars

\* Whatever the broker withholds, an attempt becomes ready or is given up.
AttemptsEnd ==
    (attempt = "loop" /\ ~relay.ready) ~> (relay.ready \/ attempt = "backoff" \/ calm)

\* When the faults end and the broker answers, the retained validated status comes
\* to be what node01 last reported and stays so, however much was lost or late.
StatusConverges == BrokerAnswers => (calm ~> [](validStatus = rawStatus))
=============================================================================
