----------------------------- MODULE RelayProofs -----------------------------
(***************************************************************************)
(* Proofs about Relay: for any number of samples, statuses, queued packets *)
(* and attempts, the validated samples keep their order, none of them      *)
(* twice, and none that the gate has spent is lost but with its connection.*)
(***************************************************************************)
EXTENDS Relay, TLAPS

USE RelayAssumption, NoneAssumption

-----------------------------------------------------------------------------
(* The inductive invariant *)

\* There is a socket while an attempt is under way and has not failed.
Linked == link # "none" <=> attempt = "loop" /\ ~relay.failed

\* The single slot is used by a session that is ready; what is done was written.
Slot ==
    /\ relay.ready => ~relay.subscribing
    /\ relay.info # None => /\ relay.ready /\ link \in {"up", "lost"}
                            /\ relay.info.done => relay.info.written

\* CONNACK is the first packet of a connection, and nothing is published before.
Front ==
    /\ link = "connecting" => relay.info = None
    /\ \A i \in 1 .. Len(inbox) : inbox[i].kind = "connack" => i = 1 /\ relay.info = None

\* A status was written and its PUBACK has not been read.
Awaiting == /\ relay.info # None /\ relay.info.written /\ ~relay.info.done
            /\ relay.info.msg.kind = "status"

Ack(i) == i \in 1 .. Len(inbox) /\ inbox[i].kind = "puback"
StatusAt(i) == i \in 1 .. Len(wire) /\ wire[i].kind = "status"

\* One status at a time: on its way to the broker, or its PUBACK on the way back.
OneAck == link = "up" =>
    /\ \A i \in Nat : Ack(i) \/ StatusAt(i) => Awaiting
    /\ \A i, j \in Nat : /\ Ack(i) /\ Ack(j) => i = j
                         /\ StatusAt(i) /\ StatusAt(j) => i = j
                         /\ ~(Ack(i) /\ StatusAt(j))

\* A sample the gate spent that is to be written.
Queued == relay.info # None /\ ~relay.info.written /\ relay.info.msg.kind = "sample"

\* n is covered by the mark and later than what the subscribers have seen.
Later(n) == /\ n \in 1 .. mark
            /\ \A i \in 1 .. Len(validSamples) : validSamples[i] < n

SampleAt(i) == i \in 1 .. Len(wire) /\ wire[i].kind = "sample"

\* What was seen, what was written and what is queued is one increasing sequence.
Order ==
    /\ SamplesInOrder
    /\ \A i \in Nat : SampleAt(i) => Later(wire[i].n)
    /\ \A i, j \in Nat : SampleAt(i) /\ SampleAt(j) /\ i < j => wire[i].n < wire[j].n
    /\ Queued => /\ Later(relay.info.msg.n)
                 /\ \A i \in Nat : SampleAt(i) => wire[i].n < relay.info.msg.n

IInv == TypeOK /\ Linked /\ Slot /\ Front /\ OneAck /\ Order
-----------------------------------------------------------------------------
(* Types *)

LEMMA FieldTypes ==
    ASSUME TypeOK
    PROVE  /\ relay.connected \in BOOLEAN /\ relay.ready \in BOOLEAN
           /\ relay.failed \in BOOLEAN /\ relay.subscribing \in BOOLEAN
           /\ relay.pendingStatus \in Status \cup {None}
           /\ relay.info \in Pending \cup {None} /\ relay.hasPublished \in BOOLEAN
           /\ relay.readyDeadline \in Deadline /\ relay.sendDeadline \in Deadline
  BY DEF TypeOK, Fields

LEMMA Packets ==
    /\ \A m \in Message : m.kind \in {"sample", "status"}
    /\ \A m \in Message : m.kind = "sample" => m.n \in Sample
    /\ \A m \in Message : m.kind = "status" => m.state \in Status
    /\ \A p \in Packet : p.kind \in {"sample", "status"} => p \in Message
    /\ \A n \in Sample, r \in BOOLEAN : [kind |-> "sample", n |-> n, retain |-> r] \in Message
    /\ \A s \in Status : [kind |-> "status", state |-> s] \in Message
    /\ \A ok \in BOOLEAN : /\ [kind |-> "connack", ok |-> ok] \in Packet
                           /\ [kind |-> "suback", ok |-> ok] \in Packet
    /\ [kind |-> "puback"] \in Packet
  BY DEF Message, Packet

LEMMA NewFields ==
    /\ NewRelay \in Fields
    /\ \A b, c \in BOOLEAN : [NewRelay EXCEPT !.failed = b, !.hasPublished = c] \in Fields
    /\ \A b \in BOOLEAN : [NewRelay EXCEPT !.failed = b] \in Fields
    /\ \A d \in Deadline : /\ [NewRelay EXCEPT !.readyDeadline = d] \in Fields
                           /\ [NewRelay EXCEPT !.connected = TRUE, !.subscribing = TRUE,
                                               !.readyDeadline = d] \in Fields
  BY DEF NewRelay, Fields, Deadline

LEMMA FailFacts ==
    ASSUME TypeOK, Fail
    PROVE  /\ relay' \in Fields /\ relay'.info = None /\ relay'.failed = TRUE
           /\ relay'.ready = FALSE
           /\ link' = "none" /\ subscribed' = FALSE /\ inbox' = <<>> /\ wire' = wire
  BY FieldTypes, NewFields DEF Fail, AbortClient, NewRelay

LEMMA ReapedFacts ==
    ASSUME TypeOK
    PROVE  /\ Reaped \in Fields
           /\ Reaped.info = IF Unfinished THEN relay.info ELSE None
           /\ Reaped.ready = relay.ready /\ Reaped.failed = relay.failed
           /\ Reaped.subscribing = relay.subscribing
  BY FieldTypes DEF Reaped, Unfinished, TypeOK, Fields, Deadline

LEMMA PublishFacts ==
    ASSUME TypeOK, NEW r \in Fields, NEW msg \in Message, Publish(r, msg), ~Fail
    PROVE  /\ relay' \in Fields /\ Consume
           /\ relay'.info = [msg |-> msg, written |-> FALSE, done |-> FALSE]
           /\ relay'.ready = r.ready /\ relay'.failed = r.failed
           /\ relay'.subscribing = r.subscribing
<1> DEFINE i == [msg |-> msg, written |-> FALSE, done |-> FALSE]
<1>1. i \in Pending
  BY DEF Pending
<1>2. relay' = [r EXCEPT !.sendDeadline = "armed", !.info = i] /\ Consume
  BY DEF Publish
<1> HIDE DEF i
<1>3. relay' \in Fields /\ relay'.info = i /\ relay'.ready = r.ready
      /\ relay'.failed = r.failed /\ relay'.subscribing = r.subscribing
  BY <1>1, <1>2 DEF Fields, Deadline
<1> QED
  BY <1>2, <1>3 DEF i

\* Sequences: what Tail and Append do, element by element.
LEMMA TailFacts ==
    ASSUME NEW S, NEW s \in Seq(S), s # <<>>
    PROVE  /\ Head(s) \in S /\ Head(s) = s[1] /\ 1 \in 1 .. Len(s)
           /\ Tail(s) \in Seq(S) /\ Len(Tail(s)) = Len(s) - 1
           /\ \A i \in 1 .. Len(s) - 1 : Tail(s)[i] = s[i + 1]
  OBVIOUS

LEMMA AppendFacts ==
    ASSUME NEW S, NEW s \in Seq(S), NEW x \in S
    PROVE  /\ Append(s, x) \in Seq(S) /\ Len(Append(s, x)) = Len(s) + 1
           /\ \A i \in 1 .. Len(s) : Append(s, x)[i] = s[i]
           /\ Append(s, x)[Len(s) + 1] = x
  OBVIOUS

-----------------------------------------------------------------------------
(* What the steps do *)

Unseen == /\ UNCHANGED validSamples /\ mark' >= mark /\ mark' \in Sample
          /\ relay' \in Fields /\ (relay'.ready => ~relay'.subscribing)

\* The client is gone, and what it had not written with it.
Aborts ==
    /\ relay'.info = None /\ link' = "none" /\ inbox' = <<>> /\ UNCHANGED wire
    /\ Unseen /\ attempt' \in {attempt, "backoff"}
    /\ attempt' = "backoff" \/ relay'.failed

\* A callback has handled the first packet and the attempt goes on.
Reads ==
    /\ link = "up" /\ inbox # <<>> /\ Consume /\ Unseen
    /\ attempt = "loop" /\ attempt' = attempt /\ ~relay.failed /\ ~relay'.failed

\* The slot is left alone, or forgets what has finished.
Keeps ==
    \/ relay'.info = None /\ ~Unfinished
    \/ relay'.info = relay.info /\ relay'.ready = relay.ready

\* msg is queued in a slot that was free; a sample has its mark already.
Queues(msg) ==
    /\ ~Unfinished /\ relay'.info = [msg |-> msg, written |-> FALSE, done |-> FALSE]
    /\ relay'.ready /\ (msg.kind = "sample" => mark < msg.n /\ mark' = msg.n)

\* A PUBACK was read.
Finishes ==
    /\ relay.info # None /\ Head(inbox).kind = "puback"
    /\ relay'.info.done /\ relay'.info # None
    /\ relay'.info.written = relay.info.written /\ relay'.info.msg = relay.info.msg
    /\ relay'.ready = relay.ready

LEMMA FailAborts ==
    ASSUME TypeOK, Fail, UNCHANGED <<attempt, validSamples>>, mark' \in Sample, mark' >= mark
    PROVE  Aborts
  BY FailFacts DEF Aborts, Unseen

LEMMA MarkType == TypeOK => mark \in Sample /\ mark >= mark
  BY DEF TypeOK, Sample

LEMMA ReceiveFacts ==
    ASSUME TypeOK, NEW kind, Receive(kind)
    PROVE  /\ link = "up" /\ inbox # <<>> /\ attempt = "loop" /\ attempt' = attempt
           /\ relay.failed = FALSE /\ UNCHANGED validSamples
           /\ Head(inbox) \in Packet /\ Head(inbox).kind = kind
           /\ Head(inbox) = inbox[1] /\ 1 \in 1 .. Len(inbox)
           /\ kind \in {"sample", "status"} => Head(inbox) \in Message
           /\ mark \in Sample /\ mark >= mark
  BY FieldTypes, Packets, MarkType, TailFacts DEF TypeOK, Receive, topics

LEMMA OnConnectEffect ==
    ASSUME TypeOK, Front, OnConnect
    PROVE  Aborts \/ (Reads /\ Keeps)
<1>1. Receive("connack") /\ UNCHANGED mark
  BY DEF OnConnect
<1>2. CASE Fail
  BY <1>1, <1>2, FailAborts, ReceiveFacts
<1>3. CASE relay' = Subscribing /\ Consume
  <2>1. relay.info = None
    BY <1>1, ReceiveFacts DEF Front
  <2>2. /\ Subscribing \in Fields /\ Subscribing.info = None /\ Subscribing.failed = FALSE
        /\ Subscribing.ready = FALSE
    BY FieldTypes, NewFields DEF Subscribing, NewRelay
  <2> QED
    BY <1>1, <1>3, <2>1, <2>2, ReceiveFacts DEF Reads, Keeps, Unseen, Unfinished
<1> QED
  BY <1>2, <1>3 DEF OnConnect

LEMMA ReadyFields ==
    ASSUME TypeOK
    PROVE  LET r == [relay EXCEPT !.ready = TRUE, !.subscribing = FALSE,
                                  !.pendingStatus = None, !.readyDeadline = "none"]
           IN  /\ r \in Fields /\ r.info = relay.info /\ r.ready = TRUE
               /\ r.subscribing = FALSE /\ r.failed = relay.failed
  BY DEF TypeOK, Fields, Deadline

LEMMA OnSubscribeEffect ==
    ASSUME TypeOK, Slot, OnSubscribe
    PROVE  Aborts \/ (Reads /\ (Keeps \/ \E msg \in Message : Queues(msg)))
<1> DEFINE r == [relay EXCEPT !.ready = TRUE, !.subscribing = FALSE,
                              !.pendingStatus = None, !.readyDeadline = "none"]
           msg == [kind |-> "status", state |-> relay.pendingStatus]
<1>1. Receive("suback") /\ UNCHANGED mark
  BY DEF OnSubscribe
<1>2. \/ Fail
      \/ relay.subscribing /\ relay' = r /\ Consume
      \/ relay.subscribing /\ relay.pendingStatus # None /\ Publish(r, msg)
  BY DEF OnSubscribe
<1>3. /\ r \in Fields /\ r.info = relay.info /\ r.ready = TRUE
      /\ r.subscribing = FALSE /\ r.failed = relay.failed
  BY ReadyFields
<1> HIDE DEF r
<1>4. CASE Fail
  BY <1>1, <1>4, FailAborts, ReceiveFacts
<1>5. CASE relay.subscribing /\ relay' = r /\ Consume
  BY <1>1, <1>3, <1>5, ReceiveFacts DEF Slot, Reads, Keeps, Unseen, Unfinished
<1>6. CASE relay.subscribing /\ relay.pendingStatus # None /\ Publish(r, msg) /\ ~Fail
  <2>1. msg \in Message /\ msg.kind = "status"
    BY <1>6, FieldTypes, Packets
  <2>2. relay.info = None
    BY <1>6 DEF Slot
  <2> HIDE DEF msg
  <2> QED
    BY <1>1, <1>3, <1>6, <2>1, <2>2, PublishFacts, ReceiveFacts
    DEF Reads, Queues, Unseen, Unfinished
<1> QED
  BY <1>2, <1>4, <1>5, <1>6

LEMMA MessageKind ==
    ASSUME TypeOK, ReceiveMessage
    PROVE  \E kind \in {"status", "sample"} : Receive(kind)
  BY DEF ReceiveMessage

LEMMA OnEarlyMessageEffect ==
    ASSUME TypeOK, Slot, OnEarlyMessage
    PROVE  Aborts \/ (Reads /\ Keeps)
<1>1. PICK kind \in {"status", "sample"} : Receive(kind)
  BY MessageKind DEF OnEarlyMessage
<1>2. CASE Fail
  BY <1>1, <1>2, FailAborts, ReceiveFacts DEF OnEarlyMessage
<1>3. CASE /\ relay' = IF Head(inbox).kind = "status" /\ relay.subscribing
                       THEN [relay EXCEPT !.pendingStatus = Head(inbox).state]
                       ELSE relay
           /\ Consume
  <2>1. Head(inbox).kind = "status" => Head(inbox).state \in Status
    BY <1>1, ReceiveFacts, Packets
  <2>2. /\ relay' \in Fields /\ relay'.info = relay.info /\ relay'.failed = relay.failed
        /\ relay'.ready = relay.ready /\ relay'.subscribing = relay.subscribing
    BY <1>3, <2>1 DEF TypeOK, Fields
  <2> QED
    BY <1>1, <1>3, <2>2, ReceiveFacts DEF OnEarlyMessage, Slot, Reads, Keeps, Unseen
<1> QED
  BY <1>2, <1>3 DEF OnEarlyMessage

LEMMA OnMessageBusyEffect ==
    ASSUME TypeOK, OnMessageBusy
    PROVE  Aborts
  BY MessageKind, FailAborts, ReceiveFacts DEF OnMessageBusy

LEMMA PublishEffect ==
    ASSUME TypeOK, Slot, NEW kind, Receive(kind), relay.ready, ~Unfinished,
           NEW msg \in Message, Publish(Reaped, msg),
           mark' \in Sample, mark' >= mark, ~relay.subscribing,
           msg.kind = "sample" => mark < msg.n /\ mark' = msg.n
    PROVE  Aborts \/ (Reads /\ Queues(msg))
<1>1. CASE Fail
  BY <1>1, FailAborts, ReceiveFacts
<1>2. CASE ~Fail
  BY <1>2, ReceiveFacts, ReapedFacts, PublishFacts DEF Reads, Queues, Unseen
<1> QED
  BY <1>1, <1>2

LEMMA OnStatusEffect ==
    ASSUME TypeOK, Slot, OnStatus
    PROVE  Aborts \/ (Reads /\ \E msg \in Message : Queues(msg))
<1>1. /\ Receive("status") /\ relay.ready /\ ~Unfinished /\ Publish(Reaped, Head(inbox))
      /\ UNCHANGED mark
  BY DEF OnStatus
<1>2. Head(inbox) \in Message /\ Head(inbox).kind = "status"
  BY <1>1, ReceiveFacts
<1> QED
  BY <1>1, <1>2, MarkType, PublishEffect DEF Slot

LEMMA OnFreshSampleEffect ==
    ASSUME TypeOK, Slot, OnFreshSample
    PROVE  Aborts \/ (Reads /\ \E msg \in Message : Queues(msg))
<1>1. /\ Receive("sample") /\ relay.ready /\ ~Unfinished /\ Publish(Reaped, Head(inbox))
      /\ mark' = Head(inbox).n /\ Head(inbox).n > mark
  BY DEF OnFreshSample, Fresh
<1>2. Head(inbox) \in Message /\ Head(inbox).kind = "sample"
  BY <1>1, ReceiveFacts
<1>3. mark' \in Sample /\ mark < Head(inbox).n /\ mark' >= mark
  BY <1>1, <1>2, MarkType, Packets DEF Sample
<1> QED
  BY <1>1, <1>2, <1>3, PublishEffect DEF Slot

LEMMA OnRefusedSampleEffect ==
    ASSUME TypeOK, Slot, OnRefusedSample
    PROVE  Reads /\ Keeps
<1>1. Receive("sample") /\ ~Unfinished /\ relay' = Reaped /\ Consume
  BY DEF OnRefusedSample
<1>2. Head(inbox).n \in Sample
  BY <1>1, ReceiveFacts, Packets
<1>3. mark' \in Sample /\ mark' >= mark
  BY <1>2, MarkType DEF OnRefusedSample, Fresh, Sample
<1> QED
  BY <1>1, <1>3, ReceiveFacts, ReapedFacts DEF Slot, Reads, Keeps, Unseen

LEMMA OnPubackEffect ==
    ASSUME TypeOK, Slot, OnPuback
    PROVE  Reads /\ (Keeps \/ Finishes)
<1>1. Receive("puback") /\ Consume /\ UNCHANGED mark
  BY DEF OnPuback
<1>2. CASE relay.info = None /\ relay' = relay
  BY <1>1, <1>2, ReceiveFacts DEF Slot, Reads, Keeps, Unseen, TypeOK
<1>3. CASE relay.info # None /\ relay' = [relay EXCEPT !.info.done = TRUE]
  <2> DEFINE i == [relay.info EXCEPT !.done = TRUE]
  <2>1. i \in Pending /\ i.done = TRUE /\ i.written = relay.info.written
        /\ i.msg = relay.info.msg /\ i # None
    BY <1>3, FieldTypes DEF Pending
  <2>2. relay' = [relay EXCEPT !.info = i]
    BY <1>3 DEF TypeOK, Fields
  <2> HIDE DEF i
  <2>3. relay' \in Fields /\ relay'.info = i /\ relay'.ready = relay.ready
        /\ relay'.failed = relay.failed /\ relay'.subscribing = relay.subscribing
    BY <2>1, <2>2 DEF TypeOK, Fields
  <2> QED
    BY <1>1, <1>3, <2>1, <2>3, ReceiveFacts DEF Slot, Reads, Finishes, Unseen
<1> QED
  BY <1>2, <1>3 DEF OnPuback

\* The queued publish is written.
Writes ==
    /\ attempt = "loop" /\ link = "up" /\ ~relay.failed
    /\ relay.info # None /\ ~relay.info.written /\ wire' = Append(wire, relay.info.msg)
    /\ relay'.info # None /\ relay'.info.msg = relay.info.msg /\ relay'.info.written
    /\ (relay'.info.done <=> relay.info.msg.kind = "sample")
    /\ relay'.ready = relay.ready /\ relay'.failed = relay.failed
    /\ Unseen /\ UNCHANGED <<attempt, link, inbox>>

LEMMA WritePublishEffect ==
    ASSUME TypeOK, Slot, WritePublish
    PROVE  Writes
<1> DEFINE d == relay.info.msg.kind = "sample"
           i == [relay.info EXCEPT !.written = TRUE, !.done = d]
<1>1. relay.info \in Pending /\ ~relay.info.written
  BY FieldTypes DEF WritePublish
<1>2. /\ i \in Pending /\ i # None /\ i.written = TRUE /\ i.msg = relay.info.msg
  <2>1. CASE d = TRUE
    BY <1>1, <2>1 DEF Pending
  <2>2. CASE d = FALSE
    BY <1>1, <2>2 DEF Pending
  <2> QED
    BY <2>1, <2>2
<1>3. i.done <=> d
  BY <1>1 DEF Pending
<1>4. relay' = [relay EXCEPT !.info = i]
  BY DEF WritePublish, TypeOK, Fields
<1> HIDE DEF i
<1>5. /\ relay' \in Fields /\ relay'.info = i /\ relay'.ready = relay.ready
      /\ relay'.failed = relay.failed /\ relay'.subscribing = relay.subscribing
  BY <1>2, <1>4 DEF TypeOK, Fields
<1> QED
  BY <1>2, <1>3, <1>5, MarkType DEF WritePublish, Writes, Unseen, Slot, topics

\* The attempt begins.
Starts ==
    /\ attempt = "backoff" /\ attempt' = "loop" /\ link' = "connecting"
    /\ relay'.info = None /\ ~relay'.failed /\ Unseen /\ UNCHANGED <<inbox, wire>>

LEMMA ConnectEffect ==
    ASSUME TypeOK, Connect
    PROVE  Starts
<1>1. /\ relay' \in Fields /\ relay'.info = None /\ relay'.failed = FALSE
      /\ relay'.ready = FALSE
  BY NewFields DEF Connect, NewRelay, Deadline
<1> QED
  BY <1>1, MarkType DEF Connect, Starts, Unseen, topics

\* Nothing happens to what was queued and written, but packets may come in.
Idles ==
    /\ Keeps /\ Unseen /\ UNCHANGED <<attempt, link, wire>> /\ relay'.failed = relay.failed
    /\ inbox' \in Seq(Packet) /\ Len(inbox') >= Len(inbox)
    /\ \A i \in 1 .. Len(inbox') : IF i <= Len(inbox) THEN inbox'[i] = inbox[i]
                                   ELSE inbox'[i].kind \notin {"puback", "connack"}

LEMMA InboxSame == TypeOK /\ UNCHANGED inbox =>
    /\ inbox' \in Seq(Packet) /\ Len(inbox') >= Len(inbox)
    /\ \A i \in 1 .. Len(inbox') : IF i <= Len(inbox) THEN inbox'[i] = inbox[i]
                                   ELSE inbox'[i].kind \notin {"puback", "connack"}
  BY DEF TypeOK

LEMMA ChecksEffect ==
    ASSUME TypeOK, Slot, Checks
    PROVE  Aborts \/ Idles
<1>1. CASE Fail
  BY <1>1, FailAborts, MarkType DEF Checks, topics
<1>2. CASE relay' = Reaped /\ UNCHANGED net
  BY <1>2, ReapedFacts, InboxSame, MarkType
  DEF Checks, Idles, Keeps, Unseen, Slot, net, topics
<1> QED
  BY <1>1, <1>2 DEF Checks

LEMMA EndAttemptEffect ==
    ASSUME TypeOK, NEW d, EndWith(d)
    PROVE  Aborts
<1>1. /\ relay' \in Fields /\ relay'.info = None /\ relay'.ready = FALSE
  BY FieldTypes, NewFields DEF EndWith, NewRelay
<1> QED
  BY <1>1, MarkType DEF EndWith, AbortClient, Aborts, Unseen, topics

LEMMA RestartEffect ==
    ASSUME TypeOK, Restart
    PROVE  Aborts
<1>1. /\ relay' \in Fields /\ relay'.info = None /\ relay'.ready = FALSE
  BY NewFields DEF Restart, NewRelay
<1> QED
  BY <1>1, MarkType DEF Restart, AbortClient, Aborts, Unseen, topics

LEMMA IdleRelay ==
    ASSUME TypeOK, Slot, UNCHANGED <<relay, mark, attempt, link, wire, validSamples>>
    PROVE  Keeps /\ Unseen /\ UNCHANGED <<attempt, link, wire>> /\ relay'.failed = relay.failed
  BY MarkType DEF Keeps, Unseen, Slot, TypeOK

LEMMA BrokerSubackEffect ==
    ASSUME TypeOK, Slot, NEW ok \in BOOLEAN, BrokerSuback(ok)
    PROVE  Idles
<1> DEFINE suback == [kind |-> "suback", ok |-> ok]
           status == [kind |-> "status", state |-> rawStatus]
<1>1. suback \in Packet /\ status \in Packet /\ suback.kind = "suback"
      /\ status.kind = "status"
  BY Packets DEF TypeOK, Packet
<1>2. \/ inbox' = inbox \o <<suback, status>>
      \/ inbox' = inbox \o <<status, suback>>
  BY DEF BrokerSuback
<1> HIDE DEF suback, status
<1>3. PICK a \in {suback, status}, b \in {suback, status} : inbox' = inbox \o <<a, b>>
  BY <1>2
<1>4. /\ inbox' \in Seq(Packet) /\ Len(inbox') = Len(inbox) + 2
      /\ \A i \in 1 .. Len(inbox) : inbox'[i] = inbox[i]
      /\ inbox'[Len(inbox) + 1] = a /\ inbox'[Len(inbox) + 2] = b
  BY <1>1, <1>3 DEF TypeOK
<1>5. \A i \in 1 .. Len(inbox') : IF i <= Len(inbox) THEN inbox'[i] = inbox[i]
                                  ELSE inbox'[i] \in {a, b}
  BY <1>4 DEF TypeOK
<1>6. a.kind \notin {"puback", "connack"} /\ b.kind \notin {"puback", "connack"}
  BY <1>1
<1> QED
  BY <1>4, <1>5, <1>6, IdleRelay DEF BrokerSuback, Idles, topics, TypeOK

LEMMA ForwardEffect ==
    ASSUME TypeOK, Slot, NEW msg \in Message, Forward(msg)
    PROVE  Idles
<1>1. UNCHANGED <<relay, mark, attempt, link, wire, validSamples>>
  BY DEF Forward
<1>2. msg \in Packet /\ msg.kind \notin {"puback", "connack"}
  BY Packets DEF Packet
<1>3. CASE UNCHANGED inbox
  BY <1>1, <1>3, IdleRelay, InboxSame DEF Idles
<1>4. CASE inbox' = Append(inbox, msg)
  <2>1. /\ inbox' \in Seq(Packet) /\ Len(inbox') = Len(inbox) + 1
        /\ \A i \in 1 .. Len(inbox) : inbox'[i] = inbox[i]
        /\ inbox'[Len(inbox) + 1] = msg
    BY <1>2, <1>4, AppendFacts DEF TypeOK
  <2>2. \A i \in 1 .. Len(inbox') : IF i <= Len(inbox) THEN inbox'[i] = inbox[i]
                                    ELSE inbox'[i] = msg
    BY <2>1 DEF TypeOK
  <2> QED
    BY <1>1, <1>2, <2>1, <2>2, IdleRelay DEF Idles, TypeOK
<1> QED
  BY <1>3, <1>4 DEF Forward

LEMMA PassEffect ==
    ASSUME TypeOK, Slot, NEW deadline \in {"readyDeadline", "sendDeadline"}, Pass(deadline)
    PROVE  Idles
<1>1. UNCHANGED <<mark, attempt, net, topics>>
  BY DEF Pass
<1>2. \/ relay' = [relay EXCEPT !.readyDeadline = "past"]
      \/ relay' = [relay EXCEPT !.sendDeadline = "past"]
  BY DEF Pass
<1>3. /\ relay' \in Fields /\ relay'.info = relay.info /\ relay'.failed = relay.failed
      /\ relay'.ready = relay.ready /\ relay'.subscribing = relay.subscribing
  BY <1>2 DEF TypeOK, Fields, Deadline
<1> QED
  BY <1>1, <1>3, InboxSame, MarkType DEF Idles, Keeps, Unseen, Slot, net, topics

LEMMA CalmDownEffect ==
    ASSUME TypeOK, Slot, CalmDown
    PROVE  Idles
  BY IdleRelay, InboxSame DEF CalmDown, Idles, net, topics

\* Every step is of one of these kinds.
LEMMA Kinds ==
    ASSUME IInv, [Next]_vars
    PROVE  \/ Aborts
           \/ Reads /\ (Keeps \/ Finishes \/ \E msg \in Message : Queues(msg))
           \/ Writes \/ Starts \/ Idles
           \/ (\E ok \in BOOLEAN : BrokerConnack(ok)) \/ BrokerPublish \/ LoseLink
<1> USE DEF IInv
<1>1. CASE Worker
  BY <1>1, OnConnectEffect, OnSubscribeEffect, OnEarlyMessageEffect, OnMessageBusyEffect,
     OnStatusEffect, OnFreshSampleEffect, OnRefusedSampleEffect, OnPubackEffect,
     WritePublishEffect, ConnectEffect, ChecksEffect, EndAttemptEffect
  DEF Worker, EndAttempt
<1>2. CASE Broker
  BY <1>2, BrokerSubackEffect DEF Broker
<1>3. CASE Environment
  <2>1. ASSUME NEW n \in Sample, NEW retain \in BOOLEAN, RawSample(n, retain)
        PROVE  Idles
    BY <2>1, Packets, ForwardEffect DEF RawSample
  <2>2. ASSUME NEW s \in Status, RawStatus(s)
        PROVE  Idles
    BY <2>2, Packets, ForwardEffect DEF RawStatus
  <2> QED
    BY <1>3, <2>1, <2>2, PassEffect, RestartEffect, CalmDownEffect DEF Environment
<1>4. CASE UNCHANGED vars
  BY <1>4, IdleRelay, InboxSame DEF vars, net, topics, Idles
<1> QED
  BY <1>1, <1>2, <1>3, <1>4 DEF Next

-----------------------------------------------------------------------------
(* The invariant is kept *)

\* The types of what no lemma above speaks of.
LEMMA DelayKept ==
    ASSUME TypeOK, Next
    PROVE  delay' \in 1 .. MaxDelay
<1>1. delay \in 1 .. MaxDelay /\ MaxDelay \in Nat \ {0}
  BY DEF TypeOK
<1>2. CASE UNCHANGED delay
  BY <1>1, <1>2
<1>3. CASE delay' = 1
  BY <1>1, <1>3
<1>4. CASE delay' = IF delay * 2 <= MaxDelay THEN delay * 2 ELSE MaxDelay
  BY <1>1, <1>4
<1> HIDE DEF TypeOK
<1>5. Worker => UNCHANGED delay \/ delay' = 1
                \/ delay' = IF delay * 2 <= MaxDelay THEN delay * 2 ELSE MaxDelay
  BY DEF Worker, OnConnect, OnSubscribe, OnEarlyMessage, OnMessageBusy, OnStatus,
         OnFreshSample, OnRefusedSample, OnPuback, ReceiveMessage, Receive, WritePublish,
         Connect, Checks, EndAttempt, EndWith
<1>6. Broker \/ Environment => UNCHANGED delay \/ delay' = 1
  BY DEF Broker, BrokerConnack, BrokerSuback, BrokerPublish, Environment, RawSample,
         RawStatus, Forward, Pass, Restart, LoseLink, CalmDown
<1> QED
  BY <1>2, <1>3, <1>4, <1>5, <1>6 DEF Next

LEMMA TopicsKept ==
    ASSUME TypeOK, Next
    PROVE  rawStatus' \in Status /\ validStatus' \in Status \cup {None} /\ calm' \in BOOLEAN
           /\ subscribed' \in BOOLEAN
<1> USE DEF TypeOK
<1>1. CASE Worker
  <2>1. UNCHANGED <<topics, calm>>
    BY <1>1
    DEF Worker, OnConnect, OnSubscribe, OnEarlyMessage, OnMessageBusy, OnStatus,
        OnFreshSample, OnRefusedSample, OnPuback, ReceiveMessage, Receive, WritePublish,
        Connect, Checks, EndAttempt, EndWith
  <2>2. subscribed' \in {subscribed, FALSE}
    BY <1>1
    DEF Worker, OnConnect, OnSubscribe, OnEarlyMessage, OnMessageBusy, OnStatus,
        OnFreshSample, OnRefusedSample, OnPuback, ReceiveMessage, Receive, WritePublish,
        Connect, Checks, EndAttempt, EndWith, Publish, Consume, Fail, AbortClient, net
  <2> QED
    BY <2>1, <2>2 DEF topics
<1>2. CASE BrokerPublish
  <2>1. Head(wire) \in Message
    BY <1>2, TailFacts DEF BrokerPublish
  <2> QED
    BY <1>2, <2>1, Packets DEF BrokerPublish
<1>3. CASE \E ok \in BOOLEAN : BrokerConnack(ok) \/ BrokerSuback(ok)
  BY <1>3 DEF BrokerConnack, BrokerSuback, topics
<1>4. CASE Environment
  BY <1>4 DEF Environment, RawSample, RawStatus, Forward, Pass, Restart, LoseLink, CalmDown,
              AbortClient, net, topics
<1> QED
  BY <1>1, <1>2, <1>3, <1>4 DEF Next, Broker

LEMMA ConsumeFacts ==
    ASSUME TypeOK, inbox # <<>>, Consume
    PROVE  /\ Head(inbox) \in Packet /\ Head(inbox) = inbox[1] /\ 1 \in 1 .. Len(inbox)
           /\ inbox' \in Seq(Packet) /\ Len(inbox') = Len(inbox) - 1
           /\ \A i \in 1 .. Len(inbox) - 1 : inbox'[i] = inbox[i + 1]
           /\ link' = link /\ wire' = wire
  BY TailFacts DEF TypeOK, Consume

LEMMA WriteFacts ==
    ASSUME TypeOK, Writes
    PROVE  /\ wire' \in Seq(Message) /\ Len(wire') = Len(wire) + 1
           /\ \A i \in 1 .. Len(wire) : wire'[i] = wire[i]
           /\ wire'[Len(wire) + 1] = relay.info.msg /\ relay.info.msg \in Message
<1>1. relay.info.msg \in Message
  BY FieldTypes DEF Writes, Pending
<1> QED
  BY <1>1, AppendFacts DEF Writes, TypeOK

LEMMA BrokerFacts ==
    ASSUME TypeOK, BrokerPublish
    PROVE  /\ Head(wire) \in Message /\ Head(wire) = wire[1] /\ 1 \in 1 .. Len(wire)
           /\ wire' \in Seq(Message) /\ Len(wire') = Len(wire) - 1
           /\ \A i \in 1 .. Len(wire) - 1 : wire'[i] = wire[i + 1]
           /\ UNCHANGED <<attempt, relay, mark, link>>
           /\ \/ /\ Head(wire).kind = "sample" /\ Head(wire).n \in Sample /\ UNCHANGED inbox
                 /\ validSamples' = Append(validSamples, Head(wire).n)
              \/ /\ Head(wire).kind = "status" /\ UNCHANGED validSamples
                 /\ inbox' = IF link = "up" THEN Append(inbox, [kind |-> "puback"]) ELSE inbox
<1>1. wire # <<>> /\ wire' = Tail(wire) /\ UNCHANGED <<attempt, relay, mark, link>>
  BY DEF BrokerPublish
<1>2. /\ Head(wire) \in Message /\ Head(wire) = wire[1] /\ 1 \in 1 .. Len(wire)
      /\ wire' \in Seq(Message) /\ Len(wire') = Len(wire) - 1
      /\ \A i \in 1 .. Len(wire) - 1 : wire'[i] = wire[i + 1]
  BY <1>1, TailFacts DEF TypeOK
<1> QED
  BY <1>1, <1>2, Packets DEF BrokerPublish

LEMMA LoseFacts ==
    ASSUME TypeOK, LoseLink
    PROVE  /\ link' = "lost" /\ inbox' = <<>> /\ link \in {"connecting", "up"}
           /\ wire' \in Seq(Message) /\ Len(wire') <= Len(wire)
           /\ \A i \in 1 .. Len(wire') : wire'[i] = wire[i]
           /\ UNCHANGED <<attempt, relay, mark, validSamples>>
<1>1. PICK k \in 0 .. Len(wire) : wire' = SubSeq(wire, 1, k)
  BY DEF LoseLink
<1>2. wire \in Seq(Message)
  BY DEF TypeOK
<1>3. /\ wire' \in Seq(Message) /\ Len(wire') <= Len(wire)
      /\ \A i \in 1 .. Len(wire') : wire'[i] = wire[i]
  BY <1>1, <1>2
<1> QED
  BY <1>3 DEF LoseLink, topics

LEMMA ConnackFacts ==
    ASSUME NEW ok \in BOOLEAN, BrokerConnack(ok)
    PROVE  /\ link = "connecting" /\ link' = "up" /\ wire' = <<>>
           /\ inbox' \in Seq(Packet) /\ Len(inbox') = 1 /\ inbox'[1].kind = "connack"
           /\ UNCHANGED <<attempt, relay, mark, validSamples>>
<1>1. [kind |-> "connack", ok |-> ok] \in Packet
  BY Packets
<1> QED
  BY <1>1 DEF BrokerConnack, topics

LEMMA TypesKept ==
    ASSUME IInv, Next
    PROVE  TypeOK'
<1> USE DEF IInv
<1>0. <<>> \in Seq(Packet) /\ <<>> \in Seq(Message)
  OBVIOUS
<1>1. CASE Aborts
  BY <1>0, <1>1, DelayKept, TopicsKept DEF TypeOK, Aborts, Unseen
<1>2. CASE Reads
  BY <1>2, ConsumeFacts, DelayKept, TopicsKept DEF TypeOK, Reads, Unseen
<1>3. CASE Writes
  BY <1>3, WriteFacts, DelayKept, TopicsKept DEF TypeOK, Writes, Unseen
<1>4. CASE Starts
  BY <1>4, DelayKept, TopicsKept DEF TypeOK, Starts, Unseen
<1>5. CASE Idles
  BY <1>5, DelayKept, TopicsKept DEF TypeOK, Idles, Unseen
<1>6. CASE \E ok \in BOOLEAN : BrokerConnack(ok)
  BY <1>0, <1>6, ConnackFacts, DelayKept, TopicsKept DEF TypeOK
<1>7. CASE BrokerPublish
  <2>1. validSamples' \in Seq(Sample)
    <3>1. CASE validSamples' = Append(validSamples, Head(wire).n) /\ Head(wire).n \in Sample
      BY <3>1 DEF TypeOK
    <3> QED
      BY <1>7, <3>1, BrokerFacts DEF TypeOK
  <2>2. inbox' \in Seq(Packet)
    <3>1. CASE inbox' = Append(inbox, [kind |-> "puback"])
      BY <3>1, Packets DEF TypeOK
    <3> QED
      BY <1>7, <3>1, BrokerFacts DEF TypeOK
  <2> QED
    BY <1>7, <2>1, <2>2, BrokerFacts, DelayKept, TopicsKept DEF TypeOK
<1>8. CASE LoseLink
  BY <1>0, <1>8, LoseFacts, DelayKept, TopicsKept DEF TypeOK
<1> QED
  BY <1>1, <1>2, <1>3, <1>4, <1>5, <1>6, <1>7, <1>8, Kinds

LEMMA LinkedKept ==
    ASSUME IInv, [Next]_vars
    PROVE  Linked'
<1> USE DEF IInv, Linked
<1>1. CASE Aborts
  BY <1>1 DEF Aborts
<1>2. CASE Reads
  BY <1>2, ConsumeFacts DEF Reads
<1>3. CASE Writes
  BY <1>3 DEF Writes
<1>4. CASE Starts
  BY <1>4 DEF Starts
<1>5. CASE Idles
  BY <1>5 DEF Idles
<1>6. CASE \E ok \in BOOLEAN : BrokerConnack(ok)
  BY <1>6, ConnackFacts
<1>7. CASE BrokerPublish
  BY <1>7, BrokerFacts
<1>8. CASE LoseLink
  BY <1>8, LoseFacts
<1> QED
  BY <1>1, <1>2, <1>3, <1>4, <1>5, <1>6, <1>7, <1>8, Kinds

LEMMA SlotKept ==
    ASSUME IInv, [Next]_vars
    PROVE  Slot'
<1> USE DEF IInv, Slot
<1>1. CASE Aborts
  BY <1>1 DEF Aborts, Unseen
<1>2. CASE Reads /\ Keeps
  BY <1>2, ConsumeFacts DEF Reads, Keeps, Unseen
<1>3. CASE Reads /\ Finishes
  <2>1. relay.info.written
    <3>1. Ack(1) /\ link = "up"
      BY <1>3, ConsumeFacts DEF Reads, Finishes, Ack
    <3> QED
      BY <3>1 DEF OneAck, Awaiting
  <2> QED
    BY <1>3, <2>1, ConsumeFacts DEF Reads, Finishes, Unseen
<1>4. CASE Reads /\ \E msg \in Message : Queues(msg)
  BY <1>4, ConsumeFacts DEF Reads, Queues, Unseen
<1>5. CASE Writes
  BY <1>5 DEF Writes, Unseen
<1>6. CASE Starts
  BY <1>6 DEF Starts, Unseen
<1>7. CASE Idles
  BY <1>7 DEF Idles, Keeps, Unseen
<1>8. CASE \E ok \in BOOLEAN : BrokerConnack(ok)
  BY <1>8, ConnackFacts
<1>9. CASE BrokerPublish
  BY <1>9, BrokerFacts
<1>10. CASE LoseLink
  BY <1>10, LoseFacts
<1> QED
  BY <1>1, <1>2, <1>3, <1>4, <1>5, <1>6, <1>7, <1>8, <1>9, <1>10, Kinds

LEMMA FrontKept ==
    ASSUME IInv, [Next]_vars
    PROVE  Front'
<1> USE DEF IInv, Front
<1> inbox \in Seq(Packet)
  BY DEF TypeOK
<1>1. CASE Aborts
  BY <1>1 DEF Aborts
<1>2. CASE Reads
  <2>1. \A i \in 1 .. Len(inbox') : inbox'[i].kind # "connack"
    BY <1>2, ConsumeFacts DEF Reads
  <2> QED
    BY <1>2, <2>1, ConsumeFacts DEF Reads
<1>3. CASE Writes
  BY <1>3 DEF Writes
<1>4. CASE Starts
  BY <1>4 DEF Starts
<1>5. CASE Idles
  BY <1>5 DEF Idles, Keeps
<1>6. CASE \E ok \in BOOLEAN : BrokerConnack(ok)
  BY <1>6, ConnackFacts
<1>7. CASE BrokerPublish
  <2>1. \A i \in 1 .. Len(inbox') : inbox'[i].kind = "connack"
                                      => i \in 1 .. Len(inbox) /\ inbox'[i] = inbox[i]
    <3>1. CASE UNCHANGED inbox
      BY <3>1
    <3>2. CASE inbox' = Append(inbox, [kind |-> "puback"])
      <4>1. \A i \in 1 .. Len(inbox') : (i \in 1 .. Len(inbox) /\ inbox'[i] = inbox[i])
                                        \/ inbox'[i] = [kind |-> "puback"]
        BY <3>2, Packets, AppendFacts
      <4> QED
        BY <4>1
    <3> QED
      BY <1>7, <3>1, <3>2, BrokerFacts
  <2> QED
    BY <1>7, <2>1, BrokerFacts
<1>8. CASE LoseLink
  BY <1>8, LoseFacts
<1> QED
  BY <1>1, <1>2, <1>3, <1>4, <1>5, <1>6, <1>7, <1>8, Kinds

\* Packets that are read, added or written keep the account of PUBACKs when none
\* is made of nothing: k packets were read, none of those left is a new PUBACK.
LEMMA AcksShift ==
    ASSUME OneAck, link = "up", UNCHANGED wire, NEW k \in Nat,
           \A i \in Nat : Ack(i)' => Ack(i + k),
           \A i \in Nat : Ack(i)' \/ StatusAt(i) => Awaiting'
    PROVE  OneAck'
<1>1. \A i \in Nat : StatusAt(i)' <=> StatusAt(i)
  BY DEF StatusAt
<1>2. \A i, j \in Nat : Ack(i)' /\ Ack(j)' => i = j
  <2> SUFFICES ASSUME NEW i \in Nat, NEW j \in Nat, Ack(i)', Ack(j)'
               PROVE  i = j
    OBVIOUS
  <2>1. Ack(i + k) /\ Ack(j + k) /\ i + k \in Nat /\ j + k \in Nat
    OBVIOUS
  <2>2. i + k = j + k
    BY <2>1 DEF OneAck
  <2> QED
    BY <2>2
<1>3. \A i, j \in Nat : StatusAt(i)' /\ StatusAt(j)' => i = j
  BY <1>1 DEF OneAck
<1>4. \A i, j \in Nat : ~(Ack(j)' /\ StatusAt(i)')
  <2> SUFFICES ASSUME NEW i \in Nat, NEW j \in Nat, Ack(j)', StatusAt(i)'
               PROVE  FALSE
    OBVIOUS
  <2>1. Ack(j + k) /\ StatusAt(i) /\ j + k \in Nat
    BY <1>1
  <2> QED
    BY <2>1 DEF OneAck
<1> QED
  BY <1>1, <1>2, <1>3, <1>4 DEF OneAck

LEMMA OneAckKept ==
    ASSUME IInv, [Next]_vars
    PROVE  OneAck'
<1> USE DEF IInv
<1>0. inbox \in Seq(Packet) /\ wire \in Seq(Message)
  BY DEF TypeOK
<1>1. CASE link' # "up"
  BY <1>1 DEF OneAck
<1>2. CASE Reads /\ (Keeps \/ Finishes \/ \E msg \in Message : Queues(msg))
  <2>1. inbox # <<>> /\ Consume /\ link = "up" /\ UNCHANGED wire
    BY <1>2, ConsumeFacts DEF Reads
  <2>2. \A i \in Nat : Ack(i)' => Ack(i + 1) /\ i + 1 # 1
    BY <1>0, <2>1, ConsumeFacts DEF Ack
  <2>3. Unfinished <=> relay.info # None /\ ~relay.info.done
    BY DEF Unfinished
  <2>4. CASE Keeps
    <3>1. Awaiting => Awaiting'
      BY <2>3, <2>4 DEF Awaiting, Keeps
    <3>2. \A i \in Nat : Ack(i)' \/ StatusAt(i) => Awaiting'
      BY <2>1, <2>2, <3>1 DEF OneAck
    <3> QED
      BY <2>1, <2>2, <3>2, AcksShift
  <2>5. CASE Finishes
    <3>1. Ack(1)
      BY <2>1, <2>5, ConsumeFacts DEF Ack, Finishes
    <3>2. \A i \in Nat : ~Ack(i)' /\ ~StatusAt(i)
      <4>1. \A i \in Nat : ~StatusAt(i)
        BY <2>1, <3>1 DEF OneAck
      <4>2. ASSUME NEW i \in Nat, Ack(i)'
            PROVE  FALSE
        <5>1. Ack(i + 1) /\ i + 1 \in Nat /\ i + 1 # 1
          BY <2>2, <4>2
        <5> QED
          BY <2>1, <3>1, <5>1 DEF OneAck
      <4> QED
        BY <4>1, <4>2
    <3> QED
      BY <2>1, <2>2, <3>2, AcksShift
  <2>6. CASE \E msg \in Message : Queues(msg)
    <3>1. ~Awaiting
      BY <2>6 DEF Queues, Awaiting, Unfinished
    <3>2. \A i \in Nat : ~Ack(i)' /\ ~StatusAt(i)
      BY <2>1, <2>2, <3>1 DEF OneAck
    <3> QED
      BY <2>1, <2>2, <3>2, AcksShift
  <2> QED
    BY <1>2, <2>4, <2>5, <2>6
<1>3. CASE Writes
  <2>1. link = "up" /\ UNCHANGED inbox /\ ~Awaiting
    BY <1>3 DEF Writes, Awaiting
  <2>2. \A i \in Nat : ~Ack(i) /\ ~StatusAt(i) /\ ~Ack(i)'
    BY <2>1 DEF OneAck, Ack
  <2>3. \A i \in Nat : StatusAt(i)' => i = Len(wire) + 1 /\ relay.info.msg.kind = "status"
    <3>1. \A i \in 1 .. Len(wire') : i \in 1 .. Len(wire) \/ i = Len(wire) + 1
      BY <1>0, <1>3, WriteFacts
    <3> QED
      BY <1>3, <2>2, <3>1, WriteFacts DEF StatusAt
  <2>4. relay.info.msg.kind = "status" => Awaiting'
    BY <1>3 DEF Writes, Awaiting
  <2> QED
    BY <2>2, <2>3, <2>4 DEF OneAck
<1>4. CASE Idles
  <2>1. \A i \in Nat : Ack(i)' => Ack(i)
    BY <1>0, <1>4 DEF Idles, Ack
  <2>2. CASE link = "up"
    <3>1. Awaiting => Awaiting'
      BY <1>4 DEF Idles, Keeps, Unfinished, Awaiting
    <3>2. \A i \in Nat : Ack(i)' \/ StatusAt(i) => Awaiting'
      BY <2>1, <2>2, <3>1 DEF OneAck
    <3>3. \A i \in Nat : Ack(i)' => Ack(i + 0)
      BY <2>1
    <3> QED
      BY <1>4, <2>2, <3>2, <3>3, AcksShift DEF Idles
  <2> QED
    BY <1>1, <1>4, <2>2 DEF Idles
<1>5. CASE \E ok \in BOOLEAN : BrokerConnack(ok)
  <2>1. \A i \in Nat : ~Ack(i)' /\ ~StatusAt(i)'
    BY <1>5, ConnackFacts DEF Ack, StatusAt
  <2> QED
    BY <2>1 DEF OneAck
<1>6. CASE BrokerPublish /\ link = "up"
  <2>1. \A i \in Nat : StatusAt(i)' => StatusAt(i + 1) /\ i + 1 # 1
    BY <1>0, <1>6, BrokerFacts DEF StatusAt
  <2>2. Awaiting' <=> Awaiting
    BY <1>6, BrokerFacts DEF Awaiting
  <2>3. CASE Head(wire).kind = "sample" /\ UNCHANGED inbox
    <3>1. \A i \in Nat : Ack(i)' <=> Ack(i)
      BY <2>3 DEF Ack
    <3>2. \A i \in Nat : Ack(i)' \/ StatusAt(i)' => Awaiting'
      BY <1>6, <2>1, <2>2, <3>1 DEF OneAck
    <3>3. \A i, j \in Nat : StatusAt(i)' /\ StatusAt(j)' => i = j
      <4> SUFFICES ASSUME NEW i \in Nat, NEW j \in Nat, StatusAt(i)', StatusAt(j)'
                   PROVE  i = j
        OBVIOUS
      <4>1. i + 1 = j + 1
        BY <1>6, <2>1 DEF OneAck
      <4> QED
        BY <4>1
    <3>4. \A i, j \in Nat : (Ack(i)' /\ Ack(j)' => i = j) /\ ~(Ack(j)' /\ StatusAt(i)')
      BY <1>6, <2>1, <3>1 DEF OneAck
    <3> QED
      BY <3>2, <3>3, <3>4 DEF OneAck
  <2>4. CASE /\ Head(wire).kind = "status"
             /\ inbox' = Append(inbox, [kind |-> "puback"])
    <3>1. StatusAt(1)
      BY <1>6, <2>4, BrokerFacts DEF StatusAt
    <3>2. \A i \in Nat : ~Ack(i) /\ ~StatusAt(i)'
      <4>1. \A i \in Nat : ~Ack(i)
        BY <1>6, <3>1 DEF OneAck
      <4>2. ASSUME NEW i \in Nat, StatusAt(i)'
            PROVE  FALSE
        <5>1. StatusAt(i + 1) /\ i + 1 \in Nat /\ i + 1 # 1
          BY <2>1, <4>2
        <5> QED
          BY <1>6, <3>1, <5>1 DEF OneAck
      <4> QED
        BY <4>1, <4>2
    <3>3. \A i \in Nat : Ack(i)' => i = Len(inbox) + 1
      <4>1. /\ \A i \in 1 .. Len(inbox) : inbox'[i] = inbox[i]
            /\ \A i \in 1 .. Len(inbox') : i \in 1 .. Len(inbox) \/ i = Len(inbox) + 1
        BY <1>0, <2>4, Packets, AppendFacts
      <4> QED
        BY <3>2, <4>1 DEF Ack
    <3>4. Awaiting'
      BY <1>6, <2>2, <3>1 DEF OneAck
    <3> QED
      BY <3>2, <3>3, <3>4 DEF OneAck
  <2> QED
    BY <1>6, <2>3, <2>4, BrokerFacts
<1> QED
  BY <1>1, <1>2, <1>3, <1>4, <1>5, <1>6, Kinds, BrokerFacts, LoseFacts
  DEF Aborts, Starts

\* Later, in the next state.
LaterThen(n) == /\ n \in 1 .. mark'
                /\ \A i \in 1 .. Len(validSamples') : validSamples'[i] < n

\* The sequence of samples stays in order when it only loses some of its end, and
\* the mark does not go back.
LEMMA OrderShrinks ==
    ASSUME TypeOK, Order, UNCHANGED validSamples, mark' \in Sample, mark' >= mark,
           Len(wire') \in Nat, Len(wire') <= Len(wire),
           \A i \in 1 .. Len(wire') : wire'[i] = wire[i],
           Queued' => Queued /\ relay'.info.msg = relay.info.msg
    PROVE  Order'
<1>0. mark \in Nat /\ mark' \in Nat /\ wire \in Seq(Message)
  BY DEF TypeOK, Sample
<1>1. \A i \in Nat : SampleAt(i)' => SampleAt(i) /\ wire'[i] = wire[i]
  BY <1>0 DEF SampleAt
<1>2. \A n : Later(n) => LaterThen(n)
  BY <1>0 DEF Later, LaterThen
<1>3. SamplesInOrder'
  BY <1>0 DEF Order, SamplesInOrder
<1>4. \A i \in Nat : SampleAt(i)' => LaterThen(wire'[i].n)
  BY <1>1, <1>2 DEF Order
<1>5. \A i, j \in Nat : SampleAt(i)' /\ SampleAt(j)' /\ i < j => wire'[i].n < wire'[j].n
  BY <1>1 DEF Order
<1>6. Queued' => /\ LaterThen(relay'.info.msg.n)
                 /\ \A i \in Nat : SampleAt(i)' => wire'[i].n < relay'.info.msg.n
  BY <1>1, <1>2 DEF Order
<1> QED
  BY <1>3, <1>4, <1>5, <1>6 DEF Order, Later, LaterThen

LEMMA OrderKept ==
    ASSUME IInv, [Next]_vars
    PROVE  Order'
<1> USE DEF IInv
<1>0. /\ wire \in Seq(Message) /\ validSamples \in Seq(Sample) /\ mark \in Nat /\ mark \in Sample
      /\ mark >= mark
  BY DEF TypeOK, Sample
<1>1. CASE Aborts
  <2>1. ~Queued'
    BY <1>1 DEF Aborts, Queued
  <2> QED
    BY <1>0, <1>1, <2>1, OrderShrinks DEF Aborts, Unseen
<1>2. CASE (Reads \/ Idles) /\ Keeps
  <2>1. Queued' => Queued /\ relay'.info.msg = relay.info.msg
    BY <1>2 DEF Keeps, Queued
  <2>2. UNCHANGED wire
    BY <1>2, ConsumeFacts DEF Reads, Idles
  <2> QED
    BY <1>0, <1>2, <2>1, <2>2, OrderShrinks DEF Reads, Idles, Unseen
<1>3. CASE Reads /\ Finishes
  <2>1. Queued' => Queued /\ relay'.info.msg = relay.info.msg
    BY <1>3 DEF Finishes, Queued
  <2>2. UNCHANGED wire
    BY <1>3, ConsumeFacts DEF Reads
  <2> QED
    BY <1>0, <1>3, <2>1, <2>2, OrderShrinks DEF Reads, Unseen
<1>4. CASE Reads /\ \E msg \in Message : Queues(msg)
  <2>1. PICK msg \in Message : Queues(msg)
    BY <1>4
  <2>2. /\ UNCHANGED wire /\ UNCHANGED validSamples /\ mark' >= mark /\ mark' \in Nat
    BY <1>0, <1>4, ConsumeFacts DEF Reads, Unseen, Sample
  <2>3. \A n : Later(n) => LaterThen(n) /\ n <= mark
    BY <1>0, <2>2 DEF Later, LaterThen
  <2>4. \A i \in Nat : SampleAt(i)' <=> SampleAt(i)
    BY <2>2 DEF SampleAt
  <2>5. Queued' => msg.kind = "sample" /\ relay'.info.msg = msg
    BY <2>1 DEF Queues, Queued
  <2>6. ASSUME Queued'
        PROVE  /\ LaterThen(msg.n)
               /\ \A i \in Nat : SampleAt(i) => wire[i].n < msg.n
    <3>1. msg.n = mark' /\ mark < mark'
      BY <2>1, <2>5, <2>6 DEF Queues
    <3>2. \A i \in 1 .. Len(validSamples) : validSamples[i] \in 1 .. mark
      BY DEF Order, SamplesInOrder
    <3>3. LaterThen(mark')
      BY <1>0, <2>2, <3>1, <3>2 DEF LaterThen
    <3>4. \A i \in Nat : SampleAt(i) => wire[i].n \in 1 .. mark
      BY DEF Order, Later
    <3> QED
      BY <1>0, <2>2, <3>1, <3>3, <3>4
  <2>7. SamplesInOrder'
    BY <1>0, <2>2 DEF Order, SamplesInOrder
  <2>8. \A i \in Nat : SampleAt(i)' => LaterThen(wire'[i].n)
    BY <2>2, <2>3, <2>4 DEF Order
  <2>9. \A i, j \in Nat : SampleAt(i)' /\ SampleAt(j)' /\ i < j => wire'[i].n < wire'[j].n
    BY <2>2, <2>4 DEF Order
  <2>10. Queued' => /\ LaterThen(relay'.info.msg.n)
                    /\ \A i \in Nat : SampleAt(i)' => wire'[i].n < relay'.info.msg.n
    BY <2>2, <2>4, <2>5, <2>6
  <2> QED
    BY <2>7, <2>8, <2>9, <2>10 DEF Order, Later, LaterThen
<1>5. CASE Writes
  <2>1. /\ UNCHANGED validSamples /\ mark' >= mark /\ mark' \in Nat
        /\ relay.info # None /\ ~relay.info.written
    BY <1>0, <1>5 DEF Writes, Unseen, Sample
  <2>2. \A n : Later(n) => LaterThen(n)
    BY <1>0, <2>1 DEF Later, LaterThen
  <2>3. ~Queued'
    BY <1>5 DEF Writes, Queued
  <2>4. \A i \in Nat : SampleAt(i)' => \/ i <= Len(wire) /\ SampleAt(i) /\ wire'[i] = wire[i]
                                       \/ i = Len(wire) + 1 /\ Queued
                                          /\ wire'[i] = relay.info.msg
    <3>1. \A i \in 1 .. Len(wire') : i \in 1 .. Len(wire) \/ i = Len(wire) + 1
      BY <1>0, <1>5, WriteFacts
    <3> QED
      BY <1>0, <1>5, <2>1, <3>1, WriteFacts DEF SampleAt, Queued
  <2>5. SamplesInOrder'
    BY <1>0, <2>1 DEF Order, SamplesInOrder
  <2>6. \A i \in Nat : SampleAt(i)' => LaterThen(wire'[i].n)
    BY <2>2, <2>4 DEF Order
  <2>7. \A i, j \in Nat : SampleAt(i)' /\ SampleAt(j)' /\ i < j => wire'[i].n < wire'[j].n
    <3> SUFFICES ASSUME NEW i \in Nat, NEW j \in Nat, SampleAt(i)', SampleAt(j)', i < j
                 PROVE  wire'[i].n < wire'[j].n
      OBVIOUS
    <3>1. i <= Len(wire) /\ SampleAt(i) /\ wire'[i] = wire[i]
      <4>1. j <= Len(wire) + 1
        BY <1>0, <2>4
      <4>2. i # Len(wire) + 1
        BY <1>0, <4>1
      <4> QED
        BY <2>4, <4>2
    <3> QED
      BY <2>4, <3>1 DEF Order
  <2> QED
    BY <2>3, <2>5, <2>6, <2>7 DEF Order, Later, LaterThen
<1>6. CASE Starts
  <2>1. ~Queued'
    BY <1>6 DEF Starts, Queued
  <2> QED
    BY <1>0, <1>6, <2>1, OrderShrinks DEF Starts, Unseen
<1>7. CASE \E ok \in BOOLEAN : BrokerConnack(ok)
  <2>1. Queued' => Queued /\ relay'.info.msg = relay.info.msg
    BY <1>7, ConnackFacts DEF Queued
  <2>2. wire' = <<>> /\ UNCHANGED <<mark, validSamples>>
    BY <1>7, ConnackFacts
  <2> QED
    BY <1>0, <2>1, <2>2, OrderShrinks
<1>8. CASE LoseLink
  <2>1. Queued' => Queued /\ relay'.info.msg = relay.info.msg
    BY <1>8, LoseFacts DEF Queued
  <2> QED
    BY <1>0, <1>8, <2>1, LoseFacts, OrderShrinks
<1>9. CASE BrokerPublish
  <2>1. /\ UNCHANGED <<relay, mark>>
        /\ \A i \in Nat : SampleAt(i)' => /\ SampleAt(i + 1) /\ wire'[i] = wire[i + 1]
    BY <1>0, <1>9, BrokerFacts DEF SampleAt
  <2>2. Queued' <=> Queued
    BY <2>1 DEF Queued
  <2>3. \A i, j \in Nat : SampleAt(i)' /\ SampleAt(j)' /\ i < j => wire'[i].n < wire'[j].n
    <3> SUFFICES ASSUME NEW i \in Nat, NEW j \in Nat, SampleAt(i)', SampleAt(j)', i < j
                 PROVE  wire'[i].n < wire'[j].n
      OBVIOUS
    <3>1. SampleAt(i + 1) /\ SampleAt(j + 1) /\ i + 1 < j + 1
      BY <2>1
    <3> QED
      BY <2>1, <3>1 DEF Order
  <2>4. Queued' => \A i \in Nat : SampleAt(i)' => wire'[i].n < relay'.info.msg.n
    BY <2>1, <2>2 DEF Order
  <2>5. CASE UNCHANGED validSamples
    <3>1. SamplesInOrder' /\ \A n : Later(n) <=> LaterThen(n)
      BY <2>1, <2>5 DEF Order, SamplesInOrder, Later, LaterThen
    <3>2. \A i \in Nat : SampleAt(i)' => LaterThen(wire'[i].n)
      BY <2>1, <3>1 DEF Order
    <3>3. Queued' => LaterThen(relay'.info.msg.n)
      BY <2>1, <2>2, <3>1 DEF Order
    <3> QED
      BY <2>3, <2>4, <3>1, <3>2, <3>3 DEF Order, Later, LaterThen
  <2>6. CASE /\ Head(wire).kind = "sample" /\ Head(wire).n \in Sample
             /\ validSamples' = Append(validSamples, Head(wire).n)
    <3>1. SampleAt(1) /\ Head(wire) = wire[1] /\ Later(Head(wire).n)
      BY <1>9, <2>6, BrokerFacts DEF SampleAt, Order
    <3>2. /\ Len(validSamples') = Len(validSamples) + 1
          /\ \A i \in 1 .. Len(validSamples) : validSamples'[i] = validSamples[i]
          /\ validSamples'[Len(validSamples) + 1] = Head(wire).n
      BY <1>0, <2>6, AppendFacts
    <3>3. \A i \in 1 .. Len(validSamples') :
             \/ i \in 1 .. Len(validSamples) /\ validSamples'[i] = validSamples[i]
             \/ i = Len(validSamples) + 1 /\ validSamples'[i] = Head(wire).n
      BY <1>0, <3>2
    <3>4. \A n : Later(n) /\ Head(wire).n < n => LaterThen(n)
      BY <2>1, <3>3 DEF Later, LaterThen
    <3>5. SamplesInOrder'
      <4>1. SamplesInOrder
        BY DEF Order
      <4> SUFFICES ASSUME NEW j \in 1 .. Len(validSamples')
                   PROVE  /\ validSamples'[j] \in 1 .. mark'
                          /\ \A i \in 1 .. (j - 1) : validSamples'[i] < validSamples'[j]
        BY DEF SamplesInOrder
      <4>2. CASE j \in 1 .. Len(validSamples)
        <5>1. validSamples'[j] = validSamples[j] /\ validSamples[j] \in 1 .. mark
          BY <3>2, <4>1, <4>2 DEF SamplesInOrder
        <5>2. \A i \in 1 .. (j - 1) : i \in 1 .. Len(validSamples)
          BY <1>0, <4>2
        <5>3. \A i \in 1 .. (j - 1) : validSamples[i] < validSamples[j]
          BY <4>1, <4>2 DEF SamplesInOrder
        <5> QED
          BY <2>1, <3>2, <5>1, <5>2, <5>3
      <4>3. CASE j = Len(validSamples) + 1
        <5>1. \A i \in 1 .. (j - 1) : i \in 1 .. Len(validSamples)
          BY <1>0, <4>3
        <5> QED
          BY <2>1, <3>1, <3>2, <4>3, <5>1 DEF Later
      <4> QED
        BY <3>3, <4>2, <4>3
    <3>6. \A i \in Nat : SampleAt(i)' => LaterThen(wire'[i].n)
      <4> SUFFICES ASSUME NEW i \in Nat, SampleAt(i)'
                   PROVE  LaterThen(wire'[i].n)
        OBVIOUS
      <4>1. SampleAt(i + 1) /\ i >= 1
        BY <2>1 DEF SampleAt
      <4>2. Later(wire[i + 1].n) /\ wire[1].n < wire[i + 1].n
        BY <3>1, <4>1 DEF Order
      <4> QED
        BY <2>1, <3>1, <3>4, <4>2
    <3>7. Queued' => LaterThen(relay'.info.msg.n)
      BY <2>1, <2>2, <3>1, <3>4 DEF Order
    <3> QED
      BY <2>3, <2>4, <3>5, <3>6, <3>7 DEF Order, Later, LaterThen
  <2> QED
    BY <1>9, <2>5, <2>6, BrokerFacts
<1> QED
  BY <1>1, <1>2, <1>3, <1>4, <1>5, <1>6, <1>7, <1>8, <1>9, Kinds DEF Idles

-----------------------------------------------------------------------------
(* Samples are lost with the connection only *)

\* The samples in transit are those on the wire and the one that is queued.
LEMMA Transit ==
    ASSUME NEW n
    PROVE  n \in InTransit <=> \/ \E i \in Nat : SampleAt(i) /\ wire[i].n = n
                               \/ Queued /\ relay.info.msg.n = n
<1>1. \A i : i \in 1 .. Len(wire) /\ i \in Nat <=> i \in 1 .. Len(wire)
  OBVIOUS
<1> QED
  BY <1>1 DEF InTransit, SampleAt, Queued

\* n is in transit in the next state.
Travels(n) == \/ \E i \in Nat : SampleAt(i)' /\ wire'[i].n = n
              \/ Queued' /\ relay'.info.msg.n = n

LEMMA TransitThen ==
    ASSUME NEW n
    PROVE  Travels(n) => n \in InTransit'
<1>1. \A i : i \in 1 .. Len(wire') /\ i \in Nat <=> i \in 1 .. Len(wire')
  OBVIOUS
<1> QED
  BY <1>1 DEF InTransit, SampleAt, Queued, Travels

LEMMA Lossless ==
    ASSUME IInv, [Next]_vars, UNCHANGED link, NEW n \in InTransit
    PROVE  n \in InTransit' \/ \E i \in 1 .. Len(validSamples') : validSamples'[i] = n
<1> USE DEF IInv
<1>0. wire \in Seq(Message) /\ validSamples \in Seq(Sample)
  BY DEF TypeOK
<1>a. \/ \E i \in Nat : SampleAt(i) /\ wire[i].n = n
      \/ Queued /\ relay.info.msg.n = n
  BY Transit
<1>b. UNCHANGED wire => \A i \in Nat : SampleAt(i)' <=> SampleAt(i)
  BY DEF SampleAt
<1>c. UNCHANGED wire /\ (Queued => Queued' /\ relay'.info.msg = relay.info.msg)
        => Travels(n)
  BY <1>a, <1>b DEF Travels
<1>d. ~Unfinished => ~Queued
  BY DEF Unfinished, Queued, Slot
<1>1. CASE Aborts
  <2>1. ~Queued
    BY <1>1 DEF Aborts, Slot, Queued
  <2> QED
    BY <1>1, <1>c, <2>1, TransitThen DEF Aborts
<1>2. CASE (Reads \/ Idles) /\ Keeps
  <2>1. Queued => Queued' /\ relay'.info.msg = relay.info.msg
    BY <1>2, <1>d DEF Keeps, Queued
  <2>2. UNCHANGED wire
    BY <1>2, ConsumeFacts DEF Reads, Idles
  <2> QED
    BY <1>c, <2>1, <2>2, TransitThen
<1>3. CASE Reads /\ Finishes
  <2>1. Queued => Queued' /\ relay'.info.msg = relay.info.msg
    BY <1>3 DEF Finishes, Queued
  <2>2. UNCHANGED wire
    BY <1>3, ConsumeFacts DEF Reads
  <2> QED
    BY <1>c, <2>1, <2>2, TransitThen
<1>4. CASE Reads /\ \E msg \in Message : Queues(msg)
  <2>1. ~Queued
    BY <1>4, <1>d DEF Queues
  <2>2. UNCHANGED wire
    BY <1>4, ConsumeFacts DEF Reads
  <2> QED
    BY <1>c, <2>1, <2>2, TransitThen
<1>5. CASE Writes
  <2>1. CASE \E i \in Nat : SampleAt(i) /\ wire[i].n = n
    <3>1. \A i \in Nat : SampleAt(i) => SampleAt(i)' /\ wire'[i] = wire[i]
      BY <1>0, <1>5, WriteFacts DEF SampleAt
    <3> QED
      BY <2>1, <3>1, TransitThen DEF Travels
  <2>2. CASE Queued /\ relay.info.msg.n = n
    <3> DEFINE k == Len(wire) + 1
    <3>1. k \in Nat /\ k \in 1 .. Len(wire') /\ wire'[k] = relay.info.msg
      BY <1>0, <1>5, WriteFacts
    <3>2. wire'[k].kind = "sample" /\ wire'[k].n = n
      BY <2>2, <3>1 DEF Queued
    <3> HIDE DEF k
    <3>3. Travels(n)
      BY <3>1, <3>2 DEF Travels, SampleAt
    <3> QED
      BY <3>3, TransitThen
  <2> QED
    BY <1>a, <2>1, <2>2
<1>6. CASE Starts
  <2>1. ~Queued
    BY <1>6 DEF Starts, Slot, Linked, Queued
  <2> QED
    BY <1>6, <1>c, <2>1, TransitThen DEF Starts
<1>7. CASE (\E ok \in BOOLEAN : BrokerConnack(ok)) \/ LoseLink
  BY <1>7, ConnackFacts, LoseFacts
<1>8. CASE BrokerPublish
  <2>1. /\ UNCHANGED relay
        /\ \A i \in Nat : SampleAt(i + 1) => SampleAt(i)' \/ i = 0
        /\ \A i \in Nat : SampleAt(i + 1) /\ i # 0 => wire'[i] = wire[i + 1]
    BY <1>0, <1>8, BrokerFacts DEF SampleAt
  <2>2. CASE Queued /\ relay.info.msg.n = n
    BY <2>1, <2>2, TransitThen DEF Queued, Travels
  <2>3. CASE \E i \in Nat : SampleAt(i) /\ wire[i].n = n
    <3>1. PICK i \in Nat : SampleAt(i) /\ wire[i].n = n
      BY <2>3
    <3>2. CASE i = 1
      <4>1. Head(wire) = wire[1] /\ Head(wire).kind = "sample"
        BY <1>8, <3>1, <3>2, BrokerFacts DEF SampleAt
      <4>2. validSamples' = Append(validSamples, n) /\ n \in Sample
        BY <1>8, <3>1, <3>2, <4>1, BrokerFacts
      <4>3. /\ Len(validSamples) + 1 \in 1 .. Len(validSamples')
            /\ validSamples'[Len(validSamples) + 1] = n
        BY <1>0, <4>2, AppendFacts
      <4> QED
        BY <4>3
    <3>3. CASE i # 1
      <4>1. i - 1 \in Nat /\ i - 1 # 0 /\ (i - 1) + 1 = i
        BY <3>1, <3>3 DEF SampleAt
      <4>2. SampleAt(i - 1)' /\ wire'[i - 1] = wire[i]
        BY <1>0, <1>8, <3>1, <4>1, BrokerFacts DEF SampleAt
      <4> QED
        BY <3>1, <4>1, <4>2, TransitThen DEF Travels
    <3> QED
      BY <3>2, <3>3
  <2> QED
    BY <1>a, <2>2, <2>3
<1> QED
  BY <1>1, <1>2, <1>3, <1>4, <1>5, <1>6, <1>7, <1>8, Kinds DEF Idles

-----------------------------------------------------------------------------
(* The theorems *)

LEMMA Initially == Init => IInv
<1> SUFFICES ASSUME Init PROVE IInv
  OBVIOUS
<1>1. relay \in Fields /\ relay.info = None /\ relay.failed = FALSE /\ relay.ready = FALSE
  BY NewFields DEF Init, NewRelay
<1>2. <<>> \in Seq(Packet) /\ <<>> \in Seq(Message) /\ <<>> \in Seq(Sample) /\ Len(<<>>) = 0
  OBVIOUS
<1>3. TypeOK
  <2>1. 1 \in 1 .. MaxDelay /\ 0 \in Sample
    BY DEF Sample
  <2> QED
    BY <1>1, <1>2, <2>1 DEF Init, TypeOK
<1>4. Linked /\ Slot /\ Front
  BY <1>1 DEF Init, Linked, Slot, Front
<1>5. OneAck
  BY DEF Init, OneAck
<1>6. Order
  BY <1>1 DEF Init, Order, SamplesInOrder, SampleAt, Queued
<1> QED
  BY <1>3, <1>4, <1>5, <1>6 DEF IInv

LEMMA Invariance == Spec => []IInv
<1>1. IInv /\ [Next]_vars => IInv'
  <2> SUFFICES ASSUME IInv, [Next]_vars PROVE IInv'
    OBVIOUS
  <2>1. TypeOK'
    <3>1. CASE Next
      BY <3>1, TypesKept
    <3>2. CASE UNCHANGED vars
      BY <3>2 DEF IInv, TypeOK, vars, net, topics
    <3> QED
      BY <3>1, <3>2
  <2> QED
    BY <2>1, LinkedKept, SlotKept, FrontKept, OneAckKept, OrderKept DEF IInv
<1> QED
  BY <1>1, Initially, PTL DEF Spec

\* The fields of Relay, the gate's mark and what is under way keep their types.
THEOREM TypeCorrect == Spec => []TypeOK
<1>1. IInv => TypeOK
  BY DEF IInv
<1> QED
  BY <1>1, Invariance, PTL

\* Whatever the broker, the network and the clock do between two callbacks of the
\* relay, and however often the service reconnects or restarts, the validated topic
\* carries every sample at most once, in order, and after the gate's mark.
THEOREM OrderedSamples == Spec => []SamplesInOrder
<1>1. IInv => SamplesInOrder
  BY DEF IInv, Order
<1> QED
  BY <1>1, Invariance, PTL

\* A sample the gate has spent is not pushed out of the pending slot: while the
\* connection lasts it stays in transit or reaches the validated topic.
THEOREM NoSilentLoss == Spec => LostOnlyWithLink
<1>1. IInv /\ [Next]_vars =>
        [\A n \in InTransit :
            \/ n \in InTransit'
            \/ \E i \in 1 .. Len(validSamples') : validSamples'[i] = n
            \/ link' # link]_vars
  BY Lossless
<1> QED
  BY <1>1, Invariance, PTL DEF Spec, LostOnlyWithLink
=============================================================================
