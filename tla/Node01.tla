------------------------------- MODULE Node01 -------------------------------
(***************************************************************************)
(* node01's firmware as the source of what the anti-replay gate compares:  *)
(* the boot record in EEPROM, the sampling loop with its wrapping clock,   *)
(* and the MQTT session with its retained status and will.  Power is cut   *)
(* between any two words of the record, the loop is blocked for several    *)
(* periods, connections break, and a new one takes the old one over.       *)
(***************************************************************************)
EXTENDS Segments, Sequences

CONSTANTS BootMagic,  \* BOOT_MAGIC
          Period,     \* milliseconds between samples, 10000
          Clock,      \* millis() counts modulo 2^32
          MaxUptime   \* bound: milliseconds in one run of the device

ASSUME Node01Assumption ==
    /\ BootMagic \in 0 .. MaxUint32 - 1
    /\ Period \in Nat \ {0} /\ Clock \in Nat /\ Clock > Period /\ MaxUptime \in Nat

VARIABLES
    phase,      \* "off", "setup" or "renew" (in allocate_boot), "running", "fatal"
    eeprom,     \* the BootRecord at address 0
    next,       \* allocate_boot: the record being put
    written,    \* allocate_boot: how many of its words have been written
    boot,       \* boot_id
    sequence,   \* the next sample's number
    uptime,     \* time since power came; millis() is uptime % Clock
    lastSample, \* last_sample
    epoch,      \* history: when this boot_id's sample 0 was due
    online,
    session,    \* the broker's session of client "xiaoxi-node01"
    status,     \* the retained message of the status topic
    sampled,    \* history: the samples generated
    raw         \* history: the samples subscribers of the raw topic were sent

memory == <<phase, next, written, boot, sequence, lastSample, epoch>>
broker == <<session, status, raw>>
vars == <<memory, eeprom, uptime, online, broker, sampled>>

Word == 0 .. MaxUint32
BootRecord == [magic : Word, counter : Word, inverse : Word]
Allocating == phase \in {"setup", "renew"}

\* The greeting is the ONLINE message, written before any sample; open says
\* that the device has not stopped its end.
Session == [greeting : {"none", "unread", "read"}, unread : Seq(Segment), open : BOOLEAN]

ASSUME NoneAssumption == None \notin Session

TypeOK ==
    /\ phase \in {"off", "setup", "renew", "running", "fatal"}
    /\ eeprom \in BootRecord /\ next \in BootRecord /\ written \in 0 .. 3
    /\ boot \in Word /\ sequence \in Word
    /\ uptime \in Nat /\ lastSample \in 0 .. Clock - 1 /\ epoch \in Int
    /\ online \in BOOLEAN
    /\ session \in Session \cup {None} /\ status \in {"online", "offline"}
    /\ sampled \in Seq(Segment) /\ raw \in Seq(Segment)

Erased == [magic |-> MaxUint32, counter |-> MaxUint32, inverse |-> MaxUint32]

Init ==
    /\ phase = "off" /\ eeprom = Erased /\ next = Erased /\ written = 0
    /\ boot = 0 /\ sequence = 0 /\ uptime = 0 /\ lastSample = 0 /\ epoch = 0
    /\ online = FALSE /\ session = None /\ status = "offline"
    /\ sampled = <<>> /\ raw = <<>>
-----------------------------------------------------------------------------
(* boot_state.h and allocate_boot *)

\* ~x of a word.
Complement(x) == MaxUint32 - x

\* Bug: a record whose two halves disagree is taken for a good one.
BugTrustCounter(r) == r = Erased \/ (r.magic = BootMagic /\ r.counter # MaxUint32)

\* next_boot accepts an erased record, or a whole one that is not at its limit.
MayBoot(r) ==
    \/ r = Erased
    \/ r.magic = BootMagic /\ r.inverse = Complement(r.counter) /\ r.counter # MaxUint32

NextRecord(r) ==
    LET counter == IF r = Erased THEN 1 ELSE r.counter + 1
    IN  [magic |-> BootMagic, counter |-> counter, inverse |-> Complement(counter)]

\* allocate_boot begins, in setup() or in the middle of a run, or fails.
Allocate(when) ==
    \/ MayBoot(eeprom) /\ phase' = when /\ next' = NextRecord(eeprom) /\ written' = 0
    \/ ~MayBoot(eeprom) /\ phase' = "fatal" /\ UNCHANGED <<next, written>>

Field == <<"magic", "counter", "inverse">>

PowerOn ==
    /\ phase = "off"
    /\ Allocate("setup")
    /\ uptime' = 0 /\ sequence' = 0 /\ online' = FALSE
    /\ UNCHANGED <<eeprom, boot, lastSample, epoch, broker, sampled>>

\* EEPROM.put writes the next word, or the memory keeps the old one.
PutWord ==
    /\ Allocating /\ written < 3
    /\ written' = written + 1
    /\ LET f == Field[written']
       IN  eeprom' \in {eeprom, [eeprom EXCEPT ![f] = next[f]]}
    /\ UNCHANGED <<phase, next, boot, sequence, lastSample, epoch,
                   uptime, online, broker, sampled>>

\* Power goes; a word that was being written may hold anything.
PowerCut ==
    /\ phase # "off" /\ phase' = "off"
    /\ \/ UNCHANGED eeprom
       \/ /\ Allocating /\ written < 3
          /\ \E w \in Word : eeprom' = [eeprom EXCEPT ![Field[written + 1]] = w]
    /\ online' = FALSE
    /\ session' = IF session = None THEN None ELSE [session EXCEPT !.open = FALSE]
    /\ UNCHANGED <<next, written, boot, sequence, lastSample, epoch,
                   uptime, status, raw, sampled>>
-----------------------------------------------------------------------------
(* loop() and generate_sample *)

millis == uptime % Clock

\* Bug: a stretch of several periods counts as one sample.
BugCountOne(periods) == Period <= ((millis - lastSample) % Clock) /\ periods = 1

\* Whole periods since the last sample was due, by the wrapping clock.
Due(periods) == periods = (((millis - lastSample) % Clock) \div Period)

\* mqtt.publish writes the sample out; what it reports as failed may be out too.
Transmit(s) ==
    LET sent == IF session = None THEN None
                ELSE IF session.open THEN [session EXCEPT !.unread = Append(@, s)]
                ELSE session
    IN  \/ ~online /\ UNCHANGED <<online, session>>
        \/ online /\ UNCHANGED online /\ session' = sent
        \/ /\ online /\ online' = FALSE
           /\ \E r \in {session, sent} :
                session' = IF r = None THEN None ELSE [r EXCEPT !.open = FALSE]

Generate(s) == sampled' = Append(sampled, s) /\ Transmit(s)

\* periods > UINT32_MAX - 1 - sequence is false.
Fits(periods) == periods <= MaxUint32 - 1 - sequence

Sample ==
    /\ phase = "running"
    /\ \E periods \in 1 .. Clock :
          /\ Due(periods)
          /\ lastSample' = (lastSample + periods * Period) % Clock
          /\ \/ /\ Fits(periods)
                /\ sequence' = sequence + periods
                /\ Generate(<<boot, sequence + periods - 1>>)
                /\ UNCHANGED <<phase, next, written>>
             \/ /\ ~Fits(periods)
                /\ Allocate("renew")
                /\ UNCHANGED <<sequence, online, session, sampled>>
    /\ UNCHANGED <<eeprom, boot, epoch, uptime, status, raw>>

\* The record is read back: it is the new boot_id, or this run is over.  In the
\* middle of a run the sample that was due is sample 0 of the new boot_id.
Verify ==
    /\ Allocating /\ written = 3
    /\ \/ /\ eeprom # next /\ phase' = "fatal"
          /\ UNCHANGED <<boot, sequence, lastSample, epoch, online, session, sampled>>
       \/ /\ eeprom = next /\ phase = "setup"
          /\ phase' = "running" /\ boot' = next.counter /\ sequence' = 0
          /\ lastSample' = millis /\ epoch' = uptime + Period
          /\ UNCHANGED <<online, session, sampled>>
       \/ /\ eeprom = next /\ phase = "renew"
          /\ phase' = "running" /\ boot' = next.counter /\ sequence' = 1
          /\ epoch' = uptime - ((millis - lastSample) % Clock)
          /\ Generate(<<next.counter, 0>>)
          /\ UNCHANGED lastSample
    /\ UNCHANGED <<next, written, eeprom, uptime, status, raw>>

\* Time passes, also while a network operation blocks the loop, but never for
\* a whole turn of the clock between two samples.
Tick ==
    /\ phase = "running" /\ uptime < MaxUptime
    /\ ((millis - lastSample) % Clock) # Clock - 1
    /\ uptime' = uptime + 1
    /\ UNCHANGED <<memory, eeprom, online, broker, sampled>>
-----------------------------------------------------------------------------
(* network_task, and the broker *)

\* Bug: the client connects without a will.
BugNoWill == status

\* The status once the broker has ended the session there may be: connect gives
\* it OFFLINE, retained, as the will.
Will == IF session = None THEN status ELSE "offline"

\* Bug: the latest sample is sent again on a new connection.
BugBacklog ==
    /\ phase = "running" /\ ~online /\ sampled # <<>>
    /\ status' = Will
    /\ online' = TRUE
    /\ session' = [greeting |-> "unread", unread |-> <<sampled[Len(sampled)]>>, open |-> TRUE]
    /\ UNCHANGED <<memory, eeprom, uptime, raw, sampled>>

\* Bug: ONLINE is not published on the new connection.
BugNoGreeting ==
    /\ phase = "running" /\ ~online
    /\ status' = Will
    /\ online' = TRUE
    /\ session' = [greeting |-> "none", unread |-> <<>>, open |-> TRUE]
    /\ UNCHANGED <<memory, eeprom, uptime, raw, sampled>>

\* mqtt.connect reaches the broker, whose new session takes the old one over:
\* the old will is published and what was not read is dropped.  The device
\* gets CONNACK and publishes ONLINE, or gives up and stops.
Connect ==
    /\ phase = "running" /\ ~online
    /\ status' = Will
    /\ \/ /\ online' = TRUE
          /\ session' = [greeting |-> "unread", unread |-> <<>>, open |-> TRUE]
       \/ /\ UNCHANGED online
          /\ \E g \in {"none", "unread"} :
                session' = [greeting |-> g, unread |-> <<>>, open |-> FALSE]
    /\ UNCHANGED <<memory, eeprom, uptime, raw, sampled>>

\* Wi-Fi is gone or mqtt.loop() fails: the transport is stopped.
Disconnect ==
    /\ phase = "running" /\ online
    /\ online' = FALSE
    /\ session' = IF session = None THEN None ELSE [session EXCEPT !.open = FALSE]
    /\ UNCHANGED <<memory, eeprom, uptime, status, raw, sampled>>

ReadGreeting ==
    /\ session # None /\ session.greeting = "unread"
    /\ session' = [session EXCEPT !.greeting = "read"]
    /\ status' = "online"
    /\ UNCHANGED <<memory, eeprom, uptime, online, raw, sampled>>

ReadSample ==
    /\ session # None /\ session.greeting # "unread" /\ session.unread # <<>>
    /\ session' = [session EXCEPT !.unread = Tail(@)]
    /\ raw' = Append(raw, Head(session.unread))
    /\ UNCHANGED <<memory, eeprom, uptime, online, status, sampled>>

\* The connection ends for the broker: it was stopped, it broke, or nothing
\* came for one and a half keep-alive times.  The will becomes the status.
EndSession ==
    /\ session # None
    /\ session' = None /\ status' = Will
    /\ UNCHANGED <<memory, eeprom, uptime, online, raw, sampled>>
-----------------------------------------------------------------------------
Next ==
    \/ PowerOn \/ PutWord \/ PowerCut \/ Sample \/ Verify \/ Tick
    \/ Connect \/ Disconnect \/ ReadGreeting \/ ReadSample \/ EndSession

Spec == Init /\ [][Next]_vars

Silent == phase \in {"off", "fatal"}

\* The broker drops a client that is silent for too long.
FairSpec == Spec /\ WF_vars(Silent /\ EndSession)
-----------------------------------------------------------------------------
(* Properties *)

Source == INSTANCE ReplayGuard WITH accepted <- sampled

\* Whenever power is cut, however the record is torn or worn, and also when the
\* numbers of one boot run out: each sample generated is above all before it,
\* so the anti-replay gate has no reason to refuse a genuine one.
ImplementsSource == Source!Spec

\* Subscribers of the raw topic get the samples in that order, none twice,
\* through reconnects, takeovers and publishes that failed after they were sent.
RawInOrder ==
    \A i, j \in 1 .. Len(raw) : i < j => Below(raw[i], raw[j])

\* A sample reaches subscribers only while the retained status says online:
\* Home Assistant would show it as unavailable otherwise.
SamplesWhileOnline == [][raw' # raw => status = "online"]_vars

\* A sample's number is the number of periods since its boot_id began, however
\* long the loop was blocked and wherever the clock wrapped.
OnSchedule ==
    [][sampled' # sampled =>
          LET due == epoch' + sampled'[Len(sampled')][2] * Period
          IN  due <= uptime /\ uptime < due + Period]_vars

\* A node that has died, or stopped for good, does not stay online.
DeadGoesOffline == Silent ~> (status = "offline" \/ ~Silent)
=============================================================================
