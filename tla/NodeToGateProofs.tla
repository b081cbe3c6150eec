--------------------------- MODULE NodeToGateProofs ---------------------------
(***************************************************************************)
(* Proofs about node01's numbers, the anti-replay gate and the way from    *)
(* the one to the other, for any number of validators, any width of the    *)
(* counters, any period and any wrapping clock.                            *)
(***************************************************************************)
EXTENDS NodeToGate, TLAPS

USE MaxUint32Assumption, Node01Assumption

-----------------------------------------------------------------------------
(* node01: its inductive invariant *)

\* Boot count c is above that of every sample so far.
Fresh(c) == \A i \in 1 .. Len(sampled) : sampled[i][1] < c

\* If a start from record r succeeds, it yields a fresh boot count.
Safe(r) == MayBoot(r) => Fresh(NextRecord(r).counter)

\* While the record is written, its words change from those of the boot count
\* before to the new ones, in their order.
Writing ==
    /\ next.magic = BootMagic /\ next.inverse = Complement(next.counter)
    /\ next.counter \in 1 .. MaxUint32
    /\ Fresh(next.counter)
    /\ sampled # <<>> =>
          /\ eeprom.magic = BootMagic
          /\ eeprom.counter = next.counter \/ eeprom.counter = next.counter - 1
          /\ written < 2 => eeprom.counter = next.counter - 1
          /\ \/ eeprom.inverse = Complement(next.counter)
             \/ eeprom.inverse = Complement(next.counter - 1)
          /\ written < 3 => eeprom.inverse = Complement(next.counter - 1)

\* While samples are taken, the record in memory is that of boot.
Numbering ==
    /\ eeprom.magic = BootMagic /\ eeprom.counter = boot
    /\ eeprom.inverse = Complement(boot)
    /\ boot \in 1 .. MaxUint32
    /\ \A i \in 1 .. Len(sampled) :
          \/ sampled[i][1] < boot
          \/ sampled[i][1] = boot /\ sampled[i][2] < sequence

IInv ==
    /\ TypeOK
    /\ Safe(eeprom)
    /\ Allocating => Writing
    /\ phase = "running" => Numbering
-----------------------------------------------------------------------------
(* Records and clocks *)

LEMMA ElapsedInRange == ASSUME NEW a \in Int PROVE a % Clock \in 0 .. Clock - 1
OBVIOUS

\* next_boot makes a record whose counter is a boot count.
LEMMA NextRecordType ==
    ASSUME NEW r \in BootRecord, MayBoot(r)
    PROVE  /\ NextRecord(r) \in BootRecord
           /\ NextRecord(r).magic = BootMagic
           /\ NextRecord(r).counter \in 1 .. MaxUint32
           /\ NextRecord(r).inverse = Complement(NextRecord(r).counter)
           /\ r # Erased => /\ r.magic = BootMagic
                            /\ r.counter = NextRecord(r).counter - 1
                            /\ r.inverse = Complement(r.counter)
BY DEF NextRecord, MayBoot, BootRecord, Word, Erased, Complement

LEMMA SessionStops ==
    ASSUME NEW r \in Session PROVE [r EXCEPT !.open = FALSE] \in Session
BY DEF Session

LEMMA SessionSends ==
    ASSUME NEW r \in Session, NEW s \in Segment
    PROVE  [r EXCEPT !.unread = Append(@, s)] \in Session
<1>1. r.unread \in Seq(Segment)
  BY DEF Session
<1>2. Append(r.unread, s) \in Seq(Segment)
  BY <1>1
<1> QED BY <1>2 DEF Session

LEMMA TransmitType ==
    ASSUME NEW s \in Segment, online \in BOOLEAN, session \in Session \cup {None}, Transmit(s)
    PROVE  online' \in BOOLEAN /\ session' \in Session \cup {None}
BY SessionStops, SessionSends DEF Transmit

\* A sample whose number is in range is typed, and is appended.
LEMMA GenerateType ==
    ASSUME NEW s \in Segment, TypeOK, Generate(s)
    PROVE  /\ online' \in BOOLEAN /\ session' \in Session \cup {None}
           /\ sampled' = Append(sampled, s) /\ sampled' \in Seq(Segment)
           /\ Len(sampled') = Len(sampled) + 1
           /\ sampled'[Len(sampled')] = s
           /\ \A i \in 1 .. Len(sampled) : sampled'[i] = sampled[i]
BY TransmitType DEF Generate, TypeOK

LEMMA SampledSegments ==
    ASSUME TypeOK, NEW i \in 1 .. Len(sampled)
    PROVE  /\ sampled[i] \in Segment
           /\ sampled[i][1] \in 1 .. MaxUint32 /\ sampled[i][2] \in Word
BY DEF TypeOK, Segment, Word

\* While the record is being put, any of its words may turn into anything: what
\* is left either yields a fresh boot count or none.
LEMMA TornIsSafe ==
    ASSUME TypeOK, Writing, NEW w \in Word, written < 3
    PROVE  Safe([eeprom EXCEPT ![Field[written + 1]] = w])
<1> DEFINE torn == [eeprom EXCEPT ![Field[written + 1]] = w]
<1>1. CASE sampled = <<>>
  BY <1>1 DEF Safe, Fresh
<1>2. CASE sampled # <<>>
  <2>1. torn \in BootRecord
    BY DEF TypeOK, BootRecord, Field
  <2>2. \/ /\ written = 0
           /\ torn.counter = eeprom.counter /\ torn.inverse = eeprom.inverse
        \/ /\ written = 1
           /\ torn.magic = eeprom.magic /\ torn.inverse = eeprom.inverse
        \/ /\ written = 2
           /\ torn.magic = eeprom.magic /\ torn.counter = eeprom.counter
    BY DEF TypeOK, BootRecord, Field
  <2> HIDE DEF torn
  <2>3. MayBoot(torn) => NextRecord(torn).counter >= next.counter
    <3> USE DEF TypeOK, BootRecord, Word, Writing, MayBoot, NextRecord, Complement
    <3>1. CASE written = 0
      BY <1>2, <2>1, <2>2, <3>1 DEF Erased
    <3>2. CASE written = 1
      BY <1>2, <2>1, <2>2, <3>2 DEF Erased
    <3>3. CASE written = 2
      BY <1>2, <2>1, <2>2, <3>3 DEF Erased
    <3> QED BY <2>2, <3>1, <3>2, <3>3
  <2>4. MayBoot(torn) => NextRecord(torn).counter \in Int
    BY <2>1, NextRecordType
  <2>5. MayBoot(torn) => Fresh(NextRecord(torn).counter)
    BY <2>3, <2>4, SampledSegments DEF Fresh, Writing
  <2> QED BY <2>5 DEF Safe, torn
<1> QED BY <1>1, <1>2

\* The same when nothing is torn.
LEMMA WrittenIsSafe == ASSUME TypeOK, Writing PROVE Safe(eeprom)
<1>1. CASE sampled = <<>>
  BY <1>1 DEF Safe, Fresh
<1>2. CASE sampled # <<>>
  <2>1. MayBoot(eeprom) => NextRecord(eeprom).counter >= next.counter
    BY <1>2 DEF TypeOK, Writing, MayBoot, NextRecord, Erased, Complement, BootRecord, Word
  <2>2. MayBoot(eeprom) => NextRecord(eeprom).counter \in Int
    BY NextRecordType DEF TypeOK
  <2> QED BY <2>1, <2>2, SampledSegments DEF Safe, Fresh, Writing
<1> QED BY <1>1, <1>2

LEMMA WritingIsSafe == TypeOK /\ Writing => Safe(eeprom)
BY WrittenIsSafe

LEMMA NumberingIsSafe == TypeOK /\ Numbering => Safe(eeprom)
<1> SUFFICES ASSUME TypeOK, Numbering, MayBoot(eeprom)
             PROVE  Fresh(NextRecord(eeprom).counter)
  BY DEF Safe
<1>1. NextRecord(eeprom).counter = boot + 1
  BY DEF Numbering, NextRecord, Erased
<1> QED BY <1>1, SampledSegments DEF Fresh, Numbering
-----------------------------------------------------------------------------
(* The invariant holds at first and is preserved *)

LEMMA InvInit == Init => IInv
<1> SUFFICES ASSUME Init PROVE IInv
  OBVIOUS
<1>1. eeprom \in BootRecord /\ next \in BootRecord
  BY DEF Init, Erased, BootRecord, Word
<1>2. sampled = <<>> /\ raw = <<>> /\ sampled \in Seq(Segment) /\ raw \in Seq(Segment)
  BY DEF Init
<1>3. TypeOK
  <2>1. 0 \in 0 .. Clock - 1 /\ 0 \in Word
    BY DEF Word
  <2>2. /\ phase \in {"off", "setup", "renew", "running", "fatal"} /\ written \in 0 .. 3
        /\ uptime \in Nat /\ epoch \in Int
    BY DEF Init
  <2>4. online \in BOOLEAN /\ status \in {"online", "offline"}
    BY DEF Init
  <2>5. session \in Session \cup {None}
    BY DEF Init
  <2>3. boot \in Word /\ sequence \in Word /\ lastSample \in 0 .. Clock - 1
    BY <2>1 DEF Init
  <2> QED BY <1>1, <1>2, <2>2, <2>3, <2>4, <2>5 DEF TypeOK
<1>4. Safe(eeprom)
  BY <1>2 DEF Safe, Fresh
<1> QED BY <1>3, <1>4 DEF Init, IInv, Allocating

LEMMA AllocateStep ==
    ASSUME IInv, NEW when \in {"setup", "renew"}, Allocate(when), UNCHANGED <<eeprom, sampled>>
    PROVE  /\ next' \in BootRecord /\ written' \in 0 .. 3
           /\ phase' \in {when, "fatal"}
           /\ phase' = when => Writing'
           /\ Safe(eeprom)'
<1> USE DEF IInv, TypeOK
<1>1. Safe(eeprom)'
  BY DEF Safe, MayBoot, NextRecord, Fresh
<1>2. CASE ~MayBoot(eeprom)
  BY <1>1, <1>2 DEF Allocate
<1>3. CASE MayBoot(eeprom)
  <2>1. phase' = when /\ next' = NextRecord(eeprom) /\ written' = 0
    BY <1>3 DEF Allocate
  <2>2. Fresh(next'.counter)
    BY <1>3, <2>1 DEF Safe
  <2>3. sampled # <<>> => eeprom # Erased
    <3>1. ASSUME sampled # <<>>, eeprom = Erased PROVE FALSE
      <4>1. next'.counter = 1
        BY <2>1, <3>1 DEF NextRecord
      <4>2. 1 \in 1 .. Len(sampled)
        BY <3>1
      <4> QED BY <2>2, <4>1, <4>2, SampledSegments DEF Fresh
    <3> QED BY <3>1
  <2>4. Writing'
    BY <1>3, <2>1, <2>2, <2>3, NextRecordType DEF Writing, Fresh
  <2> QED BY <1>1, <2>1, <2>4, <1>3, NextRecordType
<1> QED BY <1>2, <1>3

LEMMA PowerOnStep == ASSUME IInv, PowerOn PROVE IInv'
<1>1. Allocate("setup") /\ UNCHANGED <<eeprom, sampled>>
  BY DEF PowerOn
<1>2. /\ next' \in BootRecord /\ written' \in 0 .. 3 /\ phase' \in {"setup", "fatal"}
      /\ phase' = "setup" => Writing'
      /\ Safe(eeprom)'
  BY <1>1, AllocateStep
<1>3. TypeOK'
  <2>1. TypeOK /\ 0 \in Word
    BY DEF IInv, Word
  <2> QED BY <1>2, <2>1 DEF PowerOn, broker, TypeOK
<1> QED BY <1>2, <1>3 DEF IInv, Allocating

LEMMA PutWordStep == ASSUME IInv, PutWord PROVE IInv'
<1> USE DEF IInv
<1>1. TypeOK /\ Writing /\ written \in {0, 1, 2} /\ written' = written + 1
  BY DEF PutWord, TypeOK
<1>2. /\ UNCHANGED <<phase, next, boot, sequence, lastSample, epoch,
                     uptime, online, session, status, raw, sampled>>
      /\ phase \in {"setup", "renew"}
  BY DEF PutWord, broker, Allocating
<1>3. \/ eeprom' = eeprom
      \/ written = 0 /\ eeprom' = [eeprom EXCEPT !.magic = next.magic]
      \/ written = 1 /\ eeprom' = [eeprom EXCEPT !.counter = next.counter]
      \/ written = 2 /\ eeprom' = [eeprom EXCEPT !.inverse = next.inverse]
  BY <1>1 DEF PutWord, Field
<1>4. eeprom' \in BootRecord
  BY <1>1, <1>3 DEF TypeOK, BootRecord
<1>5. TypeOK'
  BY <1>1, <1>2, <1>4 DEF TypeOK
<1>6. Writing'
  <2>1. Fresh(next.counter)'
    BY <1>1, <1>2 DEF Writing, Fresh
  <2> QED BY SMTT(30), <1>1, <1>2, <1>3, <2>1 DEF Writing, TypeOK, BootRecord, Complement
<1>7. (TypeOK /\ Writing => Safe(eeprom))'
  BY WritingIsSafe, PTL
<1> QED BY <1>2, <1>5, <1>6, <1>7 DEF Allocating

LEMMA PowerCutStep == ASSUME IInv, PowerCut PROVE IInv'
<1>1. /\ phase' = "off" /\ online' = FALSE
      /\ UNCHANGED <<next, written, boot, sequence, lastSample, epoch,
                     uptime, status, raw, sampled>>
  BY DEF PowerCut
<1>2. session' \in Session \cup {None}
  BY SessionStops DEF PowerCut, IInv, TypeOK
<1>3. Safe(eeprom') /\ eeprom' \in BootRecord
  <2>1. CASE UNCHANGED eeprom
    BY <2>1 DEF IInv, TypeOK
  <2>2. ASSUME Allocating, written < 3, NEW w \in Word,
               eeprom' = [eeprom EXCEPT ![Field[written + 1]] = w]
        PROVE  Safe(eeprom') /\ eeprom' \in BootRecord
    <3>1. Safe(eeprom')
      BY <2>2, TornIsSafe DEF IInv
    <3>2. eeprom' \in BootRecord
      BY <2>2 DEF IInv, TypeOK, BootRecord, Field
    <3> QED BY <3>1, <3>2
  <2> QED BY <2>1, <2>2 DEF PowerCut
<1>4. TypeOK'
  BY <1>1, <1>2, <1>3 DEF IInv, TypeOK
<1>5. Safe(eeprom)'
  BY <1>1, <1>3 DEF Safe, Fresh, MayBoot, NextRecord
<1> QED BY <1>1, <1>4, <1>5 DEF IInv, Allocating

LEMMA SampleStep == ASSUME IInv, Sample PROVE IInv'
<1>0. TypeOK /\ Safe(eeprom) /\ Numbering
  BY DEF Sample, IInv
<1>1. PICK periods \in 1 .. Clock :
          /\ lastSample' = (lastSample + periods * Period) % Clock
          /\ \/ /\ Fits(periods)
                /\ sequence' = sequence + periods
                /\ Generate(<<boot, sequence + periods - 1>>)
                /\ UNCHANGED <<phase, next, written>>
             \/ /\ ~Fits(periods)
                /\ Allocate("renew")
                /\ UNCHANGED <<sequence, online, session, sampled>>
  BY DEF Sample
<1>2. UNCHANGED <<eeprom, boot, epoch, uptime, status, raw>> /\ phase = "running"
  BY DEF Sample
<1>3. lastSample' \in 0 .. Clock - 1
  <2>1. lastSample + periods * Period \in Int
    BY <1>0 DEF TypeOK
  <2> QED BY <1>1, <2>1, ElapsedInRange
<1>4. CASE Fits(periods)
  <2> DEFINE s == <<boot, sequence + periods - 1>>
  <2>1. sequence' = sequence + periods /\ Generate(s) /\ UNCHANGED <<phase, next, written>>
    BY <1>1, <1>4
  <2>2. s \in Segment /\ sequence' \in Word
    BY <1>0, <1>4, <2>1 DEF Fits, TypeOK, Numbering, Segment, Word
  <2>3. /\ online' \in BOOLEAN /\ session' \in Session \cup {None}
        /\ sampled' \in Seq(Segment)
        /\ Len(sampled') = Len(sampled) + 1 /\ sampled'[Len(sampled')] = s
        /\ \A i \in 1 .. Len(sampled) : sampled'[i] = sampled[i]
    BY <1>0, <2>1, <2>2, GenerateType
  <2>4. TypeOK'
    BY <1>0, <1>2, <1>3, <2>1, <2>2, <2>3 DEF TypeOK
  <2>5. Numbering'
    <3>1. ASSUME NEW i \in 1 .. Len(sampled')
          PROVE  \/ sampled'[i][1] < boot
                 \/ sampled'[i][1] = boot /\ sampled'[i][2] < sequence'
      <4>1. CASE i = Len(sampled')
        BY <1>0, <2>1, <2>3, <4>1 DEF TypeOK, Word
      <4>2. CASE i # Len(sampled')
        <5>1. i \in 1 .. Len(sampled) /\ sampled'[i] = sampled[i]
          BY <1>0, <2>3, <4>2 DEF TypeOK
        <5> QED BY <1>0, <2>1, <5>1, SampledSegments DEF Numbering, TypeOK, Word
      <4> QED BY <4>1, <4>2
    <3> QED BY <1>0, <1>2, <3>1 DEF Numbering, Complement
  <2>6. (TypeOK /\ Numbering => Safe(eeprom))'
    BY NumberingIsSafe, PTL
  <2> QED BY <1>2, <2>1, <2>4, <2>5, <2>6 DEF IInv, Allocating
<1>5. CASE ~Fits(periods)
  <2>1. Allocate("renew") /\ UNCHANGED <<sequence, online, session, sampled>>
    BY <1>1, <1>5
  <2>2. /\ next' \in BootRecord /\ written' \in 0 .. 3
        /\ phase' \in {"renew", "fatal"}
        /\ phase' = "renew" => Writing'
        /\ Safe(eeprom)'
    BY <1>2, <2>1, AllocateStep
  <2>3. TypeOK'
    BY <1>0, <1>2, <1>3, <2>1, <2>2 DEF TypeOK
  <2> QED BY <2>2, <2>3 DEF IInv, Allocating
<1> QED BY <1>4, <1>5

LEMMA VerifyStep == ASSUME IInv, Verify PROVE IInv'
<1>0. TypeOK /\ Safe(eeprom) /\ Writing
  BY DEF Verify, IInv
<1>1. UNCHANGED <<next, written, eeprom, uptime, status, raw>>
  BY DEF Verify
<1>2. CASE eeprom # next
  <2>1. phase' = "fatal" /\ UNCHANGED <<boot, sequence, lastSample, epoch, online, session, sampled>>
    BY <1>2 DEF Verify
  <2>2. TypeOK' /\ Safe(eeprom)'
    BY <1>0, <1>1, <2>1 DEF TypeOK, Safe, Fresh, MayBoot, NextRecord
  <2> QED BY <2>1, <2>2 DEF IInv, Allocating
<1>3. CASE eeprom = next
  <2>1. phase' = "running" /\ boot' = next.counter /\ boot' \in 1 .. MaxUint32
    BY <1>0, <1>3 DEF Verify, Writing
  <2>2. /\ eeprom'.magic = BootMagic /\ eeprom'.counter = boot'
        /\ eeprom'.inverse = Complement(boot')
    BY <1>0, <1>1, <1>3, <2>1 DEF Writing
  <2>3. TypeOK' /\ Numbering'
    <3>1. CASE phase = "setup"
      <4>1. /\ sequence' = 0 /\ epoch' = uptime + Period
            /\ lastSample' = uptime % Clock /\ UNCHANGED <<online, session, sampled>>
        BY <1>3, <3>1 DEF Verify, millis
      <4>2. lastSample' \in 0 .. Clock - 1 /\ sequence' \in Word /\ boot' \in Word
            /\ epoch' \in Int
        <5>1. uptime \in Int /\ epoch' \in Int
          BY <1>0, <4>1 DEF TypeOK
        <5>2. lastSample' \in 0 .. Clock - 1
          BY <4>1, <5>1, ElapsedInRange
        <5> QED BY <2>1, <4>1, <5>1, <5>2 DEF Word
      <4>3. TypeOK'
        BY <1>0, <1>1, <2>1, <4>1, <4>2 DEF TypeOK
      <4> QED BY <1>0, <2>1, <2>2, <4>1, <4>3 DEF Numbering, Writing, Fresh, Complement
    <3>2. CASE phase = "renew"
      <4> DEFINE s == <<next.counter, 0>>
      <4>1. /\ sequence' = 1 /\ epoch' = uptime - (((uptime % Clock) - lastSample) % Clock)
            /\ Generate(s) /\ UNCHANGED lastSample
        BY <1>3, <3>2 DEF Verify, millis
      <4>2. s \in Segment /\ sequence' \in Word /\ boot' \in Word
        BY <1>0, <2>1, <4>1 DEF Segment, Word
      <4>3. epoch' \in Int
        <5>1. uptime % Clock \in Int
          BY <1>0, ElapsedInRange DEF TypeOK
        <5>2. ((uptime % Clock) - lastSample) % Clock \in Int
          BY <1>0, <5>1, ElapsedInRange DEF TypeOK
        <5> QED BY <1>0, <4>1, <5>2 DEF TypeOK
      <4>4. /\ online' \in BOOLEAN /\ session' \in Session \cup {None}
            /\ sampled' \in Seq(Segment)
            /\ Len(sampled') = Len(sampled) + 1 /\ sampled'[Len(sampled')] = s
            /\ \A i \in 1 .. Len(sampled) : sampled'[i] = sampled[i]
        BY <1>0, <4>1, <4>2, GenerateType
      <4>5. TypeOK'
        BY <1>0, <1>1, <2>1, <4>1, <4>2, <4>3, <4>4 DEF TypeOK
      <4>6. ASSUME NEW i \in 1 .. Len(sampled')
            PROVE  \/ sampled'[i][1] < boot'
                   \/ sampled'[i][1] = boot' /\ sampled'[i][2] < sequence'
        <5>1. CASE i = Len(sampled')
          BY <2>1, <4>1, <4>4, <5>1
        <5>2. CASE i # Len(sampled')
          <6>1. i \in 1 .. Len(sampled) /\ sampled'[i] = sampled[i]
            BY <1>0, <4>4, <5>2 DEF TypeOK
          <6> QED BY <1>0, <2>1, <6>1 DEF Writing, Fresh
        <5> QED BY <5>1, <5>2
      <4> QED BY <2>1, <2>2, <4>5, <4>6 DEF Numbering, Complement
    <3> QED BY <3>1, <3>2 DEF Verify, Allocating
  <2>4. (TypeOK /\ Numbering => Safe(eeprom))'
    BY NumberingIsSafe, PTL
  <2> QED BY <2>1, <2>3, <2>4 DEF IInv, Allocating
<1> QED BY <1>2, <1>3

\* Steps that leave the record, the numbers and the clock's marks alone.
LEMMA NetworkStep ==
    ASSUME IInv, UNCHANGED <<memory, eeprom, sampled>>, uptime' \in Nat,
           online' \in BOOLEAN, session' \in Session \cup {None},
           status' \in {"online", "offline"}, raw' \in Seq(Segment)
    PROVE  IInv'
<1>1. UNCHANGED <<phase, next, written, boot, sequence, lastSample, epoch, eeprom, sampled>>
  BY DEF memory
<1>2. TypeOK'
  BY <1>1 DEF IInv, TypeOK
<1>3. Safe(eeprom)' /\ Allocating' = Allocating
  BY <1>1 DEF IInv, Safe, Fresh, MayBoot, NextRecord, Allocating
<1>4. (Allocating => Writing') /\ (phase = "running" => Numbering')
  BY <1>1 DEF IInv, Writing, Fresh, Numbering
<1> QED BY <1>1, <1>2, <1>3, <1>4 DEF IInv

LEMMA InvStep == IInv /\ [Next]_vars => IInv'
<1> SUFFICES ASSUME IInv, [Next]_vars PROVE IInv'
  OBVIOUS
<1>0. TypeOK
  BY DEF IInv
<1>1. CASE PowerOn
  BY <1>1, PowerOnStep
<1>2. CASE PutWord
  BY <1>2, PutWordStep
<1>3. CASE PowerCut
  BY <1>3, PowerCutStep
<1>4. CASE Sample
  BY <1>4, SampleStep
<1>5. CASE Verify
  BY <1>5, VerifyStep
<1>6. CASE Tick
  <2>1. uptime' \in Nat /\ UNCHANGED <<memory, eeprom, online, session, status, raw, sampled>>
    BY <1>0, <1>6 DEF Tick, broker, TypeOK
  <2> QED BY <1>0, <2>1, NetworkStep DEF TypeOK
<1>7. CASE Connect
  <2>1. UNCHANGED <<memory, eeprom, uptime, raw, sampled>> /\ status' = Will
    BY <1>7 DEF Connect
  <2>2. status' \in {"online", "offline"}
    BY <1>0, <2>1 DEF Will, TypeOK
  <2>3. online' \in BOOLEAN /\ session' \in Session
    <3>1. ASSUME NEW g \in {"none", "unread"}, NEW o \in BOOLEAN
          PROVE  [greeting |-> g, unread |-> <<>>, open |-> o] \in Session
      BY DEF Session
    <3> QED BY <1>0, <1>7, <3>1 DEF Connect, TypeOK
  <2> QED BY <1>0, <2>1, <2>2, <2>3, NetworkStep DEF TypeOK
<1>8. CASE Disconnect
  <2>1. UNCHANGED <<memory, eeprom, uptime, status, raw, sampled>> /\ online' = FALSE
    BY <1>8 DEF Disconnect
  <2>2. session' \in Session \cup {None}
    BY <1>0, <1>8, SessionStops DEF Disconnect, TypeOK
  <2> QED BY <1>0, <2>1, <2>2, NetworkStep DEF TypeOK
<1>9. CASE ReadGreeting
  <2>1. UNCHANGED <<memory, eeprom, uptime, online, raw, sampled>> /\ status' = "online"
    BY <1>9 DEF ReadGreeting
  <2>2. session' \in Session
    BY <1>0, <1>9 DEF ReadGreeting, TypeOK, Session
  <2> QED BY <1>0, <2>1, <2>2, NetworkStep DEF TypeOK
<1>10. CASE ReadSample
  <2>1. UNCHANGED <<memory, eeprom, uptime, online, status, sampled>>
    BY <1>10 DEF ReadSample
  <2>2. session \in Session /\ session.unread \in Seq(Segment) /\ session.unread # <<>>
    BY <1>0, <1>10 DEF ReadSample, TypeOK, Session
  <2>3. Head(session.unread) \in Segment /\ Tail(session.unread) \in Seq(Segment)
    BY <2>2
  <2>4. session' \in Session
    <3>1. session' = [session EXCEPT !.unread = Tail(session.unread)]
      BY <1>10 DEF ReadSample
    <3> QED BY <2>2, <2>3, <3>1 DEF Session
  <2>5. raw' \in Seq(Segment)
    <3>1. raw' = Append(raw, Head(session.unread)) /\ raw \in Seq(Segment)
      BY <1>0, <1>10 DEF ReadSample, TypeOK
    <3> QED BY <2>3, <3>1
  <2> QED BY <1>0, <2>1, <2>4, <2>5, NetworkStep DEF TypeOK
<1>11. CASE EndSession
  <2>1. /\ UNCHANGED <<memory, eeprom, uptime, online, raw, sampled>>
        /\ session' = None /\ status' = "offline"
    BY <1>11 DEF EndSession, Will
  <2> QED BY <1>0, <2>1, NetworkStep DEF TypeOK
<1>12. CASE UNCHANGED vars
  <2>1. UNCHANGED <<memory, eeprom, uptime, online, session, status, raw, sampled>>
    BY <1>12 DEF vars, broker
  <2> QED BY <1>0, <2>1, NetworkStep DEF TypeOK
<1> QED BY <1>1, <1>2, <1>3, <1>4, <1>5, <1>6, <1>7, <1>8, <1>9, <1>10, <1>11, <1>12
        DEF Next
-----------------------------------------------------------------------------
(* Theorems *)

\* Type correctness of main.cpp's variables: no boot count, sequence number or
\* clock mark leaves its 32 bits, in runs of any length.
THEOREM NodeTypeCorrect == Spec => []TypeOK
<1>1. IInv => TypeOK
  BY DEF IInv
<1> QED BY InvInit, InvStep, <1>1, PTL DEF Spec

\* allocate_boot and generate_sample: wherever power is cut, a record that
\* next_boot accepts leads to a boot count no sample has carried.
THEOREM NextBootIsFresh == Spec => []Safe(eeprom)
<1>1. IInv => Safe(eeprom)
  BY DEF IInv
<1> QED BY InvInit, InvStep, <1>1, PTL DEF Spec

\* What generate_sample takes is above all it took before, and due by the clock.
LEMMA NewSample ==
    ASSUME IInv, [Next]_vars, sampled' # sampled
    PROVE  \E s \in Segment :
              /\ \A i \in 1 .. Len(sampled) : Below(sampled[i], s)
              /\ Generate(s) /\ sampled' = Append(sampled, s) /\ UNCHANGED <<raw, status>>
<1>0. TypeOK
  BY DEF IInv
<1>1. CASE Sample
  <2>0. Numbering
    BY <1>1 DEF Sample, IInv
  <2>1. PICK periods \in 1 .. Clock :
            Fits(periods) /\ Generate(<<boot, sequence + periods - 1>>)
    BY <1>1 DEF Sample
  <2> DEFINE s == <<boot, sequence + periods - 1>>
  <2>2. s \in Segment /\ s[1] = boot /\ s[2] >= sequence
    BY <1>0, <2>0, <2>1 DEF Fits, TypeOK, Numbering, Segment, Word
  <2>3. \A i \in 1 .. Len(sampled) : Below(sampled[i], s)
    BY <1>0, <2>0, <2>1, <2>2, SampledSegments DEF Numbering, Below, TypeOK, Word
  <2>4. Generate(s) /\ sampled' = Append(sampled, s) /\ UNCHANGED <<raw, status>>
    BY <1>1, <2>1 DEF Generate, Sample
  <2> HIDE DEF s
  <2> QED BY <2>2, <2>3, <2>4
<1>2. CASE Verify
  <2>0. Writing
    BY <1>2 DEF Verify, IInv
  <2> DEFINE s == <<next.counter, 0>>
  <2>1. Generate(s) /\ sampled' = Append(sampled, s) /\ UNCHANGED <<raw, status>>
    BY <1>2 DEF Verify, Generate
  <2>2. s \in Segment
    BY <2>0 DEF Writing, Segment
  <2>3. \A i \in 1 .. Len(sampled) : Below(sampled[i], s)
    BY <2>0 DEF Writing, Fresh, Below
  <2> HIDE DEF s
  <2> QED BY <2>1, <2>2, <2>3
<1>3. CASE PowerOn \/ PutWord \/ PowerCut \/ Tick
  BY <1>3 DEF PowerOn, PutWord, PowerCut, Tick
<1>4. CASE Connect \/ Disconnect \/ ReadGreeting \/ ReadSample \/ EndSession
  BY <1>4 DEF Connect, Disconnect, ReadGreeting, ReadSample, EndSession
<1>5. CASE UNCHANGED vars
  BY <1>5 DEF vars
<1> QED BY <1>1, <1>2, <1>3, <1>4, <1>5 DEF Next

\* It is a step of the source the gate relies on.
LEMMA StepMapsToSource == IInv /\ [Next]_vars => [Source!Next]_sampled
BY NewSample DEF Source!Next, Source!Accept, Source!Segment, Segment, Source!Below, Below

\* generate_sample numbers samples as the gate expects: whatever happens to the
\* record, the clock and the connection, the samples are strictly increasing.
THEOREM SourceImplementation == Spec => ImplementsSource
<1>1. Init => Source!Init
  BY DEF Init, Source!Init
<1> QED BY InvInit, InvStep, <1>1, StepMapsToSource, PTL DEF Spec, ImplementsSource, Source!Spec
-----------------------------------------------------------------------------
(* What subscribers see *)

Increasing(q) == \A i, j \in 1 .. Len(q) : i < j => Below(q[i], q[j])

\* The samples read, r, are below those on their way, q; all are of those taken, s.
InOrder(r, q, s) ==
    /\ Increasing(r) /\ Increasing(q)
    /\ \A i \in 1 .. Len(r) : \E k \in 1 .. Len(s) : r[i] = s[k]
    /\ \A j \in 1 .. Len(q) : \E k \in 1 .. Len(s) : q[j] = s[k]
    /\ \A i \in 1 .. Len(r), j \in 1 .. Len(q) : Below(r[i], q[j])

Unread == IF session = None THEN <<>> ELSE session.unread

\* ONLINE goes first on a connection the device uses, and stays until it ends.
Greeted ==
    session # None =>
        /\ session.greeting = "none" => session.unread = <<>> /\ ~session.open
        /\ session.greeting = "read" => status = "online"

Delivery == InOrder(raw, Unread, sampled) /\ Greeted

LEMMA OrderDropped ==
    ASSUME NEW r \in Seq(Segment), NEW q \in Seq(Segment), NEW s \in Seq(Segment),
           InOrder(r, q, s)
    PROVE  InOrder(r, <<>>, s)
BY DEF InOrder, Increasing

\* A new sample may be sent after those on their way, or not at all.
LEMMA OrderSent ==
    ASSUME NEW r \in Seq(Segment), NEW q \in Seq(Segment), NEW s \in Seq(Segment),
           NEW x \in Segment, InOrder(r, q, s), \A k \in 1 .. Len(s) : Below(s[k], x)
    PROVE  InOrder(r, q, Append(s, x)) /\ InOrder(r, Append(q, x), Append(s, x))
<1> DEFINE t == Append(s, x)
           p == Append(q, x)
<1>1. /\ Len(t) = Len(s) + 1 /\ t[Len(t)] = x
      /\ \A k \in 1 .. Len(s) : k \in 1 .. Len(t) /\ t[k] = s[k]
  OBVIOUS
<1>2. /\ Len(p) = Len(q) + 1 /\ p[Len(p)] = x
      /\ \A k \in 1 .. Len(q) : k \in 1 .. Len(p) /\ p[k] = q[k]
      /\ \A k \in 1 .. Len(p) : k = Len(p) \/ k \in 1 .. Len(q)
  OBVIOUS
<1>3. Len(t) \in 1 .. Len(t) /\ Len(q) \in Nat
  BY <1>1
<1> HIDE DEF t, p
<1>4. /\ \A i \in 1 .. Len(r) : \E k \in 1 .. Len(t) : r[i] = t[k]
      /\ \A j \in 1 .. Len(q) : \E k \in 1 .. Len(t) : q[j] = t[k]
      /\ \A i \in 1 .. Len(r) : Below(r[i], x)
      /\ \A j \in 1 .. Len(q) : Below(q[j], x)
  <2>1. \A i \in 1 .. Len(r) : \E k \in 1 .. Len(s) : r[i] = s[k]
    BY DEF InOrder
  <2>2. \A j \in 1 .. Len(q) : \E k \in 1 .. Len(s) : q[j] = s[k]
    BY DEF InOrder
  <2> QED BY <1>1, <2>1, <2>2
<1>5. InOrder(r, q, t)
  BY <1>4 DEF InOrder
<1>6. \A j \in 1 .. Len(p) : \E k \in 1 .. Len(t) : p[j] = t[k]
  BY <1>1, <1>2, <1>3, <1>4
<1>7. Increasing(p)
  <2> SUFFICES ASSUME NEW i \in 1 .. Len(p), NEW j \in 1 .. Len(p), i < j
               PROVE  Below(p[i], p[j])
    BY DEF Increasing
  <2>1. i \in 1 .. Len(q) /\ p[i] = q[i]
    BY <1>2, <1>3
  <2>2. CASE j = Len(p)
    BY <1>2, <1>4, <2>1, <2>2
  <2>3. CASE j \in 1 .. Len(q)
    BY <1>2, <2>1, <2>3 DEF InOrder, Increasing
  <2> QED BY <1>2, <2>2, <2>3
<1>8. \A i \in 1 .. Len(r), j \in 1 .. Len(p) : Below(r[i], p[j])
  BY <1>2, <1>4 DEF InOrder
<1> QED BY <1>4, <1>5, <1>6, <1>7, <1>8 DEF InOrder, t, p

\* The oldest of those on their way is read.
LEMMA OrderRead ==
    ASSUME NEW r \in Seq(Segment), NEW q \in Seq(Segment), NEW s \in Seq(Segment),
           InOrder(r, q, s), q # <<>>
    PROVE  InOrder(Append(r, Head(q)), Tail(q), s)
<1> DEFINE x == Head(q)
           t == Append(r, x)
           p == Tail(q)
<1>1. /\ x = q[1] /\ 1 \in 1 .. Len(q) /\ Len(p) = Len(q) - 1
      /\ \A j \in 1 .. Len(p) : j + 1 \in 1 .. Len(q) /\ p[j] = q[j + 1]
  OBVIOUS
<1>2. /\ Len(t) = Len(r) + 1 /\ t[Len(t)] = x /\ Len(r) \in Nat
      /\ \A i \in 1 .. Len(r) : t[i] = r[i]
      /\ \A i \in 1 .. Len(t) : i = Len(t) \/ i \in 1 .. Len(r)
  BY <1>1
<1> HIDE DEF x, t, p
<1>3. Increasing(p)
  <2> SUFFICES ASSUME NEW i \in 1 .. Len(p), NEW j \in 1 .. Len(p), i < j
               PROVE  Below(p[i], p[j])
    BY DEF Increasing
  <2>1. /\ i + 1 \in 1 .. Len(q) /\ j + 1 \in 1 .. Len(q) /\ i + 1 < j + 1
        /\ p[i] = q[i + 1] /\ p[j] = q[j + 1]
    BY <1>1
  <2> QED BY <2>1 DEF InOrder, Increasing
<1>4. Increasing(t)
  <2> SUFFICES ASSUME NEW i \in 1 .. Len(t), NEW j \in 1 .. Len(t), i < j
               PROVE  Below(t[i], t[j])
    BY DEF Increasing
  <2>1. i \in 1 .. Len(r) /\ t[i] = r[i]
    BY <1>2
  <2>2. CASE j = Len(t)
    BY <1>1, <1>2, <2>1, <2>2 DEF InOrder
  <2>3. CASE j \in 1 .. Len(r)
    BY <1>2, <2>1, <2>3 DEF InOrder, Increasing
  <2> QED BY <1>2, <2>2, <2>3
<1>5. \A i \in 1 .. Len(t) : \E k \in 1 .. Len(s) : t[i] = s[k]
  BY <1>1, <1>2 DEF InOrder
<1>6. \A j \in 1 .. Len(p) : \E k \in 1 .. Len(s) : p[j] = s[k]
  BY <1>1 DEF InOrder
<1>7. \A i \in 1 .. Len(t), j \in 1 .. Len(p) : Below(t[i], p[j])
  <2> SUFFICES ASSUME NEW i \in 1 .. Len(t), NEW j \in 1 .. Len(p)
               PROVE  Below(t[i], p[j])
    OBVIOUS
  <2>1. j + 1 \in 1 .. Len(q) /\ p[j] = q[j + 1] /\ 1 < j + 1
    BY <1>1
  <2>2. CASE i = Len(t)
    BY <1>1, <1>2, <2>1, <2>2 DEF InOrder, Increasing
  <2>3. CASE i \in 1 .. Len(r)
    BY <1>2, <2>1, <2>3 DEF InOrder
  <2> QED BY <1>2, <2>2, <2>3
<1> QED BY <1>3, <1>4, <1>5, <1>6, <1>7 DEF InOrder, x, t, p

LEMMA UnreadType ==
    ASSUME TypeOK
    PROVE  /\ Unread \in Seq(Segment) /\ raw \in Seq(Segment) /\ sampled \in Seq(Segment)
           /\ session # None => session \in Session /\ session.open \in BOOLEAN
BY DEF TypeOK, Unread, Session

\* What a publish does to the session: the sample joins those on their way or
\* it does not, and the device may stop its end.
LEMMA Transmitted ==
    ASSUME TypeOK, Greeted, NEW s \in Segment, Transmit(s), UNCHANGED status
    PROVE  Greeted' /\ (Unread' = Unread \/ Unread' = Append(Unread, s))
<1>1. CASE session = None
  BY <1>1 DEF Transmit, Greeted, Unread
<1>2. CASE session # None
  <2> DEFINE sent == IF session.open THEN [session EXCEPT !.unread = Append(@, s)] ELSE session
  <2>1. session \in Session
    BY <1>2, UnreadType
  <2>2. /\ sent.greeting = session.greeting /\ sent.open = session.open
        /\ sent.unread = session.unread \/ (session.open /\ sent.unread = Append(session.unread, s))
        /\ sent \in Session
    <3>1. CASE session.open
      BY <2>1, <3>1, SessionSends DEF Session
    <3>2. CASE ~session.open
      BY <2>1, <3>2
    <3> QED BY <3>1, <3>2
  <2>3. \E r \in {session, sent} : session' = r \/ session' = [r EXCEPT !.open = FALSE]
    <3>1. None \notin {session, sent}
      BY <2>1, <2>2, NoneAssumption
    <3> QED BY <1>2, <3>1 DEF Transmit
  <2> HIDE DEF sent
  <2>5. \A r \in Session : /\ [r EXCEPT !.open = FALSE].greeting = r.greeting
                           /\ [r EXCEPT !.open = FALSE].unread = r.unread
                           /\ ~[r EXCEPT !.open = FALSE].open
                           /\ [r EXCEPT !.open = FALSE] # None
    <3>1. \A r \in Session : [r EXCEPT !.open = FALSE] # None
      BY SessionStops, NoneAssumption
    <3> QED BY <3>1 DEF Session
  <2>4. /\ session'.greeting = session.greeting /\ (~session.open => ~session'.open)
        /\ session'.unread = session.unread
             \/ (session.open /\ session'.unread = Append(session.unread, s))
        /\ session' # None
    BY <2>1, <2>2, <2>3, <2>5, NoneAssumption
  <2> QED BY <1>2, <2>4 DEF Greeted, Unread
<1> QED BY <1>1, <1>2

\* The end of a session, or of the device's side of it.
LEMMA Stopped ==
    ASSUME TypeOK, Greeted, UNCHANGED status,
           session' = IF session = None THEN None ELSE [session EXCEPT !.open = FALSE]
    PROVE  Greeted' /\ Unread' = Unread
<1>1. CASE session = None
  BY <1>1 DEF Greeted, Unread
<1>2. CASE session # None
  <2>1. session \in Session
    BY <1>2, UnreadType
  <2>2. session' # None
    BY <1>2, <2>1, SessionStops, NoneAssumption
  <2>3. session'.greeting = session.greeting /\ session'.unread = session.unread
        /\ ~session'.open
    BY <1>2, <2>1 DEF Session
  <2> QED BY <1>2, <2>2, <2>3 DEF Greeted, Unread
<1> QED BY <1>1, <1>2

LEMMA DeliveryStep == ASSUME IInv, Delivery, [Next]_vars PROVE Delivery'
<1>0. TypeOK /\ Greeted /\ InOrder(raw, Unread, sampled)
  BY DEF IInv, Delivery
<1>1. SUFFICES InOrder(raw', Unread', sampled') /\ Greeted'
  BY DEF Delivery, InOrder, Increasing
<1>2. /\ Unread \in Seq(Segment) /\ raw \in Seq(Segment) /\ sampled \in Seq(Segment)
      /\ InOrder(raw, <<>>, sampled)
  BY <1>0, UnreadType, OrderDropped
<1>3. CASE sampled' # sampled
  <2>1. PICK s \in Segment :
              /\ \A i \in 1 .. Len(sampled) : Below(sampled[i], s)
              /\ Generate(s) /\ sampled' = Append(sampled, s) /\ UNCHANGED <<raw, status>>
    BY <1>3, NewSample
  <2>2. Greeted' /\ (Unread' = Unread \/ Unread' = Append(Unread, s))
    BY <1>0, <2>1, Transmitted DEF Generate
  <2> QED BY <1>0, <1>2, <2>1, <2>2, OrderSent
<1>4. CASE sampled' = sampled /\ raw' = raw
  <2>1. CASE Unread' = Unread /\ Greeted'
    BY <1>0, <1>4, <2>1
  <2>2. CASE Unread' = <<>> /\ Greeted'
    BY <1>2, <1>4, <2>2
  <2>3. UNCHANGED <<session, status>> => Unread' = Unread /\ Greeted'
    BY <1>0 DEF Unread, Greeted
  <2>4. CASE Sample \/ Verify
    <3>1. UNCHANGED <<session, status>>
      <4>1. ASSUME NEW s, Generate(s) PROVE FALSE
        <5>1. sampled = Append(sampled, s) /\ Len(Append(sampled, s)) = Len(sampled) + 1
              /\ Len(sampled) \in Nat
          BY <1>2, <1>4, <4>1 DEF Generate
        <5> QED BY <5>1
      <4> QED BY <2>4, <4>1 DEF Sample, Verify
    <3> QED BY <2>1, <2>3, <3>1
  <2>5. CASE PowerOn \/ PutWord \/ Tick \/ UNCHANGED vars
    <3>1. UNCHANGED <<session, status>>
      BY <2>5 DEF PowerOn, PutWord, Tick, vars, broker
    <3> QED BY <2>1, <2>3, <3>1
  <2>6. CASE PowerCut \/ Disconnect
    <3>1. UNCHANGED status
          /\ session' = IF session = None THEN None ELSE [session EXCEPT !.open = FALSE]
      BY <2>6 DEF PowerCut, Disconnect
    <3> QED BY <1>0, <2>1, <3>1, Stopped
  <2>7. CASE Connect
    <3>1. \E g \in {"none", "unread"}, o \in BOOLEAN :
             /\ session' = [greeting |-> g, unread |-> <<>>, open |-> o]
             /\ g = "none" => ~o
      BY <2>7 DEF Connect
    <3> QED BY <2>2, <3>1 DEF Unread, Greeted
  <2>8. CASE ReadGreeting
    <3>1. session \in Session /\ session # None
          /\ session' = [session EXCEPT !.greeting = "read"] /\ status' = "online"
      BY <1>0, <2>8, UnreadType DEF ReadGreeting
    <3>2. /\ session'.greeting = "read" /\ session'.unread = session.unread
          /\ session' \in Session
      BY <3>1 DEF Session
    <3> QED BY <2>1, <3>1, <3>2, NoneAssumption DEF Unread, Greeted
  <2>9. CASE ReadSample
    <3>1. raw' = Append(raw, Head(session.unread))
      BY <2>9 DEF ReadSample
    <3>2. Len(Append(raw, Head(session.unread))) = Len(raw) + 1 /\ Len(raw) \in Nat
      BY <1>2
    <3> QED BY <1>4, <3>1, <3>2
  <2>10. CASE EndSession
    BY <2>2, <2>10 DEF EndSession, Unread, Greeted
  <2> QED BY <2>4, <2>5, <2>6, <2>7, <2>8, <2>9, <2>10 DEF Next
<1>5. CASE sampled' = sampled /\ raw' # raw
  <2>1. ReadSample
    BY <1>5 DEF Next, PowerOn, PutWord, PowerCut, Sample, Verify, Tick, Connect, Disconnect,
                ReadGreeting, EndSession, vars, broker
  <2>2. /\ session # None /\ session.greeting # "unread" /\ session.unread # <<>>
        /\ session' = [session EXCEPT !.unread = Tail(session.unread)]
        /\ raw' = Append(raw, Head(session.unread)) /\ UNCHANGED status
    BY <2>1 DEF ReadSample
  <2>3. session \in Session
    BY <2>2, <1>0, UnreadType
  <2>4. /\ session'.greeting = session.greeting /\ session'.unread = Tail(session.unread)
        /\ session' # None
    <3>1. Tail(session.unread) \in Seq(Segment)
      BY <2>2, <2>3 DEF Session
    <3>2. session' \in Session
      BY <2>2, <2>3, <3>1 DEF Session
    <3> QED BY <2>2, <2>3, <3>2, NoneAssumption DEF Session
  <2>5. Unread = session.unread /\ Unread' = Tail(Unread) /\ raw' = Append(raw, Head(Unread))
    BY <2>2, <2>4 DEF Unread
  <2>6. Greeted'
    <3>1. session.greeting = "read"
      BY <1>0, <2>2, <2>3 DEF Greeted, Session
    <3> QED BY <1>0, <2>2, <2>4, <3>1 DEF Greeted
  <2> QED BY <1>0, <1>2, <1>5, <2>2, <2>5, <2>6, OrderRead
<1> QED BY <1>3, <1>4, <1>5

LEMMA DeliveryHolds == Spec => [](IInv /\ Delivery)
<1>1. Init => Delivery
  BY DEF Init, Delivery, Greeted, Unread, InOrder, Increasing
<1>2. IInv /\ Delivery /\ [Next]_vars => (IInv /\ Delivery)'
  BY InvStep, DeliveryStep
<1> QED BY InvInit, <1>1, <1>2, PTL DEF Spec

\* network_task and the broker: subscribers of the raw topic get the samples in
\* their order and none twice, through any number of reconnects, takeovers and
\* publishes that failed after they were sent.
THEOREM OrderedDelivery == Spec => []RawInOrder
<1>1. Delivery => RawInOrder
  BY DEF Delivery, InOrder, Increasing, RawInOrder
<1> QED BY <1>1, DeliveryHolds, PTL

\* network_task publishes ONLINE before any sample and has OFFLINE as its will: a
\* sample reaches subscribers only while the retained status is online.
THEOREM OnlineSamples == Spec => SamplesWhileOnline
<1>1. IInv /\ Delivery /\ [Next]_vars => (raw' # raw => status = "online")
  <2> SUFFICES ASSUME IInv, Delivery, [Next]_vars, raw' # raw PROVE status = "online"
    OBVIOUS
  <2>1. ReadSample
    BY DEF Next, PowerOn, PutWord, PowerCut, Sample, Verify, Tick, Connect, Disconnect,
           ReadGreeting, EndSession, vars, broker
  <2>2. session # None /\ session \in Session
    BY <2>1, UnreadType DEF ReadSample, IInv
  <2> QED BY <2>1, <2>2 DEF ReadSample, Delivery, Greeted, Session
<1>2. Spec => [][raw' # raw => status = "online"]_vars
  BY <1>1, DeliveryHolds, PTL DEF Spec
<1> QED BY <1>2, PTL DEF SamplesWhileOnline
-----------------------------------------------------------------------------
(* The clock *)

Elapsed == (millis - lastSample) % Clock

\* The last sample that was due lies a number of periods after the first of
\* this boot_id, and the clock has not turned since.
Schedule ==
    /\ phase = "running" => uptime - Elapsed = epoch + (sequence - 1) * Period
    /\ phase = "renew" => Elapsed < Period

LEMMA Mod ==
    ASSUME NEW a \in Int
    PROVE  /\ a % Clock \in 0 .. Clock - 1
           /\ a \in 0 .. Clock - 1 => a % Clock = a
           /\ a \in -Clock .. -1 => a % Clock = a + Clock
           /\ a \in Clock .. 2 * Clock - 1 => a % Clock = a - Clock
OBVIOUS

\* What is between two readings of the clock that are less than a turn apart.
LEMMA Between ==
    ASSUME NEW m \in 0 .. Clock - 1, NEW l \in 0 .. Clock - 1
    PROVE  (m - l) % Clock = IF m >= l THEN m - l ELSE m - l + Clock
<1>1. m - l \in Int
  OBVIOUS
<1>2. CASE m >= l
  <2>1. m - l \in 0 .. Clock - 1
    BY <1>2
  <2> QED BY <1>1, <1>2, <2>1, Mod
<1>3. CASE ~(m >= l)
  <2>1. m - l \in -Clock .. -1
    BY <1>3
  <2> QED BY <1>1, <1>3, <2>1, Mod
<1> QED BY <1>2, <1>3

LEMMA NextMillis ==
    ASSUME NEW u \in Nat
    PROVE  (u + 1) % Clock = IF u % Clock = Clock - 1 THEN 0 ELSE (u % Clock) + 1
<1> DEFINE m == u % Clock
           n == (u + 1) % Clock
           q == u \div Clock
           r == (u + 1) \div Clock
<1>1. /\ m \in 0 .. Clock - 1 /\ n \in 0 .. Clock - 1 /\ q \in Int /\ r \in Int
      /\ u = Clock * q + m /\ u + 1 = Clock * r + n
  OBVIOUS
<1> HIDE DEF m, n, q, r
<1>2. PICK d \in Int : d = r - q
  BY <1>1
<1>3. Clock * d = m + 1 - n
  <2>1. Clock * (r - q) = Clock * r - Clock * q
    BY <1>1
  <2>2. Clock * r \in Int /\ Clock * q \in Int
    BY <1>1
  <2> QED BY <1>1, <1>2, <2>1, <2>2
<1>4. d \in {0, 1}
  <2>1. d >= 2 => Clock * d >= Clock * 2
    BY <1>2
  <2>2. d <= -1 => Clock * d <= -Clock
    BY <1>2
  <2> QED BY <1>1, <1>2, <1>3, <2>1, <2>2
<1>5. Clock * 0 = 0 /\ Clock * 1 = Clock
  OBVIOUS
<1> QED BY <1>1, <1>3, <1>4, <1>5 DEF m, n

\* A tick adds one to what has elapsed, unless the clock has turned.
LEMMA OneMore ==
    ASSUME NEW u \in Nat, NEW l \in 0 .. Clock - 1, ((u % Clock) - l) % Clock # Clock - 1
    PROVE  (((u + 1) % Clock) - l) % Clock = (((u % Clock) - l) % Clock) + 1
<1> DEFINE m == u % Clock
           n == (u + 1) % Clock
<1>1. m \in 0 .. Clock - 1 /\ n = IF m = Clock - 1 THEN 0 ELSE m + 1
  <2>1. u \in Int /\ m \in 0 .. Clock - 1
    BY Mod
  <2>2. n = IF m = Clock - 1 THEN 0 ELSE m + 1
    BY NextMillis
  <2> QED BY <2>1, <2>2
<1> HIDE DEF m, n
<1>2. (m - l) % Clock = IF m >= l THEN m - l ELSE m - l + Clock
  BY <1>1, Between
<1>3. (n - l) % Clock = IF n >= l THEN n - l ELSE n - l + Clock
  BY <1>1, Between
<1> QED BY <1>1, <1>2, <1>3 DEF m, n

\* The mark moves k forward, and what has elapsed is k less.
LEMMA MarkMoves ==
    ASSUME NEW m \in 0 .. Clock - 1, NEW l \in 0 .. Clock - 1, NEW k \in Nat,
           k <= (m - l) % Clock
    PROVE  (m - ((l + k) % Clock)) % Clock = ((m - l) % Clock) - k
<1>1. (m - l) % Clock = IF m >= l THEN m - l ELSE m - l + Clock
  BY Between
<1> DEFINE d == (l + k) % Clock
<1>2. d = IF l + k < Clock THEN l + k ELSE l + k - Clock
  <2>1. l + k \in Int /\ l + k \in 0 .. 2 * Clock - 1
    BY <1>1
  <2>2. CASE l + k < Clock
    BY <2>1, <2>2, Mod
  <2>3. CASE ~(l + k < Clock)
    BY <2>1, <2>3, Mod
  <2> QED BY <2>2, <2>3
<1>4. d \in 0 .. Clock - 1
  BY <1>1, <1>2
<1> HIDE DEF d
<1>3. (m - d) % Clock = IF m >= d THEN m - d ELSE m - d + Clock
  BY <1>4, Between
<1> QED BY <1>1, <1>2, <1>3 DEF d

LEMMA WholePeriods ==
    ASSUME NEW e \in Nat
    PROVE  /\ e \div Period \in Nat /\ (e \div Period) * Period <= e
           /\ e - (e \div Period) * Period < Period
OBVIOUS

LEMMA Distributes ==
    ASSUME NEW a \in Int, NEW b \in Int
    PROVE  (a + b) * Period = a * Period + b * Period
OBVIOUS

LEMMA ElapsedType ==
    ASSUME TypeOK
    PROVE  /\ millis \in 0 .. Clock - 1 /\ Elapsed \in 0 .. Clock - 1
           /\ lastSample \in 0 .. Clock - 1 /\ uptime \in Nat /\ epoch \in Int
           /\ sequence \in Nat
<1>1. uptime \in Nat /\ lastSample \in 0 .. Clock - 1 /\ epoch \in Int /\ sequence \in Nat
  BY DEF TypeOK, Word
<1>2. millis \in 0 .. Clock - 1
  BY <1>1, Mod DEF millis
<1>3. millis - lastSample \in Int
  BY <1>1, <1>2
<1> QED BY <1>1, <1>2, <1>3, Mod DEF Elapsed

\* What Sample does to the clock's marks.
LEMMA SampleClock ==
    ASSUME TypeOK, Sample
    PROVE  \E periods \in Nat :
              /\ Elapsed' = Elapsed - periods * Period /\ Elapsed' \in 0 .. Period - 1
              /\ UNCHANGED <<uptime, epoch>>
              /\ \/ /\ phase' = "running" /\ sequence' = sequence + periods
                    /\ sampled' = Append(sampled, <<boot, sequence + periods - 1>>)
                 \/ phase' \in {"renew", "fatal"} /\ UNCHANGED <<sequence, sampled>>
<1>1. /\ millis \in 0 .. Clock - 1 /\ Elapsed \in 0 .. Clock - 1
      /\ lastSample \in 0 .. Clock - 1
  BY ElapsedType
<1>2. PICK periods \in 1 .. Clock :
          /\ Due(periods)
          /\ lastSample' = (lastSample + periods * Period) % Clock
          /\ \/ /\ sequence' = sequence + periods
                /\ Generate(<<boot, sequence + periods - 1>>)
                /\ UNCHANGED phase
             \/ Allocate("renew") /\ UNCHANGED <<sequence, sampled>>
  BY DEF Sample
<1>3. UNCHANGED <<uptime, epoch>> /\ phase = "running"
  BY DEF Sample
<1>4. periods = Elapsed \div Period
  BY <1>2 DEF Due, Elapsed
<1> DEFINE k == periods * Period
<1>5. k \in Nat /\ k <= Elapsed /\ Elapsed - k < Period
  BY <1>1, <1>4, WholePeriods
<1>6. lastSample' = (lastSample + k) % Clock /\ millis' = millis
  BY <1>2, <1>3 DEF millis
<1> HIDE DEF k
<1>7. Elapsed' = Elapsed - k
  BY <1>1, <1>5, <1>6, MarkMoves DEF Elapsed
<1>8. Elapsed' \in 0 .. Period - 1
  BY <1>1, <1>5, <1>7
<1>9. \/ /\ phase' = "running" /\ sequence' = sequence + periods
         /\ sampled' = Append(sampled, <<boot, sequence + periods - 1>>)
      \/ phase' \in {"renew", "fatal"} /\ UNCHANGED <<sequence, sampled>>
  BY <1>2, <1>3 DEF Generate, Allocate
<1> QED BY <1>2, <1>3, <1>7, <1>8, <1>9 DEF k

\* What Verify does to them when it starts a boot_id.
LEMMA VerifyClock ==
    ASSUME TypeOK, Schedule, Verify, phase' = "running"
    PROVE  /\ uptime - Elapsed' = epoch' + (sequence' - 1) * Period
           /\ UNCHANGED uptime
           /\ \/ UNCHANGED sampled
              \/ /\ sampled' = Append(sampled, <<next.counter, 0>>) /\ sequence' = 1
                 /\ Elapsed' \in 0 .. Period - 1
<1>1. /\ millis \in 0 .. Clock - 1 /\ Elapsed \in 0 .. Clock - 1 /\ uptime \in Nat
  BY ElapsedType
<1>2. UNCHANGED uptime /\ millis' = millis /\ phase # "fatal"
  BY DEF Verify, millis, Allocating
<1>3. CASE phase = "setup"
  <2>1. sequence' = 0 /\ lastSample' = millis /\ epoch' = uptime + Period /\ UNCHANGED sampled
    BY <1>3 DEF Verify
  <2>2. Elapsed' = 0
    <3>1. millis - millis = 0 /\ 0 % Clock = 0
      BY <1>1, Mod
    <3> QED BY <1>2, <2>1, <3>1 DEF Elapsed
  <2>3. (0 - 1) * Period = -Period
    OBVIOUS
  <2> QED BY <1>1, <1>2, <2>1, <2>2, <2>3
<1>4. CASE phase = "renew"
  <2>1. /\ sequence' = 1 /\ UNCHANGED lastSample /\ epoch' = uptime - Elapsed
        /\ sampled' = Append(sampled, <<next.counter, 0>>)
    BY <1>4 DEF Verify, Generate, Elapsed
  <2>2. Elapsed' = Elapsed /\ Elapsed < Period
    BY <1>2, <1>4, <2>1 DEF Elapsed, Schedule
  <2>3. (1 - 1) * Period = 0
    OBVIOUS
  <2> QED BY <1>1, <1>2, <2>1, <2>2, <2>3
<1> QED BY <1>3, <1>4 DEF Verify, Allocating

LEMMA TickClock ==
    ASSUME TypeOK, Tick
    PROVE  Elapsed' = Elapsed + 1 /\ uptime' = uptime + 1
<1>1. lastSample \in 0 .. Clock - 1 /\ uptime \in Nat
  BY ElapsedType
<1>2. UNCHANGED lastSample /\ uptime' = uptime + 1 /\ Elapsed # Clock - 1
  BY DEF Tick, memory, Elapsed
<1> QED BY <1>1, <1>2, OneMore DEF Elapsed, millis

LEMMA ScheduleStep == ASSUME IInv, Schedule, [Next]_vars PROVE Schedule'
<1>0. TypeOK /\ Elapsed \in 0 .. Clock - 1 /\ uptime \in Nat /\ epoch \in Int /\ sequence \in Nat
  BY ElapsedType DEF IInv
<1>1. CASE Sample
  <2>0. uptime - Elapsed = epoch + (sequence - 1) * Period
    BY <1>1 DEF Sample, Schedule
  <2>1. PICK periods \in Nat :
              /\ Elapsed' = Elapsed - periods * Period /\ Elapsed' \in 0 .. Period - 1
              /\ UNCHANGED <<uptime, epoch>>
              /\ \/ phase' = "running" /\ sequence' = sequence + periods
                 \/ phase' \in {"renew", "fatal"}
    BY <1>0, <1>1, SampleClock
  <2>2. /\ (sequence + periods - 1) * Period = (sequence - 1) * Period + periods * Period
        /\ (sequence - 1) * Period \in Int /\ periods * Period \in Int
    <3>1. sequence - 1 \in Int /\ sequence + periods - 1 = (sequence - 1) + periods
      BY <1>0
    <3>2. ((sequence - 1) + periods) * Period = (sequence - 1) * Period + periods * Period
      BY <3>1, Distributes
    <3>3. \A a \in Int : a * Period \in Int
      OBVIOUS
    <3> QED BY <3>1, <3>2, <3>3
  <2> QED BY <1>0, <2>0, <2>1, <2>2 DEF Schedule
<1>2. CASE Verify
  <2>1. phase' \in {"running", "fatal"} /\ UNCHANGED uptime
    BY <1>2 DEF Verify
  <2> QED BY <1>0, <1>2, <2>1, VerifyClock DEF Schedule
<1>3. CASE Tick
  <2>1. UNCHANGED <<phase, epoch, sequence>> /\ phase = "running"
    BY <1>3 DEF Tick, memory
  <2>2. (sequence - 1) * Period \in Int
    BY <1>0
  <2> QED BY <1>0, <1>3, <2>1, <2>2, TickClock DEF Schedule
<1>4. CASE PowerOn \/ PowerCut
  BY <1>4 DEF PowerOn, PowerCut, Allocate, Schedule
<1>5. CASE UNCHANGED <<phase, uptime, lastSample, epoch, sequence>>
  BY <1>5 DEF Schedule, Elapsed, millis
<1>6. CASE PutWord \/ Connect \/ Disconnect \/ ReadGreeting \/ ReadSample \/ EndSession
           \/ UNCHANGED vars
  BY <1>5, <1>6 DEF PutWord, Connect, Disconnect, ReadGreeting, ReadSample, EndSession, vars,
                    memory
<1> QED BY <1>1, <1>2, <1>3, <1>4, <1>6 DEF Next

\* generate_sample: a sample's number is the number of whole periods since its
\* boot_id began, however long the loop was blocked, wherever millis() wrapped
\* and also for the sample that begins a new boot_id in the middle of a run.
THEOREM SampledOnSchedule == Spec => OnSchedule
<1> DEFINE Due0 == epoch' + sampled'[Len(sampled')][2] * Period
           Timely == sampled' # sampled => Due0 <= uptime /\ uptime < Due0 + Period
<1>1. IInv /\ Schedule /\ [Next]_vars => Timely
  <2> SUFFICES ASSUME IInv, Schedule, [Next]_vars, sampled' # sampled
               PROVE  Due0 <= uptime /\ uptime < Due0 + Period
    OBVIOUS
  <2>0. /\ TypeOK /\ Elapsed \in 0 .. Clock - 1 /\ uptime \in Nat /\ epoch \in Int
        /\ sequence \in Nat /\ sampled \in Seq(Segment)
    BY ElapsedType DEF IInv, TypeOK
  <2>1. \A x : Append(sampled, x)[Len(Append(sampled, x))] = x
    BY <2>0
  <2>2. CASE Sample
    <3>0. uptime - Elapsed = epoch + (sequence - 1) * Period
      BY <2>2 DEF Sample, Schedule
    <3>1. PICK periods \in Nat :
              /\ Elapsed' = Elapsed - periods * Period /\ Elapsed' \in 0 .. Period - 1
              /\ UNCHANGED <<uptime, epoch>>
              /\ sampled' = Append(sampled, <<boot, sequence + periods - 1>>)
      BY <2>0, <2>2, SampleClock
    <3>2. /\ (sequence + periods - 1) * Period = (sequence - 1) * Period + periods * Period
          /\ (sequence - 1) * Period \in Int /\ periods * Period \in Int
      <4>1. sequence - 1 \in Int /\ sequence + periods - 1 = (sequence - 1) + periods
        BY <2>0
      <4>2. ((sequence - 1) + periods) * Period = (sequence - 1) * Period + periods * Period
        BY <4>1, Distributes
      <4>3. \A a \in Int : a * Period \in Int
        OBVIOUS
      <4> QED BY <4>1, <4>2, <4>3
    <3>3. Due0 = epoch + (sequence + periods - 1) * Period
      BY <2>1, <3>1
    <3> HIDE DEF Due0
    <3> QED BY <2>0, <3>0, <3>1, <3>2, <3>3
  <2>3. CASE Verify
    <3>1. phase' = "running"
      BY <2>3 DEF Verify
    <3>2. /\ sampled' = Append(sampled, <<next.counter, 0>>) /\ sequence' = 1
          /\ Elapsed' \in 0 .. Period - 1
          /\ uptime - Elapsed' = epoch' + (sequence' - 1) * Period
      BY <2>0, <2>3, <3>1, VerifyClock
    <3>0. IInv'
      BY InvStep
    <3>3. epoch' \in Int
      BY <3>0 DEF IInv, TypeOK
    <3>4. Due0 = epoch'
      <4>1. sampled'[Len(sampled')] = <<next.counter, 0>>
        BY <2>1, <3>2
      <4>2. sampled'[Len(sampled')][2] = 0
        BY <4>1
      <4>3. \A e \in Int : e + 0 * Period = e
        OBVIOUS
      <4> QED BY <3>3, <4>2, <4>3, Zenon
    <3> HIDE DEF Due0
    <3>5. \A u \in Nat, e \in 0 .. Period - 1, t \in Int :
             u - e = t + (1 - 1) * Period => t <= u /\ u < t + Period
      OBVIOUS
    <3>6. Elapsed' \in 0 .. Period - 1 /\ epoch' \in Int /\ uptime \in Nat
          /\ uptime - Elapsed' = epoch' + (1 - 1) * Period
      BY <2>0, <3>2, <3>3, Zenon
    <3>7. epoch' <= uptime /\ uptime < epoch' + Period
      BY <3>5, <3>6, Zenon
    <3> QED BY <3>4, <3>7, Zenon
  <2>4. CASE PowerOn \/ PutWord \/ PowerCut \/ Tick
    BY <2>4 DEF PowerOn, PutWord, PowerCut, Tick
  <2>5. CASE Connect \/ Disconnect \/ ReadGreeting \/ ReadSample \/ EndSession
    BY <2>5 DEF Connect, Disconnect, ReadGreeting, ReadSample, EndSession
  <2>6. CASE UNCHANGED vars
    BY <2>6 DEF vars
  <2> QED BY <2>2, <2>3, <2>4, <2>5, <2>6 DEF Next
<1>2. Init => Schedule
  BY DEF Init, Schedule
<1>3. IInv /\ Schedule /\ [Next]_vars => (IInv /\ Schedule)'
  BY InvStep, ScheduleStep
<1>4. Spec => [][Timely]_vars
  BY InvInit, <1>1, <1>2, <1>3, PTL DEF Spec
<1> QED BY <1>4, PTL DEF OnSchedule

-----------------------------------------------------------------------------
(* The anti-replay gate *)

HIDE Node01Assumption

USE GateAssumption

-----------------------------------------------------------------------------
(* The gate: the order of segments *)

LEMMA SegmentFields ==
    ASSUME NEW s \in Segment
    PROVE  s[1] \in Int /\ s[2] \in Int
BY DEF Segment

\* Python's tuple comparison is transitive, also when its first half is <=.
LEMMA BelowTransitive ==
    ASSUME NEW a \in Segment, NEW b \in Segment, NEW c \in Segment,
           AtMost(a, b), Below(b, c)
    PROVE  Below(a, c)
BY SegmentFields DEF AtMost, Below

\* Either the candidate is stale (<=) or the mark is below it.
LEMMA BelowTotal ==
    ASSUME NEW a \in Segment, NEW b \in Segment, ~AtMost(a, b)
    PROVE  Below(b, a)
<1>1. a[1] \in Int /\ a[2] \in Int /\ b[1] \in Int /\ b[2] \in Int
    BY SegmentFields
<1>2. a = b <=> a[1] = b[1] /\ a[2] = b[2]
    BY DEF Segment
<1> QED BY <1>1, <1>2 DEF AtMost, Below
-----------------------------------------------------------------------------
(* The gate: types *)

\* What makes TypeOK inductive: a call that runs has a segment to report.
CallHasCandidate == \A g \in Gate : pc[g] \in Calling => candidate[g] # None

GateTyped == GateTypeOK /\ CallHasCandidate

LEMMA GateTypedInit == GateInit => GateTyped
BY DEF GateInit, GateTyped, GateTypeOK, CallHasCandidate, LockFile,
   Critical, Calling

LEMMA GateTypedStep == GateTyped /\ [GateNext]_gateVars => GateTyped'
<1> SUFFICES ASSUME GateTyped, [GateNext]_gateVars PROVE GateTyped'
  OBVIOUS
<1> USE DEF GateTyped, GateTypeOK, CallHasCandidate, LockFile,
       Critical, Calling, Goto, Return, files
<1>1. ASSUME NEW g \in Gate, NEW s \in Segment, OpenLock(g, s)
       PROVE GateTyped'
  BY <1>1 DEF OpenLock
<1>2. ASSUME NEW g \in Gate, Flock(g) PROVE GateTyped'
  BY <1>2 DEF Flock
<1>3. ASSUME NEW g \in Gate, WriteMarker(g) PROVE GateTyped'
  BY <1>3 DEF WriteMarker
<1>4. ASSUME NEW g \in Gate, SyncMarker(g) PROVE GateTyped'
  BY <1>4 DEF SyncMarker
<1>5. ASSUME NEW g \in Gate, CheckMarker(g) PROVE GateTyped'
  BY <1>5 DEF CheckMarker
<1>6. ASSUME NEW g \in Gate, ReadState(g) PROVE GateTyped'
  BY <1>6 DEF ReadState, StateMissing, Stale
<1>7. ASSUME NEW g \in Gate, Replace(g) PROVE GateTyped'
  BY <1>7 DEF Replace
<1>8. ASSUME NEW g \in Gate, SyncAndAccept(g) PROVE GateTyped'
  BY <1>8 DEF SyncAndAccept
<1>9. ASSUME NEW g \in Gate, Fail(g) PROVE GateTyped'
  BY <1>9 DEF Fail
<1>10. ASSUME NEW g \in Gate, Start(g) PROVE GateTyped'
  BY <1>10 DEF Start
<1>11. ASSUME NEW g \in Gate, Crash(g) PROVE GateTyped'
  BY <1>11 DEF Crash, Stop
<1>12. CASE PowerLoss
  BY <1>12 DEF PowerLoss
<1>13. ASSUME NEW l \in BOOLEAN, NEW s \in BOOLEAN, LoseFiles(l, s) PROVE GateTyped'
  BY <1>13 DEF LoseFiles, processes
<1>14. ASSUME NEW s \in Segment, Restore(s) PROVE GateTyped'
  BY <1>14 DEF Restore, processes
<1>15. CASE UNCHANGED gateVars
  BY <1>15 DEF gateVars, processes
<1> QED
  BY <1>1, <1>2, <1>3, <1>4, <1>5, <1>6, <1>7, <1>8, <1>9, <1>10, <1>11,
     <1>12, <1>13, <1>14, <1>15 DEF GateNext, Inside, Step

\* The gate's variables keep their types: segments and nothing else in the mark
\* and in what was accepted, whatever dies or is lost.
THEOREM GateTypeCorrect == GateSpec => []GateTypeOK
<1>1. GateTyped => GateTypeOK
  BY DEF GateTyped
<1> QED
  BY GateTypedInit, GateTypedStep, <1>1, PTL DEF GateSpec
-----------------------------------------------------------------------------
(* The gate: its inductive invariant *)

\* The flock serialises the part of accept() that reads and replaces the mark.
FlockHeld == \A g \in Gate : pc[g] \in Critical <=> owner = g

\* While a call runs its lock file stays: losses wait for quiescence.
LockFilePresent == \A g \in Gate : pc[g] \in Calling => lock # "absent"

\* A candidate past the comparison is above everything accepted, and stays so
\* because nobody else can accept while the flock is held.
CandidateFresh == \A g \in Gate : pc[g] \in {"replace", "sync"} =>
            \A i \in 1 .. Len(accepted) : Below(accepted[i], candidate[g])

\* A call that found no mark and went on found a true first use.
FirstUse == \A g \in Gate : pc[g] = "replace" /\ state = None => accepted = <<>>

MarkInPlace == \A g \in Gate : pc[g] = "sync" => state = candidate[g]

\* The disk never holds a mark the processes cannot see.
NoHiddenMark == state = None => diskState = None

\* When the mark of accepted samples is gone, every process that could take that
\* for a first use is stopped: by the surviving lock, or by what it has observed.
LossNoticed == (accepted # <<>> /\ state = None) =>
    \A g \in Gate :
        /\ pc[g] = "idle" => lock # "absent" \/ observed[g]
        /\ pc[g] \in Calling => ~created[g] \/ observed[g]

GateInv == /\ GateTyped /\ FlockHeld /\ LockFilePresent /\ CandidateFresh /\ FirstUse
        /\ MarkInPlace /\ NoHiddenMark /\ LossNoticed /\ HighWaterCovers

LEMMA GateInvInit == GateInit => GateInv
BY GateTypedInit DEF GateInit, GateInv, FlockHeld, LockFilePresent, CandidateFresh,
   FirstUse,
   MarkInPlace, NoHiddenMark, LossNoticed, HighWaterCovers, Critical,
      Calling

LEMMA GateInvStep == GateInv /\ [GateNext]_gateVars => GateInv'
<1> SUFFICES ASSUME GateInv, [GateNext]_gateVars PROVE GateInv'
  OBVIOUS
<1>0. GateTyped /\ GateTyped'
  BY GateTypedStep DEF GateInv
<1> USE <1>0 DEF GateInv, FlockHeld, LockFilePresent, CandidateFresh, FirstUse, MarkInPlace,
       NoHiddenMark, LossNoticed, HighWaterCovers, GateTyped, GateTypeOK,
       CallHasCandidate, LockFile, Critical, Calling,
          Goto, Return, files
<1>1. ASSUME NEW g \in Gate, NEW s \in Segment, OpenLock(g, s) PROVE GateInv'
  BY <1>1 DEF OpenLock
<1>2. ASSUME NEW g \in Gate, Flock(g) PROVE GateInv'
  BY <1>2 DEF Flock
<1>3. ASSUME NEW g \in Gate, WriteMarker(g) PROVE GateInv'
  BY <1>3 DEF WriteMarker
<1>4. ASSUME NEW g \in Gate, SyncMarker(g) PROVE GateInv'
  BY <1>4 DEF SyncMarker
<1>5. ASSUME NEW g \in Gate, CheckMarker(g) PROVE GateInv'
  BY <1>5 DEF CheckMarker
<1>6. ASSUME NEW g \in Gate, ReadState(g) PROVE GateInv'
  <2> USE <1>6 DEF ReadState
  <2>1. CASE StateMissing(g) \/ Stale(g)
    BY <2>1
  <2>2. CASE ~(StateMissing(g) \/ Stale(g))
    <3>1. pc[g] = "read" /\ candidate[g] \in Segment
      OBVIOUS
    <3>2. ASSUME state = None PROVE accepted = <<>>
      BY <2>2, <3>1, <3>2 DEF StateMissing
    <3>3. \A i \in 1 .. Len(accepted) : Below(accepted[i], candidate[g])
      <4>1. CASE state = None
        BY <4>1, <3>2
      <4>2. CASE state # None
        <5>1. state \in Segment /\ Below(state, candidate[g])
          BY <4>2, <2>2, <3>1, BelowTotal DEF Stale
        <5>2. ASSUME NEW i \in 1 .. Len(accepted)
              PROVE  accepted[i] \in Segment /\ AtMost(accepted[i], state)
          BY <4>2
        <5> QED BY <3>1, <5>1, <5>2, BelowTransitive
      <4> QED BY <4>1, <4>2
    <3>4. CandidateFresh' /\ FirstUse'
      BY <2>2, <3>2, <3>3
    <3> QED BY <2>2, <3>4
  <2> QED BY <2>1, <2>2
<1>7. ASSUME NEW g \in Gate, Replace(g) PROVE GateInv'
  <2> USE <1>7 DEF Replace
  <2>1. candidate[g] \in Segment /\ candidate[g] # None
    OBVIOUS
  <2>2. HighWaterCovers'
    BY <2>1 DEF AtMost
  <2>3. FlockHeld' /\ LockFilePresent' /\ CandidateFresh' /\ FirstUse' /\ MarkInPlace'
    OBVIOUS
  <2>4. NoHiddenMark' /\ LossNoticed'
    BY <2>1
  <2> QED BY <2>2, <2>3, <2>4
<1>8. ASSUME NEW g \in Gate, SyncAndAccept(g) PROVE GateInv'
  <2> USE <1>8 DEF SyncAndAccept
  <2>1. /\ candidate[g] \in Segment /\ candidate[g] # None
        /\ state = candidate[g]
        /\ owner = g
    OBVIOUS
  <2>2. FlockHeld' /\ LockFilePresent' /\ MarkInPlace' /\ NoHiddenMark'
    BY <2>1
  <2>3. CandidateFresh' /\ FirstUse'
    BY <2>1, <2>2
  <2>4. HighWaterCovers'
    BY <2>1 DEF AtMost
  <2>5. LossNoticed'
    BY <2>1
  <2> QED BY <2>2, <2>3, <2>4, <2>5
<1>9. ASSUME NEW g \in Gate, Fail(g) PROVE GateInv'
  BY <1>9 DEF Fail
<1>10. ASSUME NEW g \in Gate, Start(g) PROVE GateInv'
  BY <1>10 DEF Start, TotalLoss
<1>11. ASSUME NEW g \in Gate, Crash(g) PROVE GateInv'
  BY <1>11 DEF Crash, Stop
<1>12. CASE PowerLoss
  BY <1>12 DEF PowerLoss
<1>13. ASSUME NEW l \in BOOLEAN, NEW s \in BOOLEAN, LoseFiles(l, s) PROVE GateInv'
  BY <1>13 DEF LoseFiles, processes, Quiescent, TotalLoss
<1>14. ASSUME NEW s \in Segment, Restore(s) PROVE GateInv'
  BY <1>14 DEF Restore, processes, Quiescent
<1>15. CASE UNCHANGED gateVars
  BY <1>15 DEF gateVars, processes
<1> QED
  BY <1>1, <1>2, <1>3, <1>4, <1>5, <1>6, <1>7, <1>8, <1>9, <1>10, <1>11,
     <1>12, <1>13, <1>14, <1>15 DEF GateNext, Inside, Step
-----------------------------------------------------------------------------
(* The gate: the theorems *)

\* The mark on disk, and the one a power failure leaves, cover every sample
\* accept() has returned True for.
THEOREM CoversWhatItAccepted == GateSpec => []HighWaterCovers
<1>1. GateInv => HighWaterCovers
  BY DEF GateInv
<1> QED BY GateInvInit, GateInvStep, <1>1, PTL DEF GateSpec

\* No step of accept(), of a crash or of a power failure starts a new mark where
\* one was lost: only the operator's Restore does.
THEOREM FailsClosedAlways == GateSpec => FailsClosed
<1>1. GateInv /\ [GateNext]_gateVars =>
        [(accepted # <<>> /\ state = None /\ state' # None)
            => \E s \in Segment : Restore(s)]_gateVars
  <2> SUFFICES ASSUME GateInv, GateNext, accepted # <<>>, state = None, state' # None
               PROVE  \E s \in Segment : Restore(s)
    OBVIOUS
  <2> USE DEF files
  <2>1. ASSUME NEW g \in Gate PROVE ~Replace(g)
    BY DEF GateInv, FirstUse, Replace
  <2>2. ASSUME NEW g \in Gate, NEW s \in Segment PROVE ~OpenLock(g, s)
    BY DEF OpenLock
  <2>3. ASSUME NEW g \in Gate
         PROVE ~(Step(g) \/ Fail(g) \/ Start(g) \/ Crash(g))
    BY <2>1 DEF Step, Flock, WriteMarker, SyncMarker,
       CheckMarker, ReadState,
       SyncAndAccept, Fail, Start, Crash
  <2>4. ~PowerLoss
    BY DEF PowerLoss, GateInv, NoHiddenMark
  <2>5. ASSUME NEW l \in BOOLEAN, NEW s \in BOOLEAN PROVE ~LoseFiles(l, s)
    BY DEF LoseFiles
  <2> QED BY <2>2, <2>3, <2>4, <2>5 DEF GateNext, Inside
<1> QED BY GateInvInit, GateInvStep, <1>1, PTL DEF GateSpec, FailsClosed

\* Every step of the gate is one acceptance of the abstract guard, or none.
LEMMA StepMapsToGuard == GateInv /\ [GateNext]_gateVars =>
   [Guard!Next]_accepted
<1> SUFFICES ASSUME GateInv, [GateNext]_gateVars
       PROVE [Guard!Next]_accepted
  OBVIOUS
<1>1. ASSUME NEW g \in Gate, SyncAndAccept(g) PROVE Guard!Next
  <2>1. /\ candidate[g] \in Segment
        /\ \A i \in 1 .. Len(accepted) : Below(accepted[i], candidate[g])
    BY <1>1 DEF SyncAndAccept, GateInv, GateTyped, GateTypeOK,
       CallHasCandidate, CandidateFresh,
       Critical, Calling
  <2>2. Guard!Accept(candidate[g])
    BY <1>1, <2>1 DEF SyncAndAccept, Guard!Accept, Guard!Below,
       Below
  <2> QED BY <2>1, <2>2 DEF Guard!Next, Guard!Segment, Segment
<1>2. ASSUME NEW g \in Gate, NEW s \in Segment, OpenLock(g, s)
      PROVE  UNCHANGED accepted
  BY <1>2 DEF OpenLock
<1>3. ASSUME NEW g \in Gate, ~SyncAndAccept(g),
Step(g) \/ Fail(g) \/ Start(g) \/ Crash(g)
      PROVE  UNCHANGED accepted
  BY <1>3 DEF Step, Flock, WriteMarker, SyncMarker,
     CheckMarker, ReadState,
     Replace, Fail, Start, Crash
<1>4. PowerLoss => UNCHANGED accepted
  BY DEF PowerLoss
<1>5. ASSUME NEW l \in BOOLEAN, NEW s \in BOOLEAN, LoseFiles(l, s)
      PROVE  UNCHANGED accepted
  BY <1>5 DEF LoseFiles
<1>6. ASSUME NEW s \in Segment, Restore(s) PROVE UNCHANGED accepted
  BY <1>6 DEF Restore
<1>7. UNCHANGED gateVars => UNCHANGED accepted
  BY DEF gateVars
<1> QED BY <1>1, <1>2, <1>3, <1>4, <1>5, <1>6, <1>7 DEF GateNext, Inside

\* Whatever the instances, the crashes and the losses, what is accepted is what
\* the abstract guard accepts: a strictly increasing history.
THEOREM GateImplementation == GateSpec => ImplementsGuard
<1>1. GateInit => Guard!Init
  BY DEF GateInit, Guard!Init
<1>2. GateInv /\ [GateNext]_gateVars => [Guard!Next]_accepted
  BY StepMapsToGuard
<1> QED BY GateInvInit, GateInvStep, <1>1, <1>2, PTL DEF GateSpec,
       ImplementsGuard, Guard!Spec

\* The consequence a reader cares about: no sample is accepted twice, and none
\* after a later one.
THEOREM NoReplay == GateSpec => []Guard!StrictlyIncreasing
<1> USE DEF Guard!StrictlyIncreasing, Guard!Below, Below
<1>1. GateInit => Guard!StrictlyIncreasing
  BY DEF GateInit
<1>2. GateInv /\ Guard!StrictlyIncreasing /\ [GateNext]_gateVars =>
       Guard!StrictlyIncreasing'
  <2> SUFFICES ASSUME GateInv, Guard!StrictlyIncreasing,
         [GateNext]_gateVars
               PROVE  Guard!StrictlyIncreasing'
    OBVIOUS
  <2>0. accepted \in Seq(Segment)
    BY DEF GateInv, GateTyped, GateTypeOK
  <2>1. ASSUME NEW s \in Guard!Segment, Guard!Accept(s)
        PROVE  Guard!StrictlyIncreasing'
    <3>1. /\ Len(accepted') = Len(accepted) + 1
          /\ accepted'[Len(accepted) + 1] = s
          /\ \A i \in 1 .. Len(accepted) : accepted'[i] = accepted[i]
      BY <2>0, <2>1 DEF Guard!Accept, Guard!Segment, Segment
    <3>2. Len(accepted) \in Nat
      BY <2>0
    <3>3. \A i \in 1 .. Len(accepted) : Below(accepted[i], s)
      BY <2>1 DEF Guard!Accept
    <3>4. ASSUME NEW i \in 1 .. Len(accepted'), NEW j \in 1 .. Len(accepted'), i < j
          PROVE  Below(accepted'[i], accepted'[j])
      <4>1. i \in 1 .. Len(accepted)
        BY <3>1, <3>2, <3>4
      <4>2. CASE j = Len(accepted) + 1
        BY <4>1, <4>2, <3>1, <3>3
      <4>3. CASE j \in 1 .. Len(accepted)
        BY <4>1, <4>3, <3>1, <3>4
      <4> QED BY <4>2, <4>3, <3>1, <3>2
    <3> QED BY <3>4
  <2>2. UNCHANGED accepted => Guard!StrictlyIncreasing'
    OBVIOUS
  <2> QED BY <2>1, <2>2, StepMapsToGuard DEF Guard!Next
<1> QED BY GateInvInit, GateInvStep, <1>1, <1>2, PTL DEF GateSpec

-----------------------------------------------------------------------------
(* From node01 to the gate *)

\* A step of the whole is one of the node or none, and one of the gate or none.
LEMMA PathIsNode == [PathNext]_pathVars => [Next]_vars
BY DEF PathNext, pathVars, Deliver

LEMMA PathIsGate == IInv /\ [PathNext]_pathVars => [GateNext]_gateVars
<1> SUFFICES ASSUME IInv, PathNext \/ UNCHANGED pathVars
             PROVE  GateNext \/ UNCHANGED gateVars
  OBVIOUS
<1>1. ASSUME Deliver PROVE GateNext
  <2>1. PICK g \in Gate, i \in 1 .. Len(raw) : OpenLock(g, raw[i])
    BY <1>1 DEF Deliver
  <2>2. raw[i] \in Segment
    BY DEF IInv, TypeOK
  <2> QED BY <2>1, <2>2 DEF GateNext
<1> QED BY <1>1 DEF PathNext, pathVars, GateNext

LEMMA PathNode == PathSpec => Spec
<1>1. PathInit => Init
  BY DEF PathInit
<1> QED BY <1>1, PathIsNode, PTL DEF PathSpec, Spec

LEMMA PathGate == PathSpec => GateSpec
<1>1. PathInit => Init /\ GateInit
  BY DEF PathInit
<1> QED BY <1>1, InvInit, InvStep, PathIsNode, PathIsGate, PTL DEF PathSpec, GateSpec

\* x is a sample that node01 generated.
Taken(x) == \E k \in 1 .. Len(sampled) : x = sampled[k]

\* What is examined, and what was accepted, was taken by node01.
Genuine ==
    /\ \A g \in Gate : candidate[g] # None => Taken(candidate[g])
    /\ \A i \in 1 .. Len(accepted) : Taken(accepted[i])

\* The history of samples only grows.
LEMMA TakenStays ==
    ASSUME IInv, [Next]_vars, NEW x, Taken(x)
    PROVE  \E k \in 1 .. Len(sampled') : x = sampled'[k]
<1>1. sampled \in Seq(Segment)
  BY DEF IInv, TypeOK
<1>2. CASE sampled' # sampled
  <2>1. PICK s \in Segment : sampled' = Append(sampled, s)
    BY <1>2, NewSample
  <2>2. /\ Len(sampled') = Len(sampled) + 1
        /\ \A k \in 1 .. Len(sampled) : k \in 1 .. Len(sampled') /\ sampled'[k] = sampled[k]
    BY <1>1, <2>1
  <2> QED BY <2>2 DEF Taken
<1>3. CASE sampled' = sampled
  BY <1>3 DEF Taken
<1> QED BY <1>2, <1>3

\* The gate makes up no sample of its own.
LEMMA InsideKeeps ==
    ASSUME GateInv, Inside
    PROVE  /\ \A g \in Gate : candidate'[g] \in {None, candidate[g]}
           /\ \/ accepted' = accepted
              \/ \E g \in Gate : /\ candidate[g] \in Segment
                                 /\ accepted' = Append(accepted, candidate[g])
<1> USE DEF Return, files, processes
<1>0. candidate \in [Gate -> Segment \cup {None}]
  BY DEF GateInv, GateTyped, GateTypeOK
<1>1. ASSUME NEW g \in Gate, SyncAndAccept(g)
      PROVE  /\ candidate' = [candidate EXCEPT ![g] = None]
             /\ candidate[g] \in Segment /\ accepted' = Append(accepted, candidate[g])
  BY <1>0, <1>1 DEF SyncAndAccept, GateInv, GateTyped, CallHasCandidate,
     Calling, Critical
<1>2. ASSUME NEW g \in Gate, ~SyncAndAccept(g),
Step(g) \/ Fail(g) \/ Start(g) \/ Crash(g)
      PROVE  /\ candidate' = candidate \/ candidate' = [candidate EXCEPT ![g] = None]
             /\ accepted' = accepted
  BY <1>2 DEF Step, Flock, WriteMarker, SyncMarker,
     CheckMarker, ReadState, Replace, Fail,
     Start, Crash, Stop
<1>3. ASSUME PowerLoss
      PROVE  candidate' = [g \in Gate |-> None] /\ accepted' = accepted
  BY <1>3 DEF PowerLoss
<1>4. ASSUME NEW l \in BOOLEAN, NEW s \in BOOLEAN, LoseFiles(l, s)
      PROVE  candidate' = candidate /\ accepted' = accepted
  BY <1>4 DEF LoseFiles
<1>5. ASSUME NEW s \in Segment, Restore(s)
      PROVE  candidate' = candidate /\ accepted' = accepted
  BY <1>5 DEF Restore
<1>6. CASE \E g \in Gate : \/ Step(g) \/ Fail(g)
                           \/ Start(g) \/ Crash(g)
  BY <1>0, <1>1, <1>2, <1>6
<1>7. CASE \/ PowerLoss
           \/ \E l, s \in BOOLEAN : LoseFiles(l, s)
           \/ \E s \in Segment : Restore(s)
  BY <1>0, <1>3, <1>4, <1>5, <1>7
<1> QED BY <1>6, <1>7 DEF Inside

LEMMA GenuineInit == PathInit => Genuine
BY DEF PathInit, GateInit, Genuine

LEMMA GenuineStep ==
    ASSUME IInv, Delivery, GateInv, Genuine, [PathNext]_pathVars
    PROVE  Genuine'
<1>0. /\ accepted \in Seq(Segment)
      /\ candidate \in [Gate -> Segment \cup {None}]
  BY DEF GateInv, GateTyped, GateTypeOK
<1>1. CASE UNCHANGED gateVars
  <2>1. candidate' = candidate /\ accepted' = accepted
    BY <1>1 DEF gateVars, processes, files
  <2>2. ASSUME NEW x, Taken(x) PROVE \E k \in 1 .. Len(sampled') : x = sampled'[k]
    BY <2>2, PathIsNode, TakenStays
  <2> QED BY <2>1, <2>2 DEF Genuine, Taken
<1>2. CASE Deliver
  <2>1. PICK g \in Gate, i \in 1 .. Len(raw) : OpenLock(g, raw[i])
    BY <1>2 DEF Deliver
  <2>2. Taken(raw[i])
    BY DEF Delivery, InOrder, Taken
  <2>3. /\ candidate' = [candidate EXCEPT ![g] = raw[i]] /\ accepted' = accepted
        /\ sampled' = sampled
    BY <1>2, <2>1 DEF OpenLock, Deliver, vars
  <2> QED BY <1>0, <2>2, <2>3 DEF Genuine, Taken
<1>3. CASE Inside /\ UNCHANGED vars
  <2>1. sampled' = sampled
    BY <1>3 DEF vars
  <2>2. \A g \in Gate : candidate'[g] \in {None, candidate[g]}
    BY <1>3, InsideKeeps
  <2>3. CASE accepted' = accepted
    BY <2>1, <2>2, <2>3 DEF Genuine, Taken
  <2>4. ASSUME NEW g \in Gate, candidate[g] \in Segment,
               accepted' = Append(accepted, candidate[g])
        PROVE  Genuine'
    <3>1. candidate[g] # None /\ Taken(candidate[g])
      BY <2>4 DEF Genuine
    <3>2. \A i \in 1 .. Len(accepted') :
             \/ i \in 1 .. Len(accepted) /\ accepted'[i] = accepted[i]
             \/ accepted'[i] = candidate[g]
      BY <1>0, <2>4
    <3> QED BY <2>1, <2>2, <3>1, <3>2 DEF Genuine, Taken
  <2> QED BY <1>3, <2>3, <2>4, InsideKeeps
<1> QED BY <1>1, <1>2, <1>3 DEF PathNext, pathVars

\* The numbers order the samples as they were taken.
LEMMA SampledIncrease ==
    ASSUME IInv, Increasing(sampled), [Next]_vars
    PROVE  Increasing(sampled)'
<1>1. sampled \in Seq(Segment)
  BY DEF IInv, TypeOK
<1>2. CASE sampled' # sampled
  <2>1. PICK s \in Segment :
            (\A i \in 1 .. Len(sampled) : Below(sampled[i], s)) /\ sampled' = Append(sampled, s)
    BY <1>2, NewSample
  <2>2. /\ Len(sampled') = Len(sampled) + 1 /\ sampled'[Len(sampled')] = s
        /\ \A k \in 1 .. Len(sampled) : sampled'[k] = sampled[k]
    BY <1>1, <2>1
  <2> QED BY <1>1, <2>1, <2>2 DEF Increasing
<1>3. CASE sampled' = sampled
  BY <1>3 DEF Increasing
<1> QED BY <1>2, <1>3

\* Increasing numbers in both histories leave one order only.
LEMMA AsTaken ==
    ASSUME IInv, GateInv, Genuine, Increasing(sampled), Guard!StrictlyIncreasing
    PROVE  AcceptedAsTaken
<1> SUFFICES ASSUME NEW i \in 1 .. Len(accepted), NEW j \in 1 .. Len(accepted), i <= j
             PROVE  \E k, l \in 1 .. Len(sampled) :
                       /\ accepted[i] = sampled[k] /\ accepted[j] = sampled[l]
                       /\ i < j => k < l
  BY DEF AcceptedAsTaken
<1>1. PICK k \in 1 .. Len(sampled), l \in 1 .. Len(sampled) :
         accepted[i] = sampled[k] /\ accepted[j] = sampled[l]
  BY DEF Genuine, Taken
<1>2. TypeOK /\ sampled \in Seq(Segment)
  BY DEF IInv, TypeOK
<1>3. \A n \in {k, l} : sampled[n][1] \in Int /\ sampled[n][2] \in Int
  BY <1>2, SampledSegments DEF Word
<1>4. ASSUME i < j PROVE k < l
  <2>1. Below(sampled[k], sampled[l])
    BY <1>1, <1>4 DEF Guard!StrictlyIncreasing, Guard!Below, Below
  <2>2. ~(k = l \/ Below(sampled[l], sampled[k]))
    BY <1>3, <2>1 DEF Below
  <2>3. l < k => Below(sampled[l], sampled[k])
    BY DEF Increasing
  <2> QED BY <1>2, <2>2, <2>3
<1> QED BY <1>1, <1>4

\* From node01's EEPROM to accept(): what the gate lets through are node01's
\* samples in the order they were taken, none twice and none of another's making.
THEOREM EndToEnd == PathSpec => []AcceptedAsTaken
<1>1. Init => Increasing(sampled)
  BY DEF Init, Increasing
<1>2. IInv /\ Increasing(sampled) /\ [Next]_vars => Increasing(sampled)'
  BY SampledIncrease
<1>3. Spec => []Increasing(sampled)
  BY InvInit, InvStep, <1>1, <1>2, PTL DEF Spec
<1>4. GateSpec => []GateInv
  BY GateInvInit, GateInvStep, PTL DEF GateSpec
<1>5. IInv /\ Delivery /\ GateInv /\ Genuine /\ [PathNext]_pathVars => Genuine'
  BY GenuineStep
<1>6. PathSpec => []Genuine
  BY PathNode, PathGate, DeliveryHolds, <1>4, GenuineInit, <1>5, PTL DEF PathSpec
<1>7. /\ IInv /\ Delivery /\ GateInv /\ Genuine
      /\ Increasing(sampled) /\ Guard!StrictlyIncreasing
      => AcceptedAsTaken
  BY AsTaken
<1> QED BY PathNode, PathGate, DeliveryHolds, NoReplay, <1>3, <1>4, <1>6, <1>7, PTL
=============================================================================
