-------------------------- MODULE HoldToTalkProofs --------------------------
(***************************************************************************)
(* Proofs about node01's button, the page that talks and both together,    *)
(* for any masks, limits and delays of the scan, any number of recordings, *)
(* spoken answers and gestures, whatever is lost or late.                  *)
(***************************************************************************)
EXTENDS HoldToTalk, TLAPS

-----------------------------------------------------------------------------
(* The tracker: its inductive invariant *)

\* A long press is reported of a key that counts as pressed, and takes the
\* clicks before it along.
Pressed == longFired => debounced /\ clicks = 0

\* A key that is away from rest has been held until now.
Away == key # baseline => hold = span

\* It had left its resting state before the scan saw that, and was away for the
\* time of the debouncing before the press counts.
SeenAfter == raw => span = LongAfter \/ span >= rawAge
PressedAfter == debounced => span = LongAfter \/ span >= pressAge + Debounce

\* While the scans come in time a key that is at rest again was away until the
\* last scan that saw it so.
LastAway == debounced /\ ~delayed =>
    /\ gap <= Idle
    /\ raw => hold = LongAfter \/ hold + gap >= pressAge + Debounce
    /\ ~raw => \/ rawAge >= Debounce
               \/ hold = LongAfter
               \/ hold + Idle + rawAge >= pressAge + Debounce

Tracked == ButtonTypeOK /\ Pressed /\ Away /\ SeenAfter /\ PressedAfter /\ LastAway

LEMMA Capped ==
    ASSUME NEW n \in Int, NEW limit \in Int
    PROVE  Upto(n, limit) = IF n <= limit THEN n ELSE limit
<1>1. \E x \in {n, limit} : \A y \in {n, limit} : x <= y
  OBVIOUS
<1>2. Upto(n, limit) \in {n, limit} /\ \A y \in {n, limit} : Upto(n, limit) <= y
  BY <1>1 DEF Upto, Min
<1> QED
  BY <1>2

\* What was long enough an instant ago is long enough now.
LEMMA StillLong ==
    ASSUME NEW l \in Int, NEW d \in Int, NEW p \in Int, NEW q \in Int, q <= p + 1,
           NEW h \in Int, NEW k \in Int, h <= k, k <= l, NEW g \in Int,
           h = l \/ h + g >= p + d
    PROVE  k = l \/ k + (g + 1) >= q + d
OBVIOUS

LEMMA Limits ==
    /\ Debounce \in Nat /\ Debounce >= 1 /\ Window \in Nat /\ Window >= 1
    /\ LongAfter \in Nat /\ LongAfter >= 1 /\ Rebaseline \in Nat /\ Rebaseline >= 1
    /\ WaveTicks \in Nat /\ WaveTicks >= 1 /\ Idle \in Nat /\ Idle >= 1 /\ MaxGap \in Nat
BY ButtonAssumption

LEMMA TrackerTypes ==
    ASSUME ButtonTypeOK
    PROVE  /\ key \in Masks /\ baseline \in Masks /\ lastSeen \in Masks
           /\ raw \in BOOLEAN /\ debounced \in BOOLEAN /\ longFired \in BOOLEAN
           /\ clicks \in 0 .. 1 /\ gap \in 0 .. MaxGap /\ wave \in 0 .. WaveTicks
           /\ stable \in 0 .. Rebaseline /\ rawAge \in 0 .. Debounce
           /\ pressAge \in 0 .. LongAfter /\ releaseAge \in 0 .. Window
           /\ span \in 0 .. LongAfter /\ hold \in 0 .. span /\ delayed \in BOOLEAN
           /\ result \in {"none", "single", "double", "long", "release"}
BY DEF ButtonTypeOK

LEMMA TrackerInit == ButtonInit => Tracked
<1> SUFFICES ASSUME ButtonInit PROVE Tracked
  OBVIOUS
<1>1. ButtonTypeOK
  <2>1. /\ 0 \in 0 .. 1 /\ 0 \in 0 .. Rebaseline /\ Debounce \in 0 .. Debounce
        /\ LongAfter \in 0 .. LongAfter /\ Window \in 0 .. Window /\ 0 \in 0 .. MaxGap
        /\ 0 \in 0 .. WaveTicks /\ 0 \in 0 .. LongAfter /\ 0 \in 0 .. 0
    BY Limits
  <2> QED
    BY <2>1, Zenon DEF ButtonInit, ButtonTypeOK
<1> QED
  BY <1>1 DEF ButtonInit, Tracked, Pressed, Away, SeenAfter, PressedAfter, LastAway

LEMMA KeyMovesTracked ==
    ASSUME Tracked, NEW m \in Masks, KeyMoves(m)
    PROVE  Tracked' /\ UNCHANGED <<longFired, result>>
<1> USE DEF Tracked, tracker, ages
<1>1. /\ key' = m
      /\ UNCHANGED <<baseline, lastSeen, raw, debounced, longFired, clicks, stable, rawAge,
                     pressAge, releaseAge, gap, result, wave, delayed>>
  BY DEF KeyMoves
<1>2. \/ ~raw /\ ~debounced /\ span' = 0 /\ hold' = 0
      \/ span' = span /\ hold' = IF m = baseline THEN hold ELSE span
  BY DEF KeyMoves
<1>3. /\ span \in 0 .. LongAfter /\ hold \in 0 .. span
      /\ gap \in 0 .. MaxGap /\ rawAge \in 0 .. Debounce /\ pressAge \in 0 .. LongAfter
  BY TrackerTypes
<1>4. span' \in 0 .. LongAfter /\ hold' \in 0 .. span'
  BY <1>2, <1>3, Limits
<1>5. ButtonTypeOK'
  BY <1>1, <1>4 DEF ButtonTypeOK
<1>6. Away'
  BY <1>1, <1>2 DEF Away
<1>7. Pressed' /\ SeenAfter' /\ PressedAfter'
  BY <1>1, <1>2 DEF Pressed, SeenAfter, PressedAfter
<1>8. LastAway'
  BY <1>1, <1>2, <1>3, Limits DEF LastAway
<1> QED
  BY <1>1, <1>5, <1>6, <1>7, <1>8

LEMMA TickTracked ==
    ASSUME Tracked, Tick
    PROVE  Tracked' /\ UNCHANGED <<longFired, result>>
<1>1. /\ gap < MaxGap /\ gap' = gap + 1
      /\ delayed' = (debounced /\ (delayed \/ gap' > Idle))
      /\ UNCHANGED <<key, baseline, lastSeen, raw, debounced, longFired, clicks, result>>
  BY DEF Tick, tracker
<1>2. /\ raw \in BOOLEAN /\ debounced \in BOOLEAN /\ delayed \in BOOLEAN
      /\ gap \in 0 .. MaxGap /\ wave \in 0 .. WaveTicks
      /\ stable \in 0 .. Rebaseline /\ rawAge \in 0 .. Debounce
      /\ pressAge \in 0 .. LongAfter /\ releaseAge \in 0 .. Window
      /\ span \in 0 .. LongAfter /\ hold \in 0 .. span
  BY TrackerTypes DEF Tracked
<1>3. /\ stable' \in 0 .. Rebaseline /\ releaseAge' \in 0 .. Window /\ wave' \in 0 .. WaveTicks
  BY <1>2, Limits, Capped DEF Tick
<1>4. /\ rawAge' = IF rawAge = Debounce THEN Debounce ELSE rawAge + 1
      /\ pressAge' = IF pressAge = LongAfter THEN LongAfter ELSE pressAge + 1
      /\ span' = IF span = LongAfter THEN LongAfter ELSE span + 1
  BY <1>2, Limits, Capped DEF Tick
<1>5. hold' = IF key # baseline THEN span' ELSE hold
  BY DEF Tick
<1>6. ButtonTypeOK'
  <2>1. /\ rawAge' \in 0 .. Debounce /\ pressAge' \in 0 .. LongAfter
        /\ span' \in 0 .. LongAfter /\ hold' \in 0 .. span' /\ gap' \in 0 .. MaxGap
    BY <1>1, <1>2, <1>4, <1>5, Limits
  <2>2. delayed' \in BOOLEAN
    BY <1>1
  <2> QED
    BY <1>1, <1>3, <2>1, <2>2 DEF ButtonTypeOK, Tracked
<1>7. Pressed' /\ Away'
  BY <1>1, <1>5 DEF Pressed, Away, Tracked
<1>8. SeenAfter' /\ PressedAfter'
  BY <1>1, <1>2, <1>4, Limits DEF SeenAfter, PressedAfter, Tracked
<1>9. LastAway'
  <2> SUFFICES ASSUME debounced, ~delayed' PROVE LastAway'
    BY <1>1 DEF LastAway
  <2>1. ~delayed /\ gap' <= Idle
    <3>1. ~delayed /\ ~(gap' > Idle)
      BY <1>1, Zenon
    <3> QED
      BY <1>1, <1>2, <3>1, Limits
  <2>2. hold <= hold' /\ hold' <= LongAfter /\ hold' \in Int /\ hold \in Int
    BY <1>2, <1>4, <1>5, Limits
  <2>3. /\ gap' = gap + 1 /\ gap \in Int /\ pressAge \in Int /\ pressAge' \in Int
        /\ pressAge' <= pressAge + 1 /\ LongAfter \in Int /\ Debounce \in Int
    BY <1>1, <1>2, <1>4, Limits
  <2>4. ASSUME raw PROVE hold' = LongAfter \/ hold' + gap' >= pressAge' + Debounce
    <3>1. hold = LongAfter \/ hold + gap >= pressAge + Debounce
      BY <2>1, <2>4 DEF LastAway, Tracked
    <3> QED
      BY <2>2, <2>3, <3>1, StillLong
  <2>5. ASSUME ~raw PROVE \/ rawAge' >= Debounce
                          \/ hold' = LongAfter
                          \/ hold' + Idle + rawAge' >= pressAge' + Debounce
    <3>1. rawAge >= Debounce \/ hold = LongAfter \/ hold + Idle + rawAge >= pressAge + Debounce
      BY <2>1, <2>5 DEF LastAway, Tracked
    <3>2. CASE rawAge >= Debounce
      BY <1>2, <1>4, <3>2, Limits
    <3>3. CASE ~(rawAge >= Debounce)
      <4>1. Idle + rawAge \in Int /\ rawAge' = rawAge + 1
        BY <1>2, <1>4, <3>3, Limits
      <4>2. hold = LongAfter \/ hold + (Idle + rawAge) >= pressAge + Debounce
        BY <1>2, <2>2, <3>1, <3>3, Limits
      <4>3. hold' = LongAfter \/ hold' + ((Idle + rawAge) + 1) >= pressAge' + Debounce
        BY <2>2, <2>3, <4>1, <4>2, StillLong
      <4> QED
        BY <1>2, <2>2, <4>1, <4>3, Limits
    <3> QED
      BY <3>2, <3>3
  <2> QED
    BY <1>1, <2>1, <2>4, <2>5 DEF LastAway
<1> QED
  BY <1>1, <1>6, <1>7, <1>8, <1>9 DEF Tracked

\* A scan that changes neither what counts as pressed nor when it was pressed.
LEMMA SeeKeeps ==
    ASSUME Tracked, See, gap' = 0, UNCHANGED <<key, span, hold, delayed>>,
           debounced' => debounced /\ pressAge' = pressAge
    PROVE  Away' /\ SeenAfter' /\ PressedAfter' /\ LastAway'
<1>1. /\ baseline' = baseline /\ (raw' <=> key # baseline)
      /\ rawAge' = IF (key # baseline) = raw THEN rawAge ELSE 0
  BY DEF See, Active, RawAge
<1>2. /\ raw \in BOOLEAN
      /\ gap \in 0 .. MaxGap /\ rawAge \in 0 .. Debounce /\ pressAge \in 0 .. LongAfter
      /\ span \in 0 .. LongAfter /\ hold \in 0 .. span
  BY TrackerTypes DEF Tracked
<1>3. \/ (raw <=> raw') /\ rawAge' = rawAge
      \/ ~(raw <=> raw') /\ rawAge' = 0
  <2>1. ((key # baseline) = raw) <=> (raw <=> raw')
    BY <1>1, <1>2, Zenon
  <2> QED
    BY <1>1, <2>1
<1>4. Away'
  BY <1>1 DEF Away, Tracked
<1>5. SeenAfter'
  BY <1>2, <1>3 DEF SeenAfter, Tracked
<1>6. PressedAfter'
  BY DEF PressedAfter, Tracked
<1>7. LastAway'
  <2> SUFFICES ASSUME debounced', ~delayed PROVE LastAway'
    BY DEF LastAway
  <2>1. debounced /\ pressAge' = pressAge /\ gap <= Idle
    BY DEF LastAway, Tracked
  <2>2. ASSUME raw' PROVE hold' = LongAfter \/ hold' + gap' >= pressAge' + Debounce
    <3>1. hold = span
      BY <1>1, <2>2 DEF Away, Tracked
    <3>2. span = LongAfter \/ span >= pressAge + Debounce
      BY <2>1 DEF PressedAfter, Tracked
    <3> QED
      BY <1>2, <2>1, <3>1, <3>2, Limits
  <2>3. ASSUME ~raw' PROVE \/ rawAge' >= Debounce
                           \/ hold' = LongAfter
                           \/ hold' + Idle + rawAge' >= pressAge' + Debounce
    <3>1. CASE raw
      <4>1. rawAge' = 0
        BY <1>3, <2>3, <3>1
      <4>2. hold = LongAfter \/ hold + gap >= pressAge + Debounce
        BY <2>1, <3>1 DEF LastAway, Tracked
      <4> QED
        BY <1>2, <2>1, <4>1, <4>2, Limits
    <3>2. CASE ~raw
      <4>1. rawAge' = rawAge
        BY <1>3, <2>3, <3>2
      <4>2. rawAge >= Debounce \/ hold = LongAfter \/ hold + Idle + rawAge >= pressAge + Debounce
        BY <2>1, <3>2 DEF LastAway, Tracked
      <4> QED
        BY <2>1, <4>1, <4>2
    <3> QED
      BY <3>1, <3>2
  <2>4. gap' <= Idle
    BY Limits
  <2> QED
    BY <2>2, <2>3, <2>4 DEF LastAway
<1> QED
  BY <1>4, <1>5, <1>6, <1>7

LEMMA SeeTypes ==
    ASSUME Tracked, See, gap' = 0, UNCHANGED <<key, span, hold, delayed>>,
           debounced' \in BOOLEAN, longFired' \in BOOLEAN, clicks' \in 0 .. 1,
           pressAge' \in 0 .. LongAfter, releaseAge' \in 0 .. Window, wave' \in 0 .. WaveTicks,
           result' \in {"none", "single", "double", "long", "release"}
    PROVE  ButtonTypeOK'
<1>1. /\ baseline' = baseline /\ lastSeen' = key /\ (raw' <=> key # baseline)
      /\ raw' \in BOOLEAN
      /\ stable' \in {stable, 0} /\ rawAge' \in {rawAge, 0}
  BY DEF See, Active, RawAge
<1>2. /\ 0 \in 0 .. Rebaseline /\ 0 \in 0 .. Debounce /\ 0 \in 0 .. MaxGap
  BY Limits
<1>3. stable' \in 0 .. Rebaseline /\ rawAge' \in 0 .. Debounce /\ gap' \in 0 .. MaxGap
  BY <1>1, <1>2, TrackerTypes DEF Tracked
<1> QED
  BY <1>1, <1>3, TrackerTypes DEF ButtonTypeOK, Tracked

\* What a scan does to the long press and says of it.
ScanSays ==
    \/ result' = "none" /\ longFired' = longFired
    \/ result' \in {"single", "double"} /\ ~longFired /\ longFired' = longFired
    \/ /\ result' = "long" /\ ~longFired /\ longFired' /\ hold' = hold
       /\ delayed \/ hold + Idle > LongAfter
    \/ result' = "release" /\ longFired /\ ~longFired'

LEMMA ScanTracked == ASSUME Tracked, Scan PROVE Tracked' /\ ScanSays
<1>0. gap' = 0 /\ UNCHANGED key
  BY DEF Scan
<1>t. /\ clicks \in 0 .. 1 /\ wave \in 0 .. WaveTicks /\ pressAge \in 0 .. LongAfter
      /\ releaseAge \in 0 .. Window /\ longFired \in BOOLEAN /\ debounced \in BOOLEAN
  BY TrackerTypes DEF Tracked
<1>r. raw \in BOOLEAN
  BY TrackerTypes DEF Tracked
<1>z. /\ 0 \in 0 .. WaveTicks /\ WaveTicks \in 0 .. WaveTicks /\ 0 \in 0 .. LongAfter
      /\ 0 \in 0 .. Window /\ 0 \in 0 .. 1 /\ 1 \in 0 .. 1
  BY Limits
<1>1. ASSUME Adopt PROVE Tracked' /\ ScanSays
  <2>1. /\ ~longFired /\ baseline' = key /\ lastSeen' = key
        /\ raw' = FALSE /\ debounced' = FALSE /\ longFired' = FALSE /\ clicks' = 0 /\ stable' = 0
        /\ result' = "none" /\ span' = 0 /\ hold' = 0
        /\ UNCHANGED <<rawAge, pressAge, releaseAge, wave, delayed>>
    BY <1>1 DEF Adopt, Adopts
  <2>2. 0 \in 0 .. Rebaseline /\ 0 \in 0 .. MaxGap /\ 0 \in 0 .. 0
    BY Limits
  <2>3. ButtonTypeOK'
    BY <1>0, <1>z, <2>1, <2>2, TrackerTypes DEF ButtonTypeOK, Tracked
  <2>4. ScanSays
    BY <1>t, <2>1 DEF ScanSays
  <2> QED
    BY <1>0, <2>1, <2>3, <2>4
       DEF Tracked, Pressed, Away, SeenAfter, PressedAfter, LastAway
<1>2. ASSUME Press PROVE Tracked' /\ ScanSays
  <2>1. /\ See /\ UNCHANGED <<span, hold, delayed, clicks, releaseAge, wave>>
        /\ debounced' = TRUE /\ longFired' = FALSE /\ pressAge' = 0 /\ result' = "none"
    BY <1>2 DEF Press, history
  <2>2. ~debounced /\ key # baseline /\ RawAge >= Debounce
    BY <1>2, <1>t DEF Press, Settles, Active
  <2>3. ~longFired
    BY <2>2 DEF Pressed, Tracked
  <2>4. ButtonTypeOK'
    BY <1>0, <1>t, <1>z, <2>1, SeeTypes
  <2>5. raw /\ rawAge >= Debounce
    <3>1. Active = raw /\ RawAge = rawAge
      BY <2>2, Limits DEF RawAge
    <3>2. raw
      BY <2>2, <3>1, Zenon DEF Active
    <3> QED
      BY <2>2, <3>1, <3>2
  <2>6. hold = span /\ (span = LongAfter \/ span >= Debounce)
    <3>1. hold = span /\ (span = LongAfter \/ span >= rawAge)
      BY <2>2, <2>5 DEF Away, SeenAfter, Tracked
    <3>2. rawAge = Debounce
      BY <2>5, Limits, TrackerTypes DEF Tracked
    <3> QED
      BY <3>1, <3>2
  <2>7. raw' /\ baseline' = baseline /\ rawAge' = rawAge
    BY <2>1, <2>2, <2>5 DEF See, Active, RawAge
  <2>8. span \in Int /\ hold \in Int
    BY Limits, TrackerTypes DEF Tracked
  <2>9. Pressed' /\ Away'
    BY <1>0, <2>1, <2>6 DEF Pressed, Away
  <2>10. SeenAfter'
    BY <2>1, <2>5, <2>7 DEF SeenAfter, Tracked
  <2>11. PressedAfter'
    BY <2>1, <2>6, <2>8, Limits DEF PressedAfter
  <2>12. LastAway'
    BY <1>0, <2>1, <2>6, <2>7, <2>8, Limits DEF LastAway
  <2>13. ScanSays
    BY <1>t, <2>1, <2>3 DEF ScanSays
  <2> QED
    BY <2>4, <2>9, <2>10, <2>11, <2>12, <2>13 DEF Tracked
<1>3. ASSUME FirstClick PROVE Tracked' /\ ScanSays
  <2>1. /\ See /\ UNCHANGED <<span, hold, delayed, longFired, pressAge, wave>> /\ ~longFired
        /\ debounced' = FALSE /\ clicks' = 1 /\ releaseAge' = 0 /\ result' = "none"
    BY <1>3 DEF FirstClick, history
  <2>2. ButtonTypeOK'
    BY <1>0, <1>t, <1>z, <2>1, SeeTypes
  <2>3. Away' /\ SeenAfter' /\ PressedAfter' /\ LastAway'
    BY <1>0, <2>1, SeeKeeps
  <2> QED
    BY <2>1, <2>2, <2>3 DEF Tracked, Pressed, ScanSays
<1>4. ASSUME DoubleClick PROVE Tracked' /\ ScanSays
  <2>1. /\ See /\ UNCHANGED <<span, hold, delayed, longFired, pressAge, wave>> /\ ~longFired
        /\ debounced' = FALSE /\ clicks' = 0 /\ releaseAge' = 0 /\ result' = "double"
    BY <1>4 DEF DoubleClick, history
  <2>2. ButtonTypeOK'
    BY <1>0, <1>t, <1>z, <2>1, SeeTypes
  <2>3. Away' /\ SeenAfter' /\ PressedAfter' /\ LastAway'
    BY <1>0, <2>1, SeeKeeps
  <2> QED
    BY <2>1, <2>2, <2>3 DEF Tracked, Pressed, ScanSays
<1>5. ASSUME Release PROVE Tracked' /\ ScanSays
  <2>1. /\ See /\ UNCHANGED <<span, hold, delayed, clicks, pressAge, releaseAge>>
        /\ longFired /\ debounced' = FALSE /\ longFired' = FALSE /\ wave' = 0 /\ result' = "release"
    BY <1>5 DEF Release, history
  <2>2. ButtonTypeOK'
    BY <1>0, <1>t, <1>z, <2>1, SeeTypes
  <2>3. Away' /\ SeenAfter' /\ PressedAfter' /\ LastAway'
    BY <1>0, <2>1, SeeKeeps
  <2> QED
    BY <2>1, <2>2, <2>3 DEF Tracked, Pressed, ScanSays
<1>6. ASSUME Long PROVE Tracked' /\ ScanSays
  <2>1. /\ See
        /\ UNCHANGED <<span, hold, delayed, debounced, pressAge, releaseAge>>
        /\ ~longFired /\ debounced /\ longFired' = TRUE /\ clicks' = 0 /\ wave' = WaveTicks
        /\ result' = "long" /\ pressAge >= LongAfter /\ ~Settles
    BY <1>6 DEF Long, history
  <2>2. ButtonTypeOK'
    BY <1>0, <1>t, <1>z, <2>1, SeeTypes
  <2>3. Away' /\ SeenAfter' /\ PressedAfter' /\ LastAway'
    BY <1>0, <2>1, SeeKeeps
  <2>4. ASSUME ~delayed PROVE hold + Idle > LongAfter
    <3>1. /\ gap \in 0 .. MaxGap /\ rawAge \in 0 .. Debounce /\ pressAge = LongAfter
          /\ span \in 0 .. LongAfter /\ hold \in 0 .. span /\ gap <= Idle
      BY <2>1, <2>4, Limits, TrackerTypes DEF LastAway, Tracked
    <3>2. CASE key # baseline
      <4>1. hold = span /\ (span = LongAfter \/ span >= pressAge + Debounce)
        BY <2>1, <3>2 DEF Away, PressedAfter, Tracked
      <4> QED
        BY <3>1, <4>1, Limits
    <3>3. CASE key = baseline /\ raw
      <4>1. hold = LongAfter \/ hold + gap >= pressAge + Debounce
        BY <2>1, <2>4, <3>3 DEF LastAway, Tracked
      <4> QED
        BY <3>1, <4>1, Limits
    <3>4. CASE key = baseline /\ ~raw
      <4>1. ~(rawAge >= Debounce)
        <5>1. Active = raw /\ ~Active /\ debounced
          BY <1>r, <2>1, <3>4, Zenon DEF Active
        <5> QED
          BY <2>1, <5>1 DEF Settles, RawAge
      <4>2. hold = LongAfter \/ hold + Idle + rawAge >= pressAge + Debounce
        BY <2>1, <2>4, <3>4, <4>1 DEF LastAway, Tracked
      <4> QED
        BY <3>1, <4>1, <4>2, Limits
    <3> QED
      BY <3>2, <3>3, <3>4
  <2>5. ScanSays
    BY <2>1, <2>4 DEF ScanSays
  <2> QED
    BY <2>1, <2>2, <2>3, <2>5 DEF Tracked, Pressed
<1>7. ASSUME SingleClick PROVE Tracked' /\ ScanSays
  <2>1. /\ See
        /\ UNCHANGED <<span, hold, delayed, debounced, longFired, pressAge, releaseAge>>
        /\ ~debounced /\ clicks' = 0 /\ wave' = 0 /\ result' = "single"
    BY <1>7 DEF SingleClick, history
  <2>2. ButtonTypeOK'
    BY <1>0, <1>t, <1>z, <2>1, SeeTypes
  <2>3. Away' /\ SeenAfter' /\ PressedAfter' /\ LastAway'
    BY <1>0, <2>1, SeeKeeps
  <2> QED
    BY <2>1, <2>2, <2>3 DEF Tracked, Pressed, ScanSays
<1>8. ASSUME Quiet PROVE Tracked' /\ ScanSays
  <2>1. /\ See /\ result' = "none"
        /\ UNCHANGED <<span, hold, delayed, debounced, longFired, clicks, pressAge, releaseAge, wave>>
    BY <1>8 DEF Quiet, history
  <2>2. ButtonTypeOK'
    BY <1>0, <1>t, <1>z, <2>1, SeeTypes
  <2>3. Away' /\ SeenAfter' /\ PressedAfter' /\ LastAway'
    BY <1>0, <2>1, SeeKeeps
  <2> QED
    BY <2>1, <2>2, <2>3 DEF Tracked, Pressed, ScanSays
<1> QED
  BY <1>1, <1>2, <1>3, <1>4, <1>5, <1>6, <1>7, <1>8 DEF Scan, Update

LEMMA TrackerStep == Tracked /\ [ButtonNext]_buttonVars => Tracked'
<1> SUFFICES ASSUME Tracked, [ButtonNext]_buttonVars PROVE Tracked'
  OBVIOUS
<1>1. ASSUME UNCHANGED buttonVars PROVE Tracked'
  BY <1>1 DEF Tracked, buttonVars, tracker, ages, history, ButtonTypeOK,
     Pressed, Away, SeenAfter, PressedAfter, LastAway
<1> QED
  BY <1>1, KeyMovesTracked, TickTracked, ScanTracked DEF ButtonNext

\* The tracker's variables keep their types: no age passes its limit, no click is
\* counted twice, and the key was not away for longer than since it left.
THEOREM TrackerTypeCorrect == ButtonSpec => []ButtonTypeOK
<1>1. Tracked => ButtonTypeOK
  BY DEF Tracked
<1> QED
  BY TrackerInit, TrackerStep, <1>1, PTL DEF ButtonSpec

\* What update() returns, scan by scan, is what the readers of the events rely on:
\* long presses and releases alternate, with no click between them.
THEOREM KeepsProtocol == ButtonSpec => ImplementsProtocol
<1>1. ButtonInit => Reported!Init
  BY DEF ButtonInit, Reported!Init
<1>2. Tracked /\ [ButtonNext]_buttonVars => [Reported!Next]_(Reported!vars)
  <2> SUFFICES ASSUME Tracked, ButtonNext \/ UNCHANGED buttonVars
               PROVE  Reported!Next \/ UNCHANGED Reported!vars
    OBVIOUS
  <2> USE DEF Reported!vars
  <2>1. ASSUME Scan PROVE Reported!Next
    <3>1. ScanSays
      BY <2>1, ScanTracked
    <3> QED
      BY <3>1 DEF ScanSays, Reported!Next, Reported!LongPress,
         Reported!LongRelease, Reported!Click, Reported!Silent
  <2>2. ASSUME NEW m \in Masks, KeyMoves(m) PROVE UNCHANGED Reported!vars
    BY <2>2, KeyMovesTracked
  <2>3. Tick => UNCHANGED Reported!vars
    BY TickTracked
  <2>4. UNCHANGED buttonVars => UNCHANGED Reported!vars
    BY DEF buttonVars, tracker
  <2> QED
    BY <2>1, <2>2, <2>3, <2>4 DEF ButtonNext
<1> QED
  BY TrackerInit, TrackerStep, <1>1, <1>2, PTL
     DEF ButtonSpec, ImplementsProtocol, Reported!Spec

\* However the key bounces, a press is long only if the key was held that long,
\* give or take one interval between scans that come in time.
THEOREM LongIsHeld == ButtonSpec => LongMeansHeld
<1>1. Tracked /\ [ButtonNext]_buttonVars =>
         [longFired' /\ ~longFired /\ ~delayed => hold + Idle > LongAfter]_buttonVars
  <2> SUFFICES ASSUME Tracked, ButtonNext, longFired', ~longFired, ~delayed
               PROVE  hold + Idle > LongAfter
    OBVIOUS
  <2>1. ASSUME Scan PROVE hold + Idle > LongAfter
    BY <2>1, ScanTracked DEF ScanSays
  <2> QED
    BY <2>1, KeyMovesTracked, TickTracked DEF ButtonNext
<1> QED
  BY TrackerInit, TrackerStep, <1>1, PTL DEF ButtonSpec, LongMeansHeld

-----------------------------------------------------------------------------
(* The page: its inductive invariant *)

\* A microphone records only for the input the page shows and did not stop, and
\* a recorder whose tracks are live is at work or stopping.
VoiceOK ==
    /\ session \in Slot(Inputs) /\ mic \subseteq Inputs
    /\ outcome \in {"none", "sent", "dropped"} /\ input \in [Inputs -> Recording]
    /\ \A s \in Inputs :
          /\ input[s].phase = "over" => input[s] = Unused /\ s # session
          /\ input[s].phase = "recording" => s = session /\ ~input[s].stop
          /\ s \in mic => input[s].phase \in {"recording", "stopping"}

\* What is heard is the page's audio, which is that of the page's answer.
SpeechOK ==
    /\ request \in Slot(Requests) /\ unasked \in BOOLEAN
    /\ fetching \subseteq Requests /\ sounding \subseteq Requests
    /\ audio \in {None, request} /\ sounding \subseteq {audio}

Switched == wsOpen \in BOOLEAN /\ inputPending \in BOOLEAN /\ autoTts \in BOOLEAN

\* Nothing unasked is on its way to be spoken into a recording or a draft.
Asked == (session # None \/ inputPending) /\ request # None => ~unasked

PageOK == VoiceOK /\ SpeechOK /\ Switched /\ Asked

\* The page's recording goes on, ends, or is a new one.
GoesOn == session' # None => /\ session' = session
                             /\ input'[session].source = input[session].source
                             /\ input'[session].press = input[session].press
Starts(source, press) == /\ session = None /\ session' # None
                         /\ input'[session'].source = source
                         /\ input'[session'].press = press

\* Only the transcript of the page's recording is sent.
SendsCurrent == outcome' \notin {"none", outcome} =>
    session # None /\ session' = None /\ input[session].phase = "transcribing"

Handled(source, press) == PageOK' /\ SendsCurrent /\ (GoesOn \/ Starts(source, press))

LEMMA PageInitOK == PageInit => PageOK
<1> SUFFICES ASSUME PageInit PROVE PageOK
  OBVIOUS
<1>1. Unused \in Recording
  BY TalkAssumption DEF Unused, Recording, Sources, Phases
<1> QED
  BY <1>1, PageAssumption DEF PageInit, PageOK, VoiceOK, SpeechOK, Switched, Asked, Slot, Unused

-----------------------------------------------------------------------------
(* The page: spoken answers *)

LEMMA StopSpeakingEffect ==
    ASSUME SpeechOK, StopSpeaking
    PROVE  SpeechOK' /\ request' = None /\ unasked' = FALSE
BY DEF SpeechOK, StopSpeaking, Slot

LEMMA SpeakEffect ==
    ASSUME SpeechOK, NEW b \in BOOLEAN, Speak(b)
    PROVE  SpeechOK' /\ unasked' = b
<1>1. request' \in Silent
  BY DEF Speak
<1>2. request' \in Requests
  BY <1>1 DEF Silent
<1> QED
  BY <1>2 DEF SpeechOK, Speak, Slot

\* A step of the spoken answers leaves the recording alone.
LEMMA SpeechStep ==
    ASSUME PageOK, SpeechOK', UNCHANGED voice, UNCHANGED <<wsOpen, inputPending>>,
           autoTts' \in BOOLEAN,
           \/ request' = None \/ unasked' = FALSE
           \/ request' = request /\ unasked' = unasked
           \/ session = None /\ ~inputPending
    PROVE  Handled("manual", 0)
<1>1. VoiceOK' /\ GoesOn /\ SendsCurrent
  BY DEF voice, PageOK, VoiceOK, GoesOn, SendsCurrent, Slot, Unused
<1>2. Switched' /\ Asked'
  BY DEF voice, PageOK, Switched, Asked
<1> QED
  BY <1>1, <1>2 DEF Handled, PageOK

LEMMA SpeechSteps ==
    ASSUME PageOK,
           \/ \E r \in Requests : Synthesised(r) \/ SpeechEnds(r)
           \/ Reply \/ AskToSpeak \/ StopButton \/ SwitchSpeech
    PROVE  Handled("manual", 0)
<1> USE DEF PageOK
<1>1. ASSUME NEW r \in Requests, Synthesised(r) PROVE Handled("manual", 0)
  <2>1. SpeechOK' /\ request' = request /\ unasked' = unasked
    <3>1. /\ r \in Requests /\ fetching' = fetching \ {r} /\ UNCHANGED <<request, unasked>>
          /\ \/ r = request /\ audio' = r /\ sounding' = sounding \cup {r}
             \/ UNCHANGED <<audio, sounding>>
      BY <1>1, Zenon DEF Synthesised
    <3>2. r = request => sounding \cup {r} \subseteq {r}
      BY PageAssumption DEF SpeechOK
    <3> QED
      BY <3>1, <3>2 DEF SpeechOK
  <2> QED
    BY <1>1, <2>1, SpeechStep DEF Synthesised, switches, Switched
<1>2. ASSUME NEW r \in Requests, SpeechEnds(r) PROVE Handled("manual", 0)
  <2>1. SpeechOK' /\ (request' = None \/ (request' = request /\ unasked' = unasked))
    <3>1. /\ fetching' = fetching \ {r} /\ sounding' = sounding \ {r}
          /\ \/ r = request /\ request' = None /\ unasked' = FALSE /\ audio' = None
             \/ UNCHANGED <<request, unasked, audio>>
      BY <1>2, Zenon DEF SpeechEnds
    <3>2. CASE r = request /\ request' = None /\ unasked' = FALSE /\ audio' = None
      BY <3>1, <3>2 DEF SpeechOK, Slot
    <3>3. CASE UNCHANGED <<request, unasked, audio>>
      BY <3>1, <3>3 DEF SpeechOK, Slot
    <3> QED
      BY <3>1, <3>2, <3>3
  <2> QED
    BY <1>2, <2>1, SpeechStep DEF SpeechEnds, switches, Switched
<1>3. ASSUME Reply PROVE Handled("manual", 0)
  <2>1. CASE autoTts /\ ~inputPending /\ session = None
    <3>1. SpeechOK'
      BY <1>3, <2>1, SpeakEffect DEF Reply
    <3> QED
      BY <1>3, <2>1, <3>1, SpeechStep DEF Reply, switches, Switched
  <2>2. CASE ~(autoTts /\ ~inputPending /\ session = None)
    <3>1. SpeechOK' /\ request' = request /\ unasked' = unasked
      BY <1>3, <2>2 DEF Reply, speech, SpeechOK
    <3> QED
      BY <1>3, <3>1, SpeechStep DEF Reply, switches, Switched
  <2> QED
    BY <2>1, <2>2
<1>4. ASSUME AskToSpeak PROVE Handled("manual", 0)
  <2>1. SpeechOK' /\ unasked' = FALSE
    BY <1>4, SpeakEffect DEF AskToSpeak
  <2> QED
    BY <1>4, <2>1, SpeechStep DEF AskToSpeak, switches, Switched
<1>5. ASSUME StopButton PROVE Handled("manual", 0)
  <2>1. SpeechOK' /\ request' = None
    BY <1>5, StopSpeakingEffect DEF StopButton
  <2> QED
    BY <1>5, <2>1, SpeechStep DEF StopButton, switches, Switched
<1>6. ASSUME SwitchSpeech PROVE Handled("manual", 0)
  <2>1. SpeechOK' /\ (request' = None \/ (request' = request /\ unasked' = unasked))
    <3>1. StopSpeaking \/ UNCHANGED speech
      BY <1>6, Zenon DEF SwitchSpeech
    <3>2. CASE UNCHANGED speech
      BY <3>2 DEF speech, SpeechOK
    <3>3. CASE StopSpeaking
      BY <3>3, StopSpeakingEffect
    <3> QED
      BY <3>1, <3>2, <3>3
  <2>2. autoTts' \in BOOLEAN
    BY <1>6 DEF SwitchSpeech
  <2> QED
    BY <1>6, <2>1, <2>2, SpeechStep DEF SwitchSpeech
<1> QED
  BY <1>1, <1>2, <1>3, <1>4, <1>5, <1>6

-----------------------------------------------------------------------------
(* The page: recordings *)

LEMMA Recorded ==
    ASSUME VoiceOK, NEW s \in Inputs
    PROVE  /\ input[s] \in Recording /\ input[s].source \in Sources /\ input[s].stop \in BOOLEAN
           /\ input[s].phase \in Phases /\ input[s].press \in 0 .. MaxEvents
BY DEF VoiceOK, Recording

LEMMA UnusedRecording == Unused \in Recording
BY TalkAssumption DEF Unused, Recording, Sources, Phases

\* One input changes, and the page may give up that one.
LEMMA OneInput ==
    ASSUME VoiceOK, NEW s \in Inputs, NEW r \in Recording, input' = [input EXCEPT ![s] = r],
           session' = session \/ (session \in {None, s} /\ session' \in {None, s}),
           mic' \subseteq mic \cup {s}, s \in mic' => r.phase \in {"recording", "stopping"},
           r.phase = "over" => r = Unused /\ s # session',
           r.phase = "recording" => s = session' /\ ~r.stop,
           outcome' \in {"none", "sent", "dropped"}
    PROVE  VoiceOK'
<1>1. input' \in [Inputs -> Recording] /\ input'[s] = r
  BY DEF VoiceOK
<1>2. ASSUME NEW t \in Inputs, t # s PROVE input'[t] = input[t] /\ (t \in mic' => t \in mic)
  BY <1>2 DEF VoiceOK
<1>3. ASSUME NEW t \in Inputs
      PROVE  /\ input'[t].phase = "over" => input'[t] = Unused /\ t # session'
             /\ input'[t].phase = "recording" => t = session' /\ ~input'[t].stop
             /\ t \in mic' => input'[t].phase \in {"recording", "stopping"}
  <2>1. CASE t = s
    BY <1>1, <2>1
  <2>2. CASE t # s
    <3>1. /\ input[t].phase = "over" => input[t] = Unused /\ t # session
          /\ input[t].phase = "recording" => t = session /\ ~input[t].stop
          /\ t \in mic => input[t].phase \in {"recording", "stopping"}
      BY DEF VoiceOK
    <3>2. t = session <=> t = session'
      BY <2>2, PageAssumption
    <3> QED
      BY <1>2, <2>2, <3>1, <3>2
  <2> QED
    BY <2>1, <2>2
<1> QED
  BY <1>1, <1>3 DEF VoiceOK, Slot

LEMMA SpeechSame ==
    ASSUME PageOK, UNCHANGED <<speech, switches>>, session' \in {session, None}
    PROVE  SpeechOK' /\ Switched' /\ Asked'
BY DEF speech, switches, PageOK, SpeechOK, Switched, Asked

\* An answer of the browser or of the server for input s.
LEMMA InputStep ==
    ASSUME PageOK, SpeechOK', Switched', Asked', SendsCurrent,
           NEW s \in Inputs, NEW r \in Recording, input' = [input EXCEPT ![s] = r],
           \/ session' = session
           \/ s = session /\ session' = None,
           mic' \subseteq mic \cup {s}, s \in mic' => r.phase \in {"recording", "stopping"},
           r.phase = "over" => r = Unused /\ s # session',
           r.phase = "recording" => s = session' /\ ~r.stop,
           s = session' => r.source = input[s].source /\ r.press = input[s].press,
           outcome' \in {"none", "sent", "dropped"}
    PROVE  Handled("manual", 0)
<1>1. VoiceOK'
  BY OneInput DEF PageOK, VoiceOK, Slot
<1>2. GoesOn
  BY DEF GoesOn, PageOK, VoiceOK, Slot
<1> QED
  BY <1>1, <1>2 DEF Handled, PageOK

LEMMA PhaseSet ==
    ASSUME VoiceOK, NEW s \in Inputs, NEW p \in Phases,
           input' = [input EXCEPT ![s].phase = p]
    PROVE  \E r \in Recording :
              /\ input' = [input EXCEPT ![s] = r] /\ r.phase = p
              /\ r.stop = input[s].stop /\ r.source = input[s].source /\ r.press = input[s].press
<1> DEFINE r == [input[s] EXCEPT !.phase = p]
<1>1. /\ r \in Recording /\ r.phase = p
      /\ r.stop = input[s].stop /\ r.source = input[s].source /\ r.press = input[s].press
  BY Recorded DEF Recording
<1>2. input' = [input EXCEPT ![s] = r]
  OBVIOUS
<1> QED
  BY <1>1, <1>2

LEMMA GrantedStep ==
    ASSUME PageOK, NEW s \in Inputs, Granted(s)
    PROVE  Handled("manual", 0)
<1> USE DEF PageOK
<1>1. CASE s = session /\ ~input[s].stop
  <2>1. /\ input' = [input EXCEPT ![s].phase = "recording"] /\ mic' = mic \cup {s}
        /\ UNCHANGED <<session, outcome, speech, switches>>
    BY <1>1, Zenon DEF Granted
  <2>2. "recording" \in Phases
    BY DEF Phases
  <2>3. PICK r \in Recording :
           /\ input' = [input EXCEPT ![s] = r] /\ r.phase = "recording"
           /\ r.stop = input[s].stop /\ r.source = input[s].source /\ r.press = input[s].press
    BY <2>1, <2>2, PhaseSet
  <2>4. SpeechOK' /\ Switched' /\ Asked'
    BY <2>1, SpeechSame
  <2> QED
    BY <1>1, <2>1, <2>3, <2>4, InputStep DEF SendsCurrent, VoiceOK
<1>2. CASE ~(s = session /\ ~input[s].stop)
  <2>1. input' = [input EXCEPT ![s] = Unused] /\ UNCHANGED <<mic, outcome, speech, switches>>
    BY <1>2, Zenon DEF Granted, Over
  <2>2. session' = IF s = session THEN None ELSE session
    BY <1>2, Zenon DEF Granted, Finish
  <2>3. SpeechOK' /\ Switched' /\ Asked'
    BY <2>1, <2>2, SpeechSame
  <2>4. s \notin mic
    BY DEF Granted, VoiceOK
  <2> QED
    BY <2>1, <2>2, <2>3, <2>4, InputStep, UnusedRecording, PageAssumption
       DEF SendsCurrent, VoiceOK, Unused
<1> QED
  BY <1>1, <1>2

\* The recording is given up: its callbacks have all come.
LEMMA OverStep ==
    ASSUME PageOK, NEW s \in Inputs, Over(s), Finish(s), s \notin mic', mic' \subseteq mic,
           UNCHANGED <<outcome, speech, switches>>
    PROVE  Handled("manual", 0)
<1> USE DEF PageOK
<1>1. input' = [input EXCEPT ![s] = Unused]
  BY Zenon DEF Over
<1>2. session' = IF s = session THEN None ELSE session
  BY Zenon DEF Finish
<1>3. SpeechOK' /\ Switched' /\ Asked'
  BY <1>2, SpeechSame
<1> QED
  BY <1>1, <1>2, <1>3, InputStep, UnusedRecording, PageAssumption DEF SendsCurrent, VoiceOK, Unused

LEMMA RecorderFailsStep ==
    ASSUME PageOK, NEW s \in Inputs, RecorderFails(s)
    PROVE  Handled("manual", 0)
<1> USE DEF PageOK
<1>1. /\ input' = [input EXCEPT ![s].phase = "stopping"] /\ mic' = mic \ {s}
      /\ UNCHANGED <<outcome, speech, switches>>
  BY DEF RecorderFails
<1>2. session' = IF s = session THEN None ELSE session
  BY DEF RecorderFails, Finish
<1>3. "stopping" \in Phases
  BY DEF Phases
<1>4. PICK r \in Recording :
         /\ input' = [input EXCEPT ![s] = r] /\ r.phase = "stopping"
         /\ r.stop = input[s].stop /\ r.source = input[s].source /\ r.press = input[s].press
  BY <1>1, <1>3, PhaseSet
<1>5. SpeechOK' /\ Switched' /\ Asked'
  BY <1>1, <1>2, SpeechSame
<1> QED
  BY <1>1, <1>2, <1>4, <1>5, InputStep DEF SendsCurrent, VoiceOK

LEMMA RecorderStopsStep ==
    ASSUME PageOK, NEW s \in Inputs, RecorderStops(s)
    PROVE  Handled("manual", 0)
<1> USE DEF PageOK
<1>1. mic' = mic \ {s} /\ UNCHANGED <<outcome, speech, switches>>
  BY DEF RecorderStops
<1>2. CASE s = session /\ input' = [input EXCEPT ![s].phase = "transcribing"] /\ UNCHANGED session
  <2>1. "transcribing" \in Phases
    BY DEF Phases
  <2>2. PICK r \in Recording :
           /\ input' = [input EXCEPT ![s] = r] /\ r.phase = "transcribing"
           /\ r.stop = input[s].stop /\ r.source = input[s].source /\ r.press = input[s].press
    BY <1>2, <2>1, PhaseSet
  <2>3. SpeechOK' /\ Switched' /\ Asked'
    BY <1>1, <1>2, SpeechSame
  <2>4. /\ SendsCurrent /\ outcome' \in {"none", "sent", "dropped"}
        /\ mic' \subseteq mic \cup {s} /\ s \notin mic'
    BY <1>1 DEF SendsCurrent, VoiceOK
  <2>5. session' = session /\ s = session'
    BY <1>2
  <2>6. VoiceOK'
    BY <2>2, <2>4, <2>5, OneInput
  <2>7. GoesOn
    BY <2>2, <2>5 DEF GoesOn, VoiceOK
  <2> QED
    BY <2>3, <2>4, <2>6, <2>7 DEF Handled
<1>3. CASE Over(s) /\ Finish(s)
  BY <1>1, <1>3, OverStep
<1> QED
  BY <1>2, <1>3 DEF RecorderStops

\* A text is sent, or there is no terminal to send it to.
LEMMA SendVoiceTextEffect ==
    ASSUME SpeechOK, inputPending \in BOOLEAN, SendVoiceText
    PROVE  /\ SpeechOK' /\ inputPending' \in BOOLEAN
           /\ \/ request' = None
              \/ UNCHANGED <<inputPending, request, unasked>>
<1>1. CASE inputPending' = FALSE /\ StopSpeaking
  BY <1>1, StopSpeakingEffect
<1>2. CASE UNCHANGED <<inputPending, speech>>
  BY <1>2 DEF speech, SpeechOK
<1> QED
  BY <1>1, <1>2 DEF SendVoiceText

LEMMA TranscribedStep ==
    ASSUME PageOK, NEW s \in Inputs, Transcribed(s)
    PROVE  Handled("manual", 0)
<1> USE DEF PageOK
<1>1. /\ input[s].phase = "transcribing" /\ s \notin mic
      /\ input' = [input EXCEPT ![s] = Unused] /\ UNCHANGED <<mic, wsOpen, autoTts>>
  BY DEF Transcribed, Over, VoiceOK
<1>2. CASE s # session
  BY <1>1, <1>2, OverStep DEF Transcribed, switches
<1>3. CASE s = session
  <2>1. /\ session' = None /\ SendVoiceText
        /\ outcome' = IF wsOpen THEN "sent" ELSE "dropped"
    BY <1>3 DEF Transcribed, Finish
  <2>2. /\ SpeechOK' /\ inputPending' \in BOOLEAN
        /\ \/ request' = None
           \/ UNCHANGED <<inputPending, request, unasked>>
    BY <2>1, SendVoiceTextEffect DEF Switched
  <2>3. Switched' /\ Asked'
    BY <1>1, <2>1, <2>2 DEF Switched, Asked
  <2>4. SendsCurrent /\ outcome' \in {"none", "sent", "dropped"}
    BY <1>1, <1>3, <2>1, PageAssumption DEF SendsCurrent
  <2> QED
    BY <1>1, <1>3, <2>1, <2>2, <2>3, <2>4, InputStep, UnusedRecording, PageAssumption
       DEF VoiceOK, Unused
<1> QED
  BY <1>2, <1>3

\* An input that nobody waits for becomes the page's, and the speech is over.
LEMMA StartEffect ==
    ASSUME PageOK, NEW source \in Sources, NEW press \in 0 .. MaxEvents,
           StartVoiceInput(source, press), wsOpen' \in BOOLEAN, autoTts' \in BOOLEAN,
           inputPending' = inputPending
    PROVE  Handled(source, press)
<1> USE DEF PageOK
<1>1. CASE session # None
  <2>1. UNCHANGED <<voice, speech>>
    BY <1>1, Zenon DEF StartVoiceInput
  <2>2. SpeechOK' /\ Asked' /\ Switched'
    BY <2>1 DEF voice, speech, SpeechOK, Switched, Asked
  <2>3. VoiceOK' /\ SendsCurrent /\ GoesOn
    BY <2>1 DEF voice, VoiceOK, SendsCurrent, GoesOn
  <2> QED
    BY <2>2, <2>3 DEF Handled
<1>2. CASE session = None
  <2> DEFINE r == [source |-> source, stop |-> FALSE, phase |-> "asking", press |-> press]
  <2>1. /\ Free # {} /\ session' = CHOOSE s \in Free : TRUE
        /\ input' = [input EXCEPT ![session'] = r]
        /\ outcome' = "none" /\ mic' = mic /\ StopSpeaking
    BY <1>2, Zenon DEF StartVoiceInput
  <2>2. session' \in Free
    BY <2>1
  <2>3. session' \in Inputs /\ input[session'] = Unused /\ session' \notin mic
    BY <2>2 DEF Free, VoiceOK, Unused
  <2>4. r \in Recording
    BY DEF Recording, Phases
  <2>5. VoiceOK'
    BY <1>2, <2>1, <2>3, <2>4, OneInput DEF Slot
  <2>6. SpeechOK' /\ Asked' /\ Switched'
    BY <2>1, StopSpeakingEffect DEF Asked, Switched
  <2>7. Starts(source, press) /\ SendsCurrent
    BY <1>2, <2>1, <2>3, PageAssumption DEF Starts, SendsCurrent, VoiceOK
  <2> QED
    BY <2>5, <2>6, <2>7 DEF Handled
<1> QED
  BY <1>1, <1>2

\* The page's recording is asked to stop, which it may have been before.
LEMMA StopEffect ==
    ASSUME PageOK, StopVoiceInput, UNCHANGED <<speech, switches>>
    PROVE  Handled("manual", 0)
<1> USE DEF PageOK
<1>1. UNCHANGED <<session, mic, outcome>>
  BY DEF StopVoiceInput
<1>2. SpeechOK' /\ Switched' /\ Asked'
  BY <1>1, SpeechSame
<1>3. CASE session = None
  <2>1. input' = input
    BY <1>3, Zenon DEF StopVoiceInput
  <2>2. VoiceOK' /\ SendsCurrent /\ GoesOn
    BY <1>1, <1>3, <2>1 DEF VoiceOK, SendsCurrent, GoesOn
  <2> QED
    BY <1>2, <2>2 DEF Handled
<1>4. CASE session # None
  <2>1. session \in Inputs
    BY <1>4 DEF VoiceOK, Slot
  <2> DEFINE p == IF input[session].stop THEN input[session].phase
                                        ELSE Stopped(input[session].phase)
             r == [input[session] EXCEPT !.stop = TRUE, !.phase = p]
  <2>2. input' = [input EXCEPT ![session] = r]
    BY <1>4 DEF StopVoiceInput
  <2>3. /\ r \in Recording /\ r.stop = TRUE /\ r.phase = p
        /\ r.source = input[session].source /\ r.press = input[session].press
    BY <2>1, Recorded DEF Recording, Stopped, Phases
  <2>4. p # "recording"
    BY <2>1 DEF VoiceOK, Stopped
  <2>5. session \in mic => p \in {"recording", "stopping"}
    BY <2>1 DEF VoiceOK, Stopped
  <2>6. p # "over"
    BY <2>1 DEF VoiceOK, Stopped
  <2> QED
    BY <1>1, <1>2, <2>1, <2>2, <2>3, <2>4, <2>5, <2>6, InputStep DEF SendsCurrent, VoiceOK
<1> QED
  BY <1>3, <1>4

LEMMA ToggleStep ==
    ASSUME PageOK, ToggleVoiceInput
    PROVE  Handled("manual", 0)
<1>1. CASE session # None
  <2>1. StopVoiceInput /\ UNCHANGED <<speech, switches>>
    BY <1>1, Zenon DEF ToggleVoiceInput
  <2> QED
    BY <2>1, StopEffect
<1>2. CASE session = None
  <2>1. StartVoiceInput("manual", 0) /\ UNCHANGED switches
    BY <1>2, Zenon DEF ToggleVoiceInput
  <2>2. "manual" \in Sources /\ 0 \in 0 .. MaxEvents
    BY TalkAssumption DEF Sources
  <2>3. wsOpen' \in BOOLEAN /\ autoTts' \in BOOLEAN /\ inputPending' = inputPending
    BY <2>1 DEF switches, PageOK, Switched
  <2> QED
    BY <2>1, <2>2, <2>3, StartEffect
<1> QED
  BY <1>1, <1>2

LEMMA TypesStep ==
    ASSUME PageOK, Types
    PROVE  Handled("manual", 0)
<1> USE DEF PageOK
<1>1. SpeechOK' /\ request' = None
  BY StopSpeakingEffect DEF Types
<1>2. VoiceOK' /\ GoesOn /\ SendsCurrent
  BY DEF Types, voice, VoiceOK, GoesOn, SendsCurrent
<1>3. Switched' /\ Asked'
  BY <1>1 DEF Types, Switched, Asked
<1> QED
  BY <1>1, <1>2, <1>3 DEF Handled

LEMMA WebSocketStep ==
    ASSUME PageOK, WebSocket
    PROVE  Handled("manual", 0)
<1> USE DEF PageOK
<1>1. VoiceOK' /\ GoesOn /\ SendsCurrent
  BY DEF WebSocket, voice, VoiceOK, GoesOn, SendsCurrent
<1>2. SpeechOK' /\ Switched' /\ Asked'
  BY DEF WebSocket, voice, speech, SpeechOK, Switched, Asked
<1> QED
  BY <1>1, <1>2 DEF Handled

\* Whatever the user, the browser and the server do, the page stays in order.
LEMMA PageStepHandled ==
    ASSUME PageOK, PageStep
    PROVE  Handled("manual", 0)
<1>1. ASSUME NEW s \in Inputs,
             \/ Granted(s) \/ Denied(s) \/ RecorderFails(s)
             \/ RecorderStops(s) \/ Transcribed(s) \/ NotTranscribed(s)
      PROVE  Handled("manual", 0)
  <2>1. ASSUME Denied(s) \/ NotTranscribed(s) PROVE Handled("manual", 0)
    <3>1. /\ Over(s) /\ Finish(s) /\ UNCHANGED <<mic, outcome, speech, switches>>
          /\ input[s].phase \in {"asking", "transcribing"}
      BY <2>1, Zenon DEF Denied, NotTranscribed
    <3>2. s \notin mic
      BY <3>1 DEF PageOK, VoiceOK
    <3> QED
      BY <3>1, <3>2, OverStep
  <2> QED
    BY <1>1, <2>1, GrantedStep, RecorderFailsStep, RecorderStopsStep, TranscribedStep
<1> QED
  BY <1>1, SpeechSteps, ToggleStep, TypesStep, WebSocketStep DEF PageStep

\* The page that is left has no recording, and stops the recorder it had.
LEMMA AbandonEffect ==
    ASSUME PageOK, Abandon
    PROVE  PageOK' /\ SendsCurrent /\ session' = None
<1> USE DEF PageOK
<1>1. session' = None /\ UNCHANGED <<mic, outcome, wsOpen, autoTts>> /\ inputPending' = FALSE
  BY DEF Abandon
<1>2. SpeechOK' /\ request' = None
  BY StopSpeakingEffect DEF Abandon
<1>3. Switched' /\ Asked' /\ SendsCurrent
  BY <1>1, <1>2 DEF Switched, Asked, SendsCurrent
<1>4. CASE session = None
  <2>1. input' = input
    BY <1>4, Zenon DEF Abandon
  <2> QED
    BY <1>1, <1>2, <1>3, <1>4, <2>1 DEF VoiceOK
<1>5. CASE session # None
  <2>1. session \in Inputs
    BY <1>5 DEF VoiceOK, Slot
  <2> DEFINE p == Stopped(input[session].phase)
  <2>2. input' = [input EXCEPT ![session].phase = p]
    BY <1>5 DEF Abandon
  <2>3. p \in Phases /\ p # "recording" /\ p # "over"
        /\ (session \in mic => p \in {"recording", "stopping"})
    BY <2>1, Recorded DEF VoiceOK, Stopped, Phases
  <2>4. PICK r \in Recording :
           /\ input' = [input EXCEPT ![session] = r] /\ r.phase = p
           /\ r.stop = input[session].stop /\ r.source = input[session].source
           /\ r.press = input[session].press
    BY <2>1, <2>2, <2>3, PhaseSet
  <2>5. VoiceOK'
    BY <1>1, <2>1, <2>3, <2>4, OneInput DEF VoiceOK
  <2> QED
    BY <1>1, <1>2, <1>3, <2>5
<1> QED
  BY <1>4, <1>5

\* An event of the button starts at most a recording by the button, under its
\* own number.
LEMMA ActHandled ==
    ASSUME PageOK, NEW n \in 1 .. MaxEvents, answer.seq = n, Act(answer.kind)
    PROVE  /\ Handled("button", n)
           /\ Starts("button", n) => answer.kind = "long"
<1> USE DEF PageOK
<1>1. CASE answer.kind = "long"
  <2>1. StartVoiceInput("button", n) /\ autoTts' = TRUE /\ UNCHANGED <<wsOpen, inputPending>>
    BY <1>1, Zenon DEF Act
  <2>2. "button" \in Sources /\ n \in 0 .. MaxEvents
    BY TalkAssumption DEF Sources
  <2>3. wsOpen' \in BOOLEAN /\ autoTts' \in BOOLEAN /\ inputPending' = inputPending
    BY <2>1 DEF Switched
  <2> QED
    BY <1>1, <2>1, <2>2, <2>3, StartEffect
<1>2. CASE answer.kind = "release"
  <2>1. UNCHANGED <<speech, switches>> /\ (StopVoiceInput \/ UNCHANGED voice)
    BY <1>2 DEF Act
  <2>2. Handled("manual", 0)
    <3>1. CASE StopVoiceInput
      BY <2>1, <3>1, StopEffect
    <3>2. CASE UNCHANGED voice
      <4>1. SpeechOK' /\ Switched' /\ Asked'
        BY <2>1, <3>2, SpeechSame DEF voice
      <4>2. VoiceOK' /\ GoesOn /\ SendsCurrent
        BY <3>2 DEF voice, VoiceOK, GoesOn, SendsCurrent
      <4> QED
        BY <4>1, <4>2 DEF Handled
    <3> QED
      BY <2>1, <3>1, <3>2
  <2>3. session' # None => session # None
    BY <2>1 DEF StopVoiceInput, voice
  <2> QED
    BY <2>2, <2>3 DEF Handled, Starts
<1>3. CASE answer.kind = "double"
  <2>1. autoTts' = TRUE /\ SendVoiceText /\ UNCHANGED <<voice, wsOpen>>
    BY <1>3, Zenon DEF Act
  <2>2. /\ SpeechOK' /\ inputPending' \in BOOLEAN
        /\ \/ request' = None
           \/ UNCHANGED <<inputPending, request, unasked>>
    BY <2>1, SendVoiceTextEffect DEF Switched
  <2>3. Switched' /\ Asked'
    BY <2>1, <2>2 DEF Switched, Asked, voice
  <2>4. VoiceOK' /\ GoesOn /\ SendsCurrent /\ ~Starts("button", n)
    BY <2>1 DEF voice, VoiceOK, GoesOn, SendsCurrent, Starts
  <2> QED
    BY <2>2, <2>3, <2>4 DEF Handled
<1>4. CASE answer.kind \notin {"long", "release", "double"}
  <2>1. UNCHANGED <<voice, speech, switches>>
    BY <1>4, Zenon DEF Act, pageVars
  <2>2. SpeechOK' /\ Switched' /\ Asked'
    BY <2>1, SpeechSame DEF voice
  <2>3. VoiceOK' /\ GoesOn /\ SendsCurrent /\ ~Starts("button", n)
    BY <2>1 DEF voice, VoiceOK, GoesOn, SendsCurrent, Starts
  <2> QED
    BY <2>2, <2>3 DEF Handled
<1> QED
  BY <1>1, <1>2, <1>3, <1>4

-----------------------------------------------------------------------------
(* Push to talk: its inductive invariant *)

NodeOK ==
    /\ holding \in BOOLEAN /\ available \in BOOLEAN /\ gesture \in Protocol!Gestures
    /\ seq \in 0 .. MaxEvents /\ since \in 0 .. MaxEvents
    /\ sensor \in Answer /\ answer \in Slot(Answer) /\ lastKey \in Slot(1 .. MaxEvents)

\* Number x is known after y was: it is y, or an older one if y was published
\* while the page was open.
Follows(x, y) == x # None => y # None /\ x <= y /\ (y <= since => x = y)

\* Numbers reach the page in the order of the gestures.
Polled ==
    /\ since <= seq /\ (sensor.seq # None => sensor.seq <= seq)
    /\ Follows(lastKey, sensor.seq)
    /\ answer # None => /\ Follows(answer.seq, sensor.seq)
                        /\ answer.seq # None => Follows(lastKey, answer.seq)

TalkOK == PageOK /\ NodeOK /\ Polled /\ PressIsNew

\* A recording by the button is an old one, or starts with the answer in hand.
Continues ==
    \/ GoesOn
    \/ Starts("manual", 0)
    \/ /\ answer # None /\ answer.kind = "long" /\ answer.seq \in 1 .. MaxEvents
       /\ Starts("button", answer.seq)

LEMMA TalkInitOK == Init => TalkOK
<1> SUFFICES ASSUME Init PROVE TalkOK
  OBVIOUS
<1>1. PageOK
  BY PageInitOK DEF Init
<1>2. FirstEvent \in {0, 1} /\ MaxEvents \in Nat /\ FirstEvent <= MaxEvents /\ None \notin Int
  BY TalkAssumption
<1>3. sensor = (IF FirstEvent = 1 THEN [kind |-> "release", seq |-> 1]
                                  ELSE [kind |-> "unknown", seq |-> None])
  BY Zenon DEF Init, Before, NoEvent
<1>4. sensor \in Answer
  BY <1>2, <1>3 DEF Answer, Slot, Protocol!Gestures
<1>5. NodeOK
  <2>1. holding = FALSE /\ gesture = "none"
    BY DEF Init, Protocol!Init
  <2>2. seq \in 0 .. MaxEvents /\ since \in 0 .. MaxEvents
    BY <1>2 DEF Init
  <2>3. available \in BOOLEAN /\ answer \in Slot(Answer) /\ lastKey \in Slot(1 .. MaxEvents)
    BY DEF Init, Slot
  <2>4. holding \in BOOLEAN /\ gesture \in Protocol!Gestures
    BY <2>1 DEF Protocol!Gestures
  <2> QED
    BY <1>4, <2>2, <2>3, <2>4 DEF NodeOK
<1>6. Polled
  BY <1>2, <1>3 DEF Init, Polled, Follows
<1>7. PressIsNew
  BY DEF Init, PageInit, PressIsNew, ByButton
<1> QED
  BY <1>1, <1>5, <1>6, <1>7 DEF TalkOK

\* A gesture has the next number, and nobody has seen it yet.
LEMMA PublishKeeps ==
    ASSUME TalkOK, NEW kind \in Protocol!Gestures, PublishEvent(kind),
           holding' \in BOOLEAN, gesture' \in Protocol!Gestures
    PROVE  TalkOK'
<1> USE DEF TalkOK
<1>1. /\ seq < MaxEvents /\ seq' = seq + 1
      /\ UNCHANGED <<voice, speech, switches>>
      /\ UNCHANGED <<available, answer, lastKey, since>>
      /\ sensor' = [kind |-> kind, seq |-> seq'] \/ sensor' = sensor
  BY DEF PublishEvent, pageVars, poll
<1>2. PageOK'
  BY <1>1 DEF voice, speech, switches, PageOK, VoiceOK, SpeechOK, Switched, Asked
<1>3. PressIsNew'
  BY <1>1 DEF voice, PressIsNew, ByButton
<1>4. MaxEvents \in Nat /\ seq \in 0 .. MaxEvents /\ since \in 0 .. MaxEvents /\ None \notin Int
  BY TalkAssumption DEF NodeOK
<1>5. seq' \in 0 .. MaxEvents /\ seq' \in 1 .. MaxEvents
  BY <1>1, <1>4
<1>6. sensor' \in Answer
  <2>1. [kind |-> kind, seq |-> seq'] \in Answer
    BY <1>5 DEF Answer, Slot
  <2> QED
    BY <1>1, <2>1 DEF NodeOK
<1>7. NodeOK'
  BY <1>1, <1>5, <1>6 DEF NodeOK
<1>8. Polled'
  <2>1. CASE sensor' = sensor
    BY <1>1, <1>4, <2>1 DEF Polled, Follows, NodeOK, Answer, Slot
  <2>2. CASE sensor' = [kind |-> kind, seq |-> seq']
    <3>1. sensor'.seq = seq' /\ sensor'.seq # None /\ seq' > since /\ seq' > seq
      BY <1>1, <1>4, <1>5, <2>2 DEF Polled
    <3> QED
      BY <1>1, <1>4, <3>1 DEF Follows, Polled, NodeOK, Answer, Slot
  <2> QED
    BY <1>1, <2>1, <2>2
<1> QED
  BY <1>2, <1>3, <1>7, <1>8

\* The page reads the entity: what it gets has the number of the last event that
\* arrived, or none.
LEMMA ReadKeeps ==
    ASSUME TalkOK, PollReads
    PROVE  TalkOK' /\ SendsCurrent /\ Continues
<1> USE DEF TalkOK
<1>1. /\ answer = None /\ answer' \in Projected
      /\ UNCHANGED <<voice, speech, switches>>
      /\ UNCHANGED <<holding, gesture, seq, available, sensor, lastKey, since>>
  BY DEF PollReads, pageVars, node
<1>2. PageOK' /\ PressIsNew' /\ GoesOn /\ SendsCurrent
  BY <1>1 DEF voice, speech, switches, PageOK, VoiceOK, SpeechOK, Switched, Asked,
     PressIsNew, ByButton, GoesOn, SendsCurrent
<1>3. sensor \in Answer /\ sensor.seq \in Slot(1 .. MaxEvents)
  BY DEF NodeOK, Answer
<1>4. answer' \in Answer /\ answer'.seq \in {sensor.seq, None}
  <2>1. CASE answer' = sensor
    BY <1>3, <2>1
  <2>2. CASE answer' \in {[kind |-> "unavailable", seq |-> n] : n \in {sensor.seq, None}}
    <3>1. PICK n \in {sensor.seq, None} : answer' = [kind |-> "unavailable", seq |-> n]
      BY <2>2
    <3>2. n \in Slot(1 .. MaxEvents)
      BY <1>3 DEF Slot
    <3> QED
      BY <3>1, <3>2 DEF Answer
  <2> QED
    BY <1>1, <2>1, <2>2 DEF Projected
<1>5. NodeOK'
  BY <1>1, <1>4 DEF NodeOK, Slot
<1>6. Polled'
  <2>1. MaxEvents \in Nat /\ None \notin Int
    BY TalkAssumption
  <2> QED
    BY <1>1, <1>3, <1>4, <2>1 DEF Polled, Follows, Slot
<1> QED
  BY <1>2, <1>5, <1>6 DEF Continues

\* What has a new number was published while the page was open.
LEMMA HandleKeeps ==
    ASSUME TalkOK, PollHandles
    PROVE  TalkOK' /\ SendsCurrent /\ Continues
<1> USE DEF TalkOK
<1>1. /\ answer # None /\ answer' = None
      /\ UNCHANGED <<holding, gesture, seq, available, sensor, since>>
      /\ \/ UNCHANGED <<voice, speech, switches>>
         \/ /\ answer.seq # None /\ lastKey \notin {None, answer.seq} /\ Act(answer.kind)
            /\ lastKey' = answer.seq
      /\ lastKey' = IF answer.seq = None THEN lastKey ELSE answer.seq
  BY DEF PollHandles, node, pageVars
<1>2. answer \in Answer /\ answer.seq \in Slot(1 .. MaxEvents)
  BY <1>1 DEF NodeOK, Answer, Slot
<1>3. NodeOK'
  BY <1>1, <1>2 DEF NodeOK, Slot
<1>4. Polled'
  BY <1>1 DEF Polled, Follows
<1>5. CASE UNCHANGED <<voice, speech, switches>>
  <2>1. PageOK' /\ PressIsNew' /\ GoesOn /\ SendsCurrent
    BY <1>1, <1>5 DEF voice, speech, switches, PageOK, VoiceOK, SpeechOK, Switched, Asked,
       PressIsNew, ByButton, GoesOn, SendsCurrent
  <2> QED
    BY <1>3, <1>4, <2>1 DEF Continues
<1>6. CASE answer.seq # None /\ lastKey \notin {None, answer.seq} /\ Act(answer.kind)
  <2>1. answer.seq \in 1 .. MaxEvents /\ MaxEvents \in Nat
    BY <1>2, <1>6, TalkAssumption DEF Slot
  <2>2. Handled("button", answer.seq) /\ (Starts("button", answer.seq) => answer.kind = "long")
    BY <1>6, <2>1, ActHandled
  <2>3. answer.seq > since
    BY <1>1, <1>6, <2>1 DEF Polled, Follows, NodeOK
  <2>4. PressIsNew'
    BY <1>1, <2>2, <2>3 DEF Handled, GoesOn, Starts, PressIsNew, ByButton
  <2> QED
    BY <1>1, <1>3, <1>4, <2>1, <2>2, <2>4 DEF Handled, Continues
<1> QED
  BY <1>1, <1>5, <1>6

LEMMA ElsewhereKeeps ==
    ASSUME TalkOK, Elsewhere
    PROVE  TalkOK' /\ SendsCurrent /\ Continues
<1> USE DEF TalkOK
<1>1. ASSUME Availability PROVE TalkOK' /\ SendsCurrent /\ GoesOn
  <2>1. /\ available' \in BOOLEAN /\ UNCHANGED <<voice, speech, switches>>
        /\ UNCHANGED <<holding, gesture, seq, sensor, answer, lastKey, since>>
    BY <1>1 DEF Availability, pageVars, node, poll
  <2>2. PageOK' /\ PressIsNew' /\ GoesOn /\ SendsCurrent
    BY <2>1 DEF voice, speech, switches, PageOK, VoiceOK, SpeechOK, Switched, Asked,
       PressIsNew, ByButton, GoesOn, SendsCurrent
  <2>3. NodeOK' /\ Polled'
    BY <2>1 DEF NodeOK, Polled, Follows
  <2> QED
    BY <2>2, <2>3
<1>2. ASSUME Leave PROVE TalkOK' /\ SendsCurrent /\ GoesOn
  <2>1. /\ Abandon /\ answer' = None /\ lastKey' = None /\ since' = seq
        /\ UNCHANGED <<holding, gesture, seq, available, sensor>>
    BY <1>2 DEF Leave, node
  <2>2. PageOK' /\ SendsCurrent /\ session' = None
    BY <2>1, AbandonEffect
  <2>3. seq <= seq
    BY TalkAssumption DEF NodeOK
  <2>4. NodeOK' /\ Polled'
    BY <2>1, <2>3 DEF NodeOK, Polled, Follows, Slot
  <2> QED
    BY <2>2, <2>4 DEF PressIsNew, ByButton, GoesOn
<1>3. ASSUME PageStep, UNCHANGED <<node, available, sensor, poll, since>>
      PROVE  TalkOK' /\ SendsCurrent /\ Continues
  <2>1. Handled("manual", 0)
    BY <1>3, PageStepHandled
  <2>2. UNCHANGED <<holding, gesture, seq, available, sensor, answer, lastKey, since>>
    BY <1>3 DEF node, poll
  <2>3. NodeOK' /\ Polled'
    BY <2>2 DEF NodeOK, Polled, Follows
  <2>4. PressIsNew'
    BY <2>1, <2>2 DEF Handled, GoesOn, Starts, PressIsNew, ByButton
  <2> QED
    BY <2>1, <2>3, <2>4 DEF Handled, Continues
<1> QED
  BY <1>1, <1>2, <1>3, ReadKeeps, HandleKeeps DEF Elsewhere, Continues

LEMMA TalkStep ==
    ASSUME TalkOK, [Next]_vars
    PROVE  TalkOK' /\ [SendsCurrent]_vars
<1>1. ASSUME UNCHANGED vars PROVE TalkOK'
  <2>1. /\ UNCHANGED <<voice, speech, switches>>
        /\ UNCHANGED <<holding, gesture, seq, available, sensor, answer, lastKey, since>>
    BY <1>1 DEF vars, pageVars, node, poll
  <2>2. PageOK' /\ PressIsNew'
    BY <2>1 DEF TalkOK, voice, speech, switches, PageOK, VoiceOK, SpeechOK, Switched, Asked,
       PressIsNew, ByButton
  <2> QED
    BY <2>1, <2>2 DEF TalkOK, NodeOK, Polled, Follows
<1>2. ASSUME Publish PROVE TalkOK' /\ SendsCurrent
  <2>1. /\ holding' \in BOOLEAN /\ gesture' \in Protocol!Gestures
        /\ PublishEvent(gesture')
    BY <1>2 DEF Publish, TalkOK, NodeOK, Protocol!Next, Protocol!LongPress,
       Protocol!LongRelease, Protocol!Click, Protocol!Silent, Protocol!Gestures
  <2>2. TalkOK'
    BY <2>1, PublishKeeps
  <2> QED
    BY <2>1, <2>2 DEF PublishEvent, pageVars, voice, SendsCurrent
<1> QED
  BY <1>1, <1>2, ElsewhereKeeps DEF Next

\* Every variable of the page, of Home Assistant and of the button's events keeps
\* its type, and no recording is used while its callbacks are outstanding.
THEOREM TalkTypeCorrect == Spec => []TypeOK
<1>1. TalkOK => TypeOK
  <2> SUFFICES ASSUME TalkOK PROVE TypeOK
    OBVIOUS
  <2>1. \A s \in Free : input[s] = Unused /\ s \notin mic
    BY DEF Free, Unused, TalkOK, PageOK, VoiceOK
  <2>2. /\ session \in Slot(Inputs) /\ mic \subseteq Inputs
        /\ outcome \in {"none", "sent", "dropped"} /\ input \in [Inputs -> Recording]
    BY DEF TalkOK, PageOK, VoiceOK
  <2>3. /\ {wsOpen, inputPending, autoTts, unasked} \subseteq BOOLEAN
        /\ {request, audio} \subseteq Slot(Requests)
        /\ fetching \cup sounding \subseteq Requests
    BY DEF TalkOK, PageOK, Switched, SpeechOK, Slot
  <2> QED
    BY <2>1, <2>2, <2>3 DEF TypeOK, TalkOK, NodeOK
<1> QED
  BY TalkInitOK, TalkStep, <1>1, PTL DEF Spec

\* Nobody is recorded unawares, whenever the permission comes and whatever the
\* user did in the meantime.
THEOREM NobodyUnawares == Spec => []MicIsWanted
<1>1. TalkOK => MicIsWanted
  BY DEF TalkOK, PageOK, VoiceOK, MicIsWanted
<1> QED
  BY TalkInitOK, TalkStep, <1>1, PTL DEF Spec

\* Only the answer the page stands for is heard, and nothing unasked over the
\* user's recording or draft.
THEOREM OneAnswerHeard == Spec => []OneVoice
<1>1. TalkOK => OneVoice
  <2> SUFFICES ASSUME TalkOK PROVE OneVoice
    OBVIOUS
  <2>1. sounding \subseteq {request}
    BY PageAssumption DEF TalkOK, PageOK, SpeechOK
  <2> QED
    BY <2>1 DEF TalkOK, PageOK, Asked, OneVoice
<1> QED
  BY TalkInitOK, TalkStep, <1>1, PTL DEF Spec

\* No old event starts a recording, however late, often or seldom the page reads.
THEOREM PressesAreNew == Spec => []PressIsNew
<1>1. TalkOK => PressIsNew
  BY DEF TalkOK
<1> QED
  BY TalkInitOK, TalkStep, <1>1, PTL DEF Spec

\* Nothing is sent to the chat but the transcript of the recording that is the
\* page's at that moment.
THEOREM OnlyCurrentIsSent == Spec => OnlyCurrentSent
<1>1. TalkOK /\ [Next]_vars => [SendsCurrent]_vars
  BY TalkStep
<1>2. [SendsCurrent]_vars =>
        [outcome' \notin {"none", outcome} =>
           session # None /\ session' = None /\ input[session].phase = "transcribing"]_vars
  BY DEF SendsCurrent
<1> QED
  BY TalkInitOK, TalkStep, <1>1, <1>2, PTL DEF Spec, OnlyCurrentSent

-----------------------------------------------------------------------------
(* Both together *)

\* A long press is held for the page when it is for the tracker.
Agreed == Tracked /\ holding = longFired

LEMMA WholeAgreed == WholeInit => Agreed
BY TrackerInit DEF WholeInit, Agreed, Init, Protocol!Init, ButtonInit

\* What the page does is no scan.
LEMMA ElsewhereAside == Elsewhere => UNCHANGED node
BY DEF Elsewhere, Availability, PollReads, PollHandles, Leave

LEMMA WholeButton == WholeNext \/ UNCHANGED wholeVars => ButtonNext \/ UNCHANGED buttonVars
<1>1. ASSUME PollButton PROVE ButtonNext
  BY <1>1 DEF PollButton, ButtonNext
<1>2. ASSUME World PROVE ButtonNext
  BY <1>2 DEF World, ButtonNext
<1> QED
  BY <1>1, <1>2 DEF WholeNext, wholeVars

LEMMA WholeAgrees == Agreed /\ [WholeNext]_wholeVars => Agreed'
<1> SUFFICES ASSUME Agreed, WholeNext \/ UNCHANGED wholeVars PROVE Agreed'
  OBVIOUS
<1>1. Tracked'
  BY WholeButton, TrackerStep DEF Agreed
<1>2. ASSUME PollButton PROVE (holding = longFired)'
  BY <1>2 DEF PollButton
<1>3. ASSUME World PROVE (holding = longFired)'
  BY <1>3, KeyMovesTracked, TickTracked DEF Agreed, World, vars, node
<1>4. ASSUME (Elsewhere /\ UNCHANGED buttonVars) \/ UNCHANGED wholeVars
      PROVE  (holding = longFired)'
  BY <1>4, ElsewhereAside DEF Agreed, wholeVars, vars, node, buttonVars, tracker
<1> QED
  BY <1>1, <1>2, <1>3, <1>4 DEF Agreed, WholeNext

\* A scan is silent, or publishes a gesture of the protocol.
LEMMA PollButtonTalks ==
    ASSUME Agreed, PollButton
    PROVE  \/ Publish
           \/ UNCHANGED vars /\ result' = "none" /\ UNCHANGED longs
<1>1. ScanSays /\ holding = longFired /\ holding' = longFired'
  BY ScanTracked DEF Agreed, PollButton
<1>2. CASE result' = "none"
  <2>1. /\ holding' = holding /\ UNCHANGED longs
        /\ UNCHANGED <<pageVars, gesture, seq, available, sensor, poll, since>>
    BY <1>1, <1>2 DEF ScanSays, PollButton
  <2> QED
    BY <1>2, <2>1 DEF vars, node
<1>3. CASE result' # "none"
  <2>1. gesture' = result' /\ PublishEvent(gesture')
    BY <1>3 DEF PollButton
  <2>2. Protocol!Next
    <3>1. holding \in BOOLEAN /\ holding' \in BOOLEAN
      BY <1>1, ScanTracked, TrackerTypes DEF Agreed, Tracked, PollButton, ButtonTypeOK
    <3> QED
      BY <1>1, <1>3, <2>1, <3>1 DEF ScanSays, Protocol!Next, Protocol!LongPress,
         Protocol!LongRelease, Protocol!Click, Protocol!Silent
  <2> QED
    BY <1>3, <2>1, <2>2 DEF Publish
<1> QED
  BY <1>2, <1>3

LEMMA WholeTalks == Agreed /\ [WholeNext]_wholeVars => [Next]_vars
<1> SUFFICES ASSUME Agreed, WholeNext \/ UNCHANGED wholeVars PROVE Next \/ UNCHANGED vars
  OBVIOUS
<1>1. UNCHANGED wholeVars => UNCHANGED vars
  BY DEF wholeVars
<1>2. World => UNCHANGED vars
  BY DEF World
<1> QED
  BY <1>1, <1>2, PollButtonTalks DEF WholeNext, Next

\* With the tracker that scans the pins, push to talk is what it is with the
\* protocol of its gestures.
THEOREM TrackerTalks == WholeSpec => ImplementsTalk
<1>1. WholeInit => Init
  BY DEF WholeInit
<1> QED
  BY <1>1, WholeAgreed, WholeAgrees, WholeTalks, PTL DEF WholeSpec, ImplementsTalk, Spec

\* The long press of this number was published, of a key that was held.
Held(n) == \E p \in longs : p.seq = n /\ (p.late \/ p.hold + Idle > LongAfter)

\* Wherever a long press is on its way to the page, the key was held.
HeldOK ==
    /\ sensor.kind = "long" => Held(sensor.seq)
    /\ answer # None /\ answer.kind = "long" => Held(answer.seq)
    /\ ButtonMeansHeld

LEMMA HeldInit == WholeInit => HeldOK
<1> SUFFICES ASSUME WholeInit PROVE HeldOK
  OBVIOUS
<1>1. sensor.kind # "long" /\ answer = None /\ session = None
  BY Zenon DEF WholeInit, Init, PageInit, Before, NoEvent
<1> QED
  BY <1>1 DEF HeldOK, ButtonMeansHeld, ByButton

\* A gesture is published: what was held stays held, and a new long press was.
LEMMA PollButtonHeld ==
    ASSUME Tracked, HeldOK, PollButton
    PROVE  HeldOK'
<1>1. /\ UNCHANGED <<voice, answer, lastKey, since>>
      /\ \/ UNCHANGED <<sensor, longs>>
         \/ /\ sensor' = [kind |-> result', seq |-> seq'] \/ sensor' = sensor
            /\ longs' = IF result' # "long" THEN longs
                        ELSE longs \cup {[seq |-> seq', hold |-> hold, late |-> delayed]}
  BY DEF PollButton, PublishEvent, pageVars, poll
<1>2. longs \subseteq longs'
  BY <1>1
<1>3. sensor'.kind = "long" => Held(sensor.seq)'
  <2>1. CASE sensor' = sensor
    BY <1>2, <2>1 DEF HeldOK, Held
  <2>2. CASE /\ sensor' = [kind |-> result', seq |-> seq'] /\ result' = "long"
             /\ longs' = longs \cup {[seq |-> seq', hold |-> hold, late |-> delayed]}
    <3>1. delayed \/ hold + Idle > LongAfter
      BY <2>2, ScanTracked DEF PollButton, ScanSays
    <3>2. [seq |-> seq', hold |-> hold, late |-> delayed] \in longs'
      BY <2>2
    <3> QED
      BY <2>2, <3>1, <3>2 DEF Held
  <2> QED
    BY <1>1, <2>1, <2>2
<1>4. (answer # None /\ answer.kind = "long" => Held(answer.seq))'
  BY <1>1, <1>2 DEF HeldOK, Held
<1>5. ButtonMeansHeld'
  BY <1>1, <1>2 DEF HeldOK, ButtonMeansHeld, ByButton, voice
<1> QED
  BY <1>3, <1>4, <1>5 DEF HeldOK

\* The page starts with the answer it has, and reads what Home Assistant has.
LEMMA ElsewhereHeld ==
    ASSUME TalkOK, HeldOK, Elsewhere, UNCHANGED longs
    PROVE  HeldOK'
<1>1. /\ sensor' = sensor
      /\ answer' \in {None, answer} \/ answer' \in Projected
  BY DEF Elsewhere, Availability, PollReads, PollHandles, Leave, poll
<1>2. (answer # None /\ answer.kind = "long" => Held(answer.seq))'
  <2>1. ASSUME answer' \in Projected, answer'.kind = "long" PROVE answer' = sensor
    BY <2>1 DEF Projected
  <2> QED
    BY <1>1, <2>1 DEF HeldOK, Held
<1>3. ButtonMeansHeld'
  <2>1. Continues
    BY ElsewhereKeeps
  <2>2. CASE Starts("button", answer.seq) /\ answer # None /\ answer.kind = "long"
    BY <2>2 DEF HeldOK, Held, ButtonMeansHeld, ByButton, Starts
  <2> QED
    BY <2>1, <2>2 DEF Continues, HeldOK, ButtonMeansHeld, ByButton, GoesOn, Starts
<1> QED
  BY <1>1, <1>2, <1>3 DEF HeldOK, Held

LEMMA HeldStep == Agreed /\ TalkOK /\ HeldOK /\ [WholeNext]_wholeVars => HeldOK'
<1> SUFFICES ASSUME Agreed, TalkOK, HeldOK, WholeNext \/ UNCHANGED wholeVars PROVE HeldOK'
  OBVIOUS
<1>1. ASSUME World \/ UNCHANGED wholeVars PROVE HeldOK'
  <2>1. UNCHANGED <<vars, longs>>
    BY <1>1 DEF World, wholeVars
  <2>2. UNCHANGED <<session, input, sensor, answer, longs>>
    BY <2>1 DEF vars, pageVars, voice, poll
  <2> QED
    BY <2>2 DEF HeldOK, Held, ButtonMeansHeld, ByButton
<1> QED
  BY <1>1, PollButtonHeld, ElsewhereHeld DEF Agreed, WholeNext

\* From the key to the microphone: a recording by the button answers a press for
\* which the key was held, however the contact bounces, whatever events are lost
\* and however late the page reads them.
THEOREM LongPressHeld == WholeSpec => []ButtonMeansHeld
<1>1. WholeInit => TalkOK
  BY TalkInitOK DEF WholeInit
<1>2. Agreed /\ TalkOK /\ [WholeNext]_wholeVars => TalkOK'
  BY WholeTalks, TalkStep
<1>3. HeldOK => ButtonMeansHeld
  BY DEF HeldOK
<1> QED
  BY <1>1, <1>2, <1>3, WholeAgreed, WholeAgrees, HeldInit, HeldStep, PTL DEF WholeSpec
=============================================================================
