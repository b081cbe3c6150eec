--------------------------- MODULE ButtonGesture ---------------------------
(***************************************************************************)
(* The three-wire button of node01: ButtonGestureTracker.update of         *)
(* led_companion.h, called by poll_button of main.cpp with the mask it     *)
(* scanned.  The clock is kept as ages: millis() minus the time a field of *)
(* the tracker holds, which is all that update computes of them, and each  *)
(* age stops at the limit it is compared with.  A tick is an interval      *)
(* in which an idle loop scans once or more; MaxGap says how many may pass *)
(* while the rest of loop(), the network above all, keeps the scan waiting.*)
(***************************************************************************)
EXTENDS Integers, FiniteSetsExt

CONSTANTS
  Masks,        \* what the six scanned lines can read
  Debounce,     \* kDebounceMs
  Window,       \* kDoubleClickWindowMs
  LongAfter,    \* kLongPressMs
  Rebaseline,   \* kAutoRebaselineMs
  WaveTicks,    \* the ten seconds of voice_mode_until
  Idle,         \* ticks between two scans at most when nothing blocks loop()
  MaxGap        \* and when the network does

ASSUME ButtonAssumption ==
  /\ {Debounce, Window, LongAfter, Rebaseline, WaveTicks, Idle} \subseteq Nat \ {0}
  /\ MaxGap \in Nat /\ Idle <= MaxGap

VARIABLES
  key,          \* what a scan would read now
  baseline,     \* baseline_mask
  lastSeen,     \* last_seen_mask
  raw,          \* raw_active
  debounced,    \* debounced_active
  longFired,    \* long_fired
  clicks,       \* pending_clicks
  stable,       \* now_ms - mask_stable_since_ms
  rawAge,       \* now_ms - last_raw_change_ms
  pressAge,     \* now_ms - press_started_ms
  releaseAge,   \* now_ms - last_release_ms
  gap,          \* ticks since the last scan
  result,       \* what update returned to the last scan
  wave,         \* ticks left of voice_mode_until
  span,         \* history: ticks since the key left its resting state
  hold,         \* history: the value of span when the key was last away
  delayed       \* history: a scan was late since the press was recognised

ages == <<stable, rawAge, pressAge, releaseAge>>
tracker == <<baseline, lastSeen, raw, debounced, longFired, clicks>>
history == <<span, hold, delayed>>
buttonVars == <<key, tracker, ages, gap, result, wave, history>>

Upto(n, limit) == Min({n, limit})

(***************************************************************************)
(* calibrate_button_3wire takes the mask it reads at power-on for the      *)
(* resting one.                                                            *)
(***************************************************************************)
ButtonInit ==
  /\ key \in Masks /\ baseline = key /\ lastSeen = key
  /\ raw = FALSE /\ debounced = FALSE /\ longFired = FALSE /\ clicks = 0
  /\ stable = 0
  /\ rawAge = Debounce /\ pressAge = LongAfter /\ releaseAge = Window
  /\ gap = 0 /\ result = "none" /\ wave = 0
  /\ span = 0 /\ hold = 0 /\ delayed = FALSE

(***************************************************************************)
(* The finger, the contact's bouncing, a wire that is plugged in.          *)
(***************************************************************************)
KeyMoves(m) ==
  /\ key' = m /\ m # key
  /\ IF key = baseline /\ ~raw /\ ~debounced
       THEN span' = 0 /\ hold' = 0
       ELSE /\ hold' = IF m = baseline THEN hold ELSE span
            /\ UNCHANGED span
  /\ UNCHANGED <<tracker, ages, gap, result, wave, delayed>>

Tick ==
  /\ gap < MaxGap
  /\ gap' = gap + 1
  /\ stable' = Upto(stable + 1, Rebaseline)
  /\ rawAge' = Upto(rawAge + 1, Debounce)
  /\ pressAge' = Upto(pressAge + 1, LongAfter)
  /\ releaseAge' = Upto(releaseAge + 1, Window)
  /\ wave' = IF wave = 0 THEN 0 ELSE wave - 1
  /\ span' = Upto(span + 1, LongAfter)
  /\ hold' = IF key # baseline THEN span' ELSE hold
  /\ delayed' = (debounced /\ (delayed \/ gap' > Idle))
  /\ UNCHANGED <<key, tracker, result>>

(***************************************************************************)
(* update(current_mask, now_ms): the conditions in the order of the code.  *)
(***************************************************************************)
Active == key # baseline                    \* active_now

RawAge == IF Active = raw THEN rawAge ELSE 0

\* A steady strange mask becomes the resting one, unless a long press is on.
BugAdoptAlways ==
  key = lastSeen /\ key # baseline /\ stable >= Rebaseline

Adopts ==
  /\ key = lastSeen /\ ~longFired
  /\ key # baseline /\ stable >= Rebaseline

Settles == RawAge >= Debounce /\ debounced # Active

See ==
  /\ ~Adopts
  /\ lastSeen' = key /\ raw' = Active
  /\ stable' = IF key = lastSeen THEN stable ELSE 0
  /\ rawAge' = RawAge
  /\ UNCHANGED baseline

Adopt ==
  /\ Adopts
  /\ baseline' = key /\ lastSeen' = key
  /\ raw' = FALSE /\ debounced' = FALSE /\ longFired' = FALSE /\ clicks' = 0
  /\ stable' = 0
  /\ result' = "none"
  /\ span' = 0 /\ hold' = 0
  /\ UNCHANGED <<rawAge, pressAge, releaseAge, wave, delayed>>

BugOldPressTime ==
  /\ See /\ Settles /\ Active
  /\ debounced' = TRUE /\ longFired' = FALSE
  /\ result' = "none"
  /\ UNCHANGED <<clicks, pressAge, releaseAge, wave, history>>

Press ==
  /\ See /\ Settles /\ Active
  /\ debounced' = TRUE /\ longFired' = FALSE /\ pressAge' = 0
  /\ result' = "none"
  /\ UNCHANGED <<clicks, releaseAge, wave, history>>

FirstClick ==
  /\ See /\ Settles /\ ~Active /\ ~longFired
  /\ clicks = 0
  /\ debounced' = FALSE /\ clicks' = 1 /\ releaseAge' = 0
  /\ result' = "none"
  /\ UNCHANGED <<longFired, pressAge, wave, history>>

DoubleClick ==
  /\ See /\ Settles /\ ~Active /\ ~longFired
  /\ clicks = 1
  /\ debounced' = FALSE /\ clicks' = 0 /\ releaseAge' = 0
  /\ result' = "double"
  /\ UNCHANGED <<longFired, pressAge, wave, history>>

BugStillFired ==
  /\ See /\ Settles /\ ~Active /\ longFired
  /\ debounced' = FALSE
  /\ result' = "release" /\ wave' = 0
  /\ UNCHANGED <<longFired, clicks, pressAge, releaseAge, history>>

Release ==
  /\ See /\ Settles /\ ~Active /\ longFired
  /\ debounced' = FALSE /\ longFired' = FALSE
  /\ result' = "release" /\ wave' = 0
  /\ UNCHANGED <<clicks, pressAge, releaseAge, history>>

Long ==
  /\ See /\ debounced /\ ~Settles /\ ~longFired
  /\ pressAge >= LongAfter
  /\ longFired' = TRUE /\ clicks' = 0
  /\ result' = "long" /\ wave' = WaveTicks
  /\ UNCHANGED <<debounced, pressAge, releaseAge, history>>

\* The click ends the animation, or else shows the next scene.
SingleClick ==
  /\ See /\ ~debounced /\ ~Settles
  /\ clicks = 1 /\ releaseAge >= Window
  /\ clicks' = 0
  /\ result' = "single" /\ wave' = 0
  /\ UNCHANGED <<debounced, longFired, pressAge, releaseAge, history>>

Quiet ==
  /\ See /\ ~Settles
  /\ ~(debounced /\ ~longFired /\ pressAge >= LongAfter)
  /\ ~(~debounced /\ clicks = 1 /\ releaseAge >= Window)
  /\ result' = "none"
  /\ UNCHANGED <<debounced, longFired, clicks, pressAge, releaseAge, wave, history>>

Update == \/ Adopt \/ Press \/ FirstClick \/ DoubleClick \/ Release
          \/ Long \/ SingleClick \/ Quiet

\* poll_button, once per pass of loop() that finds its twelve milliseconds over.
Scan == gap >= 1 /\ gap' = 0 /\ UNCHANGED key /\ Update

ButtonNext == (\E m \in Masks : KeyMoves(m)) \/ Tick \/ Scan

ButtonSpec == ButtonInit /\ [][ButtonNext]_buttonVars

\* loop() comes round, and time passes.
FairButton == ButtonSpec /\ WF_buttonVars(Tick) /\ WF_buttonVars(Scan)

----------------------------------------------------------------------------
ButtonTypeOK ==
  /\ {key, baseline, lastSeen} \subseteq Masks
  /\ {raw, debounced, longFired} \subseteq BOOLEAN
  /\ clicks \in 0..1
  /\ stable \in 0..Rebaseline /\ rawAge \in 0..Debounce
  /\ pressAge \in 0..LongAfter /\ releaseAge \in 0..Window
  /\ gap \in 0..MaxGap /\ wave \in 0..WaveTicks
  /\ result \in {"none", "single", "double", "long", "release"}
  /\ span \in 0..LongAfter /\ hold \in 0..span /\ delayed \in BOOLEAN

(***************************************************************************)
(* Whatever the key does, the gestures node01 publishes keep the protocol: *)
(* after a long press the next gesture is its release, whether the mask    *)
(* bounces, changes to another pattern or stays for ever.                  *)
(***************************************************************************)
Reported == INSTANCE GestureProtocol WITH holding <- longFired, gesture <- result
ImplementsProtocol == Reported!Spec

(***************************************************************************)
(* A press is reported as long only if the key was held that long, give or *)
(* take one interval between scans, whatever it bounces.  That no scan was *)
(* late since the press was recognised is needed: see the README.          *)
(***************************************************************************)
LongMeansHeld == [][longFired' /\ ~longFired /\ ~delayed => hold + Idle > LongAfter]_buttonVars

(***************************************************************************)
(* A key that stays as it is settles: at rest every press and click is     *)
(* reported and the tracker waits for the next one, away from it the press *)
(* is held, reported once, or the mask becomes the resting one.            *)
(***************************************************************************)
Settled ==
  /\ longFired = (key # baseline) /\ debounced = (key # baseline)
  /\ clicks = 0 /\ wave = 0 /\ result = "none"
KeySettles == \A m \in Masks : <>[](key = m) => <>[]Settled
============================================================================
