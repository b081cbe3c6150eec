----------------------------- MODULE HoldToTalk -----------------------------
(***************************************************************************)
(* Push to talk from the key to the recording: PushToTalk with the tracker *)
(* of ButtonGesture in the place of the protocol, poll_button of main.cpp  *)
(* publishing what update returns.                                         *)
(***************************************************************************)
EXTENDS PushToTalk, ButtonGesture

VARIABLE longs   \* history: the long presses published

wholeVars == <<vars, buttonVars, longs>>

WholeInit == Init /\ ButtonInit /\ longs = {}

\* A scan that finds a gesture publishes it before loop() goes on.
PollButton ==
  /\ Scan
  /\ holding' = longFired'
  /\ \/ /\ result' = "none"
        /\ UNCHANGED <<pageVars, gesture, seq, available, sensor, poll, since, longs>>
     \/ /\ result' # "none"
        /\ gesture' = result' /\ PublishEvent(result')
        /\ longs' = IF result' # "long" THEN longs
                    ELSE longs \cup {[seq |-> seq', hold |-> hold, late |-> delayed]}

\* The key and the clock.
World ==
  /\ (\E m \in Masks : KeyMoves(m)) \/ Tick
  /\ UNCHANGED <<vars, longs>>

WholeNext ==
  \/ PollButton
  \/ World
  \/ Elsewhere /\ UNCHANGED <<buttonVars, longs>>

WholeSpec == WholeInit /\ [][WholeNext]_wholeVars

-----------------------------------------------------------------------------
(***************************************************************************)
(* With the real tracker push to talk is what it is with the protocol: no  *)
(* scan reports a gesture that PushToTalk does not expect.                 *)
(***************************************************************************)
ImplementsTalk == Spec

(***************************************************************************)
(* Nobody is recorded for a click: a recording by the button answers a     *)
(* long press that was published, under its own number, and for which the  *)
(* key was held that long, give or take an interval between scans, unless  *)
(* a scan was late.                                                        *)
(***************************************************************************)
ButtonMeansHeld ==
  ByButton => \E p \in longs : /\ p.seq = input[session].press
                               /\ p.late \/ p.hold + Idle > LongAfter
=============================================================================
