-------------------------- MODULE GestureProtocol --------------------------
(***************************************************************************)
(* What the readers of node01's button events rely on: a long press and    *)
(* its release alternate, and no click is reported while a press is held.  *)
(* The page starts a recording at a long press and ends it at the release. *)
(***************************************************************************)
VARIABLES
  holding,   \* a long press was reported and its release was not
  gesture    \* what the last scan reported

vars == <<holding, gesture>>

Gestures == {"none", "single", "double", "long", "release"}

Init == holding = FALSE /\ gesture = "none"

LongPress   == ~holding /\ holding' = TRUE /\ gesture' = "long"
LongRelease == holding /\ holding' = FALSE /\ gesture' = "release"
Click       == ~holding /\ gesture' \in {"single", "double"} /\ UNCHANGED holding
Silent      == gesture' = "none" /\ UNCHANGED holding

Next == LongPress \/ LongRelease \/ Click \/ Silent

Spec == Init /\ [][Next]_vars
============================================================================
