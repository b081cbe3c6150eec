----------------------------- MODULE PushToTalk -----------------------------
(***************************************************************************)
(* Push to talk: node01 publishes its button's gestures with QoS 0, Home   *)
(* Assistant keeps the last one, the page polls it through the server and  *)
(* the read gateway and starts or stops a recording.  The gestures keep    *)
(* the protocol that ButtonGesture implements.                             *)
(***************************************************************************)
EXTENDS VoicePage

CONSTANTS
  FirstEvent,  \* 1 if Home Assistant has an event from before, 0 if not
  MaxEvents,   \* bound: gestures, the one from before included
  Lossless     \* no event is lost and node01 is never shown as unavailable

ASSUME TalkAssumption ==
  /\ FirstEvent \in 0..1 /\ MaxEvents \in Nat /\ FirstEvent <= MaxEvents
  /\ Lossless \in BOOLEAN /\ None \notin Int

VARIABLES
  holding, gesture,  \* node01: see GestureProtocol
  available,         \* Home Assistant shows node01's entities
  seq,               \* event_sequence of this boot_id, counted from 1
  sensor,            \* the last event Home Assistant received
  answer,            \* what is on its way to the page, or None
  lastKey,           \* lastBtnEventRef, or None
  since              \* history: seq when the page was opened

node == <<holding, gesture, seq>>
poll == <<answer, lastKey>>
vars == <<pageVars, node, available, sensor, poll, since>>

Protocol == INSTANCE GestureProtocol

NoEvent == [kind |-> "unknown", seq |-> None]
Before == [kind |-> "release", seq |-> 1]

Init ==
  /\ PageInit /\ Protocol!Init
  /\ available = TRUE
  /\ seq = FirstEvent /\ since = FirstEvent
  /\ sensor = IF FirstEvent = 1 THEN Before ELSE NoEvent
  /\ answer = None /\ lastKey = None

\* publish_button_event: the number is used whether or not there is a connection
\* and the event arrives.
PublishEvent(kind) ==
  /\ seq < MaxEvents /\ seq' = seq + 1
  /\ \/ sensor' = [kind |-> kind, seq |-> seq']
     \/ ~Lossless /\ UNCHANGED sensor
  /\ UNCHANGED <<pageVars, available, poll, since>>

Publish == Protocol!Next /\ gesture' # "none" /\ PublishEvent(gesture')

Availability ==
  /\ ~Lossless
  /\ available' = ~available
  /\ UNCHANGED <<pageVars, node, sensor, poll, since>>

\* One entity as the read gateway projects it: without its state, an event
\* keeps its number or loses it.
Projected == IF available THEN {sensor}
             ELSE {[kind |-> "unavailable", seq |-> n] : n \in {sensor.seq, None}}

\* The poll of 250 ms reads the entity; an error or a late answer is no answer.
PollReads ==
  /\ answer = None
  /\ answer' \in Projected
  /\ UNCHANGED <<pageVars, node, available, sensor, lastKey, since>>

Act(kind) ==
  CASE kind = "long" ->
         /\ autoTts' = TRUE /\ StartVoiceInput("button", answer.seq)
         /\ UNCHANGED <<wsOpen, inputPending>>
    [] kind = "release" ->
         /\ IF session # None /\ input[session].source = "button"
              THEN StopVoiceInput ELSE UNCHANGED voice
         /\ UNCHANGED <<speech, switches>>
    [] kind = "double" ->
         /\ autoTts' = TRUE /\ SendVoiceText
         /\ UNCHANGED <<voice, wsOpen>>
    [] OTHER -> UNCHANGED pageVars

BugNoSeed ==
  /\ answer # None /\ answer' = None
  /\ IF answer.seq = None THEN UNCHANGED <<lastKey, pageVars>>
     ELSE /\ lastKey' = answer.seq
          /\ IF lastKey = answer.seq THEN UNCHANGED pageVars ELSE Act(answer.kind)
  /\ UNCHANGED <<node, available, sensor, since>>

\* The first numbered answer only says where the page begins.
PollHandles ==
  /\ answer # None /\ answer' = None
  /\ IF answer.seq = None THEN UNCHANGED <<lastKey, pageVars>>
     ELSE /\ lastKey' = answer.seq
          /\ IF lastKey \in {None, answer.seq} THEN UNCHANGED pageVars ELSE Act(answer.kind)
  /\ UNCHANGED <<node, available, sensor, since>>

\* A slot stays free for the next recording: the bound on forgotten prompts.
Leave ==
  /\ \E s \in Inputs \ {session} : input[s].phase = "over"
  /\ Abandon
  /\ answer' = None /\ lastKey' = None /\ since' = seq
  /\ UNCHANGED <<node, available, sensor>>

\* What goes on beside node01.
Elsewhere ==
  \/ Availability \/ PollReads \/ PollHandles \/ Leave
  \/ PageStep /\ UNCHANGED <<node, available, sensor, poll, since>>

Next == Publish \/ Elsewhere

Spec == Init /\ [][Next]_vars

FairSpec == Spec /\ PageFairness /\ WF_vars(PollReads) /\ WF_vars(PollHandles)

----------------------------------------------------------------------------
Slot(S) == S \cup {None}
\* The page's recording was started by the button.
ByButton == session # None /\ input[session].source = "button"

Recording == [source : Sources, stop : BOOLEAN, phase : Phases, press : 0..MaxEvents]
Answer == [kind : Protocol!Gestures \cup {"unknown", "unavailable"}, seq : Slot(1..MaxEvents)]

TypeOK ==
  /\ session \in Slot(Inputs) /\ mic \subseteq Inputs
  /\ outcome \in {"none", "sent", "dropped"}
  /\ input \in [Inputs -> Recording]
  /\ \A s \in Free : input[s] = Unused /\ s \notin mic
  /\ {wsOpen, inputPending, autoTts, unasked} \subseteq BOOLEAN
  /\ {request, audio} \subseteq Slot(Requests) /\ fetching \cup sounding \subseteq Requests
  /\ {holding, available} \subseteq BOOLEAN /\ gesture \in Protocol!Gestures
  /\ {seq, since} \subseteq 0..MaxEvents
  /\ sensor \in Answer /\ answer \in Slot(Answer) /\ lastKey \in Slot(1..MaxEvents)

(***************************************************************************)
(* A live microphone belongs to the recording the user sees, or is being   *)
(* closed: whenever the permission comes, after a release, in another chat *)
(* or for another recording, nobody is recorded unawares.                  *)
(***************************************************************************)
MicIsWanted ==
  \A s \in mic : \/ s = session /\ ~input[s].stop
                 \/ input[s].phase = "stopping"

(***************************************************************************)
(* Only the answer the page stands for is heard: a synthesis that comes    *)
(* back after the speech was stopped, or for another answer, is not, and   *)
(* what nobody asked for is not spoken into a recording, its transcription *)
(* or a draft the user is typing.                                          *)
(***************************************************************************)
OneVoice ==
  /\ sounding \subseteq {request}
  /\ (session # None \/ inputPending) /\ request # None => ~unasked

(***************************************************************************)
(* A recording by the button answers a press made after the page was       *)
(* opened: an old event is never acted on.                                 *)
(***************************************************************************)
PressIsNew ==
  ByButton => input[session].press > since

(***************************************************************************)
(* Text goes to the chat only from a recording that is not given up.       *)
(***************************************************************************)
OnlyCurrentSent ==
  [][outcome' \notin {"none", outcome} =>
       session # None /\ session' = None /\ input[session].phase = "transcribing"]_vars

(***************************************************************************)
(* A release that the page reads as new ends the recording by the button,  *)
(* also one whose permission is still being asked for.                     *)
(***************************************************************************)
ReleaseRead ==
  /\ answer # None /\ lastKey # None
  /\ answer.kind = "release" /\ answer.seq \notin {None, lastKey}
ReleaseStops == ReleaseRead ~> ~ByButton

(***************************************************************************)
(* A recording that is asked to stop, by the page or by the button, ends:  *)
(* the page is ready for the next one whatever browser and server answer,  *)
(* and no microphone stays on.                                             *)
(***************************************************************************)
StopEnds ==
  /\ ReleaseStops
  /\ \A s \in Inputs : /\ session = s /\ input[s].stop ~> session # s
                       /\ s \in mic /\ (session # s \/ input[s].stop) ~> s \notin mic

(***************************************************************************)
(* "on release the page stops this recording by the button": once the key  *)
(* is released for good no recording by the button goes on.                *)
(***************************************************************************)
ReleaseEnds == <>[]~holding => <>[]~ByButton
============================================================================
