----------------------------- MODULE VoicePage -----------------------------
(***************************************************************************)
(* The voice card of the chat page, ChatSidebar and ChatPage of            *)
(* hermes.patch: one recording at a time, from the microphone's permission *)
(* to the sent transcript, and one spoken answer at a time.  Every handler *)
(* runs to its end; between two of them the browser and the server answer  *)
(* in any order, also for recordings and answers the page has given up.    *)
(* An input or a request whose callbacks have all come is used again.      *)
(***************************************************************************)
EXTENDS Integers, FiniteSets

CONSTANTS
  Inputs,    \* bound: recordings with callbacks outstanding
  Requests,  \* bound: spoken answers with callbacks outstanding
  None

ASSUME PageAssumption == None \notin Inputs \cup Requests

VARIABLES
  session,       \* voiceInputRef: the input that is the page's, or None
  input,         \* input[s]: its session object, and how far the browser is
  mic,           \* the inputs whose microphone tracks are live
  outcome,       \* the last text shown as sent: none since, sent or dropped
  wsOpen,        \* the terminal's WebSocket
  inputPending,  \* speechInputPendingRef: the user's draft is not empty
  autoTts,       \* answers are spoken
  request,       \* ttsRequestRef, or None
  fetching,      \* the requests whose synthesis is not answered
  audio,         \* audioRef, or None
  sounding,      \* the requests that are heard
  unasked        \* nobody asked for the answer of request

voice == <<session, input, mic, outcome>>
speech == <<request, fetching, audio, sounding, unasked>>
switches == <<wsOpen, inputPending, autoTts>>
pageVars == <<voice, speech, switches>>

Phases == {"asking", "recording", "stopping", "transcribing", "over"}
Sources == {"manual", "button"}

Unused == [source |-> "manual", stop |-> FALSE, phase |-> "over", press |-> 0]
Free == {s \in Inputs : input[s].phase = "over"}
Silent == Requests \ (fetching \cup sounding)

PageInit ==
  /\ session = None /\ mic = {} /\ outcome = "none"
  /\ input = [s \in Inputs |-> Unused]
  /\ wsOpen = TRUE /\ inputPending = FALSE /\ autoTts \in BOOLEAN
  /\ request = None /\ fetching = {} /\ audio = None /\ sounding = {}
  /\ unasked = FALSE

----------------------------------------------------------------------------
(* stopSpeaking, speakWithXiaoxi and the callbacks of a spoken answer. *)

StopSpeaking ==
  /\ request' = None /\ unasked' = FALSE /\ audio' = None
  /\ sounding' = sounding \ {audio}
  /\ UNCHANGED fetching

Speak(byItself) ==
  /\ Silent # {}
  /\ request' = CHOOSE r \in Silent : TRUE
  /\ unasked' = byItself /\ audio' = None
  /\ sounding' = sounding \ {audio}
  /\ fetching' = fetching \cup {request'}

BugPlayLate(r) ==
  /\ r \in fetching
  /\ fetching' = fetching \ {r}
  /\ audio' = r /\ sounding' = sounding \cup {r}
  /\ UNCHANGED <<request, unasked, voice, switches>>

\* An answer for a request that is no longer the page's is dropped.
Synthesised(r) ==
  /\ r \in fetching
  /\ fetching' = fetching \ {r}
  /\ IF r = request
       THEN audio' = r /\ sounding' = sounding \cup {r}
       ELSE UNCHANGED <<audio, sounding>>
  /\ UNCHANGED <<request, unasked, voice, switches>>

\* The synthesis fails, the audio ends or cannot be played.
SpeechEnds(r) ==
  /\ r \in fetching \cup sounding
  /\ fetching' = fetching \ {r} /\ sounding' = sounding \ {r}
  /\ IF r = request THEN request' = None /\ unasked' = FALSE /\ audio' = None
                    ELSE UNCHANGED <<request, unasked, audio>>
  /\ UNCHANGED <<voice, switches>>

\* message.complete: nobody is talking over the user's draft or recording.
Reply ==
  /\ IF autoTts /\ ~inputPending /\ session = None THEN Speak(TRUE) ELSE UNCHANGED speech
  /\ UNCHANGED <<voice, switches>>

\* The replay button and the choice of a voice.
AskToSpeak ==
  /\ Speak(FALSE)
  /\ UNCHANGED <<voice, switches>>

StopButton ==
  /\ request # None /\ StopSpeaking
  /\ UNCHANGED <<voice, switches>>

SwitchSpeech ==
  /\ autoTts' = ~autoTts
  /\ IF autoTts THEN StopSpeaking ELSE UNCHANGED speech
  /\ UNCHANGED <<voice, wsOpen, inputPending>>

----------------------------------------------------------------------------
(* startVoiceInput, stopVoiceInput and the callbacks of a recording. *)

StartVoiceInput(source, press) ==
  /\ IF session # None
       THEN UNCHANGED <<voice, speech>>
       ELSE /\ Free # {}
            /\ session' = CHOOSE s \in Free : TRUE
            /\ input' = [input EXCEPT ![session'] =
                 [source |-> source, stop |-> FALSE, phase |-> "asking", press |-> press]]
            /\ outcome' = "none"
            /\ StopSpeaking
            /\ UNCHANGED mic

\* What asking the recorder of input s to stop does to its phase.
Stopped(phase) == IF phase = "recording" THEN "stopping" ELSE phase

StopVoiceInput ==
  /\ input' = IF session = None THEN input
              ELSE [input EXCEPT ![session].stop = TRUE,
                                 ![session].phase = IF input[session].stop THEN @ ELSE Stopped(@)]
  /\ UNCHANGED <<session, mic, outcome>>

ToggleVoiceInput ==
  /\ IF session # None THEN StopVoiceInput /\ UNCHANGED speech
                       ELSE StartVoiceInput("manual", 0)
  /\ UNCHANGED switches

\* finish(), when s is still the page's input.
Finish(s) == session' = IF s = session THEN None ELSE session
Over(s) == input' = [input EXCEPT ![s] = Unused]

BugKeepAsking(s) ==
  /\ input[s].phase = "asking"
  /\ IF s = session /\ ~input[s].stop
       THEN /\ input' = [input EXCEPT ![s].phase = "recording"]
            /\ mic' = mic \cup {s} /\ UNCHANGED session
       ELSE Over(s) /\ UNCHANGED <<session, mic>>
  /\ UNCHANGED <<outcome, speech, switches>>

BugRecordAnyway(s) ==
  /\ input[s].phase = "asking"
  /\ input' = [input EXCEPT ![s].phase = "recording"]
  /\ mic' = mic \cup {s}
  /\ UNCHANGED <<session, outcome, speech, switches>>

\* getUserMedia gives the stream: it is closed at once if nobody wants it.
Granted(s) ==
  /\ input[s].phase = "asking"
  /\ IF s = session /\ ~input[s].stop
       THEN /\ input' = [input EXCEPT ![s].phase = "recording"]
            /\ mic' = mic \cup {s} /\ UNCHANGED session
       ELSE Over(s) /\ Finish(s) /\ UNCHANGED mic
  /\ UNCHANGED <<outcome, speech, switches>>

\* It is refused, or the recorder cannot be made.
Denied(s) ==
  /\ input[s].phase = "asking"
  /\ Over(s) /\ Finish(s)
  /\ UNCHANGED <<mic, outcome, speech, switches>>

\* onerror, which onstop follows.
RecorderFails(s) ==
  /\ input[s].phase \in {"recording", "stopping"} /\ s \in mic
  /\ mic' = mic \ {s}
  /\ input' = [input EXCEPT ![s].phase = "stopping"] /\ Finish(s)
  /\ UNCHANGED <<outcome, speech, switches>>

\* onstop: asked for, or because the microphone was unplugged.
RecorderStops(s) ==
  /\ input[s].phase \in {"recording", "stopping"}
  /\ mic' = mic \ {s}
  /\ \/ s = session /\ input' = [input EXCEPT ![s].phase = "transcribing"] /\ UNCHANGED session
     \/ Over(s) /\ Finish(s)                  \* too short, or given up
  /\ UNCHANGED <<outcome, speech, switches>>

\* sendVoiceTextToPty: an open terminal takes the text and the user's turn begins.
SendVoiceText == IF wsOpen THEN inputPending' = FALSE /\ StopSpeaking
                           ELSE UNCHANGED <<inputPending, speech>>

BugSendStale(s) ==
  /\ input[s].phase = "transcribing"
  /\ Over(s) /\ Finish(s)
  /\ SendVoiceText /\ outcome' = IF wsOpen THEN "sent" ELSE "dropped"
  /\ UNCHANGED <<mic, wsOpen, autoTts>>

Transcribed(s) ==
  /\ input[s].phase = "transcribing"
  /\ Over(s) /\ Finish(s)
  /\ IF s = session
       THEN SendVoiceText /\ outcome' = IF wsOpen THEN "sent" ELSE "dropped"
       ELSE UNCHANGED <<outcome, inputPending, speech>>
  /\ UNCHANGED <<mic, wsOpen, autoTts>>

\* The clip cannot be read, the request fails, or there was nothing in it.
NotTranscribed(s) ==
  /\ input[s].phase = "transcribing"
  /\ Over(s) /\ Finish(s)
  /\ UNCHANGED <<mic, outcome, speech, switches>>

\* The user types: each key but the terminal's own reports interrupts.
Types ==
  /\ wsOpen /\ inputPending' \in BOOLEAN /\ StopSpeaking
  /\ UNCHANGED <<voice, wsOpen, autoTts>>

WebSocket ==
  /\ wsOpen' = ~wsOpen
  /\ UNCHANGED <<voice, speech, inputPending, autoTts>>

\* Another chat or profile: the clean-ups and then the effects of the page.
Abandon ==
  /\ session' = None
  /\ input' = IF session = None THEN input
              ELSE [input EXCEPT ![session].phase = Stopped(@)]
  /\ StopSpeaking /\ inputPending' = FALSE
  /\ UNCHANGED <<mic, outcome, wsOpen, autoTts>>

PageStep ==
  \/ \E r \in Requests : Synthesised(r) \/ SpeechEnds(r)
  \/ Reply \/ AskToSpeak \/ StopButton \/ SwitchSpeech
  \/ ToggleVoiceInput \/ Types \/ WebSocket
  \/ \E s \in Inputs : \/ Granted(s) \/ Denied(s) \/ RecorderFails(s)
                       \/ RecorderStops(s) \/ Transcribed(s) \/ NotTranscribed(s)

\* The user answers the permission prompt; a recorder that was asked to stop
\* does, and the server answers.  Nothing says that a recording ends by itself.
PageFairness ==
  \A s \in Inputs : /\ WF_pageVars(Granted(s) \/ Denied(s))
                    /\ WF_pageVars(input[s].phase = "stopping" /\ RecorderStops(s))
                    /\ WF_pageVars(Transcribed(s) \/ NotTranscribed(s))
============================================================================
