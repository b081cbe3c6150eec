-------------------------- MODULE LearningSession --------------------------
(***************************************************************************)
(* Learning a remote key by key: LearningSession and LearningTransport of  *)
(* services/ir_learning, with node02's receiving window and the person who *)
(* presses the keys.  The HTTP thread, the MQTT thread and the watchdog    *)
(* meet at two locks, callbacks run between them, and the service dies and *)
(* starts again on the profile it saved.                                   *)
(***************************************************************************)
EXTENDS Integers, Sequences, FiniteSets

CONSTANTS MaxSession,  \* bound: receiving windows opened
          MaxProfile,  \* bound: profiles started
          MaxRecord,   \* records a profile may hold, 128
          Button,      \* the keys that are learnt, of BUTTONS
          Mode, Temp,  \* what the remote's mode and temperature can be
          None

ASSUME LearningAssumption == /\ MaxSession \in Nat /\ MaxProfile \in Nat /\ MaxRecord \in Nat
                             /\ Button \subseteq {"baseline", "mode", "temp_up", "temp_down", "other"}
                             /\ "baseline" \in Button
                             /\ Temp \subseteq Nat /\ None \notin Nat

VARIABLES
    data,      \* LearningSession.data
    files,     \* files[p]: <p>.json
    index,     \* active.json
    http,      \* the HTTP thread: what it is doing in transport.arm or cancel
    collector, \* LearningTransport.collector: the session being collected
    callback,  \* callback[t]: what thread t carries from one lock to the other
    link,      \* connected, subscribed and online
    commands,  \* published to the node, not yet handled
    events,    \* published by the node, not yet handled
    window,    \* node02's LearningWindow: the session it is armed for
    remote,    \* the remote control's own state
    pressed,   \* the person has pressed a key in this window
    heard,     \* history: a baseline frame was received since the service started
    sessions,  \* history: how many windows there were
    closed     \* history: windows that ended without a sample, as users were told

transport == <<collector, callback, link, commands, events>>
store == <<files, index>>
user == <<remote, pressed, heard>>
vars == <<data, store, http, transport, window, user, sessions, closed>>

State == [mode : Mode, temp : Temp]
Session == 1 .. MaxSession
Profile == 1 .. MaxProfile

\* A decoded frame; state is None for an UNKNOWN protocol.  was is the remote's
\* state before the key was pressed, which nobody but the remote knows.
Frame == [session : Session, state : State \cup {None}, was : State, valid : BOOLEAN]
Basis == {"manual_label_unverified", "library_baseline", "no_expected_change",
          "wrong_temperature_direction", "library_state_transition"}
Observation == [frame : Frame, before : State \cup {None}, basis : Basis]
Record == [button : Button, source : {"library", "user_report_unverified"}, of : Observation]

Data == [profile : Profile,
         status : {"idle", "arming", "ready", "captured", "expired", "rejected",
                   "needs_confirmation", "cancelled"},
         button : Button, records : Seq(Record), baseline : BOOLEAN,
         last : State \cup {None},          \* last_capture's state
         capture : Session \cup {None},     \* the window that is open
         pending : Observation \cup {None}, uncertain : BOOLEAN]

ASSUME NoneAssumption == None \notin Data

Thread == {"paho", "watchdog"}

\* What the HTTP thread is at, what a thread carries between the two locks, and
\* what is on its way to the node and back.
Http == [at : {"down", "idle", "arming", "waiting", "failed", "ready", "cancelling"},
         session : Session \cup {None}]
Carried == [kind : {"expire"}, session : Session] \cup [kind : {"capture"}, frame : Frame]
Command == [kind : {"start", "cancel"}, session : Session]
Event == [kind : {"ready", "ended"}, session : Session]
            \cup [kind : {"capture"}, session : Session, frame : Frame]

TypeOK ==
    /\ data \in Data \cup {None}
    /\ data # None => Len(data.records) <= MaxRecord
    /\ files \in [Profile -> Data \cup {None}] /\ index \in Profile \cup {None}
    /\ http \in Http /\ collector \in Session \cup {None}
    /\ callback \in [Thread -> Carried \cup {None}] /\ link \in BOOLEAN
    /\ commands \subseteq Command /\ events \in Seq(Event)
    /\ window \in Session \cup {None}
    /\ remote \in State /\ pressed \in BOOLEAN /\ heard \in BOOLEAN
    /\ sessions \in 0 .. MaxSession /\ closed \subseteq Session

Init ==
    /\ data = None /\ files = [p \in Profile |-> None] /\ index = None
    /\ http = [at |-> "idle", session |-> None]
    /\ collector = None /\ callback = [t \in Thread |-> None] /\ link = TRUE
    /\ commands = {} /\ events = <<>> /\ window = None
    /\ remote \in State /\ pressed = FALSE /\ heard = FALSE
    /\ sessions = 0 /\ closed = {}
-----------------------------------------------------------------------------
(* LearningSession *)

Up == http.at # "down"
Started == data # None /\ data.status # "cancelled"

\* _save: <profile>.json, then active.json.
Save(d) == /\ data' = d
           /\ files' = [files EXCEPT ![d.profile] = d]
           /\ index' = d.profile

NewProfile == Cardinality({p \in Profile : files[p] # None}) + 1

Fresh == [profile |-> NewProfile, status |-> "idle", button |-> "baseline", records |-> <<>>,
          baseline |-> FALSE, last |-> None, capture |-> None, pending |-> None,
          uncertain |-> FALSE]

\* Windows that end with no sample kept: by the service's own account.
Close(sample) == closed' = closed \cup (IF sample = None THEN {} ELSE {sample})
PendingSession(d) == IF d.pending = None THEN None ELSE d.pending.frame.session

MayOpen(d, button) ==
    /\ d.capture = None /\ Len(d.records) < MaxRecord
    /\ button = "baseline" \/ (d.baseline /\ ~d.uncertain)

\* next() on a profile d: the window is announced, transport.arm begins.
Open(d, button) ==
    /\ http.at = "idle" /\ sessions < MaxSession
    /\ MayOpen(d, button)
    /\ sessions' = sessions + 1
    /\ Save([d EXCEPT !.status = "arming", !.button = button, !.pending = None,
                      !.capture = sessions'])
    /\ http' = [at |-> "arming", session |-> sessions']
    /\ pressed' = FALSE
    /\ Close(PendingSession(d))
    /\ UNCHANGED <<transport, window, remote, heard>>

NextButton(button) == Started /\ Open(data, button)

\* start(): a new profile, and its baseline at once.
Start == ~Started /\ NewProfile \in Profile /\ Open(Fresh, "baseline")

Down == /\ http' = [at |-> "down", session |-> None]
        /\ data' = None /\ collector' = None /\ callback' = [t \in Thread |-> None]
        /\ events' = <<>>
        /\ UNCHANGED <<link, commands, window, user, sessions, closed>>

\* Bug: active.json is written before the profile it names.
BugIndexFirst ==
    /\ http.at = "idle" /\ ~Started /\ NewProfile \in Profile
    /\ index' = NewProfile
    /\ Down /\ UNCHANGED files

\* start(), but the service dies between the two files of its first save.
StartCut ==
    /\ http.at = "idle" /\ ~Started /\ NewProfile \in Profile
    /\ files' = [files EXCEPT ![NewProfile] = Fresh]
    /\ Down /\ UNCHANGED index

\* transport.arm has raised.
ArmRaised ==
    /\ http.at = "failed"
    /\ http' = [at |-> "idle", session |-> None]
    /\ \/ /\ data.capture = http.session
          /\ Save([data EXCEPT !.status = "expired", !.capture = None, !.uncertain = TRUE])
          /\ Close(http.session)
       \/ data.capture # http.session /\ UNCHANGED <<data, store, closed>>
    /\ UNCHANGED <<transport, window, user, sessions>>

\* transport.arm has returned; a fast frame may have ended the window already.
ArmReturned ==
    /\ http.at = "ready"
    /\ http' = [at |-> "idle", session |-> None]
    /\ \/ data.capture = http.session /\ Save([data EXCEPT !.status = "ready"])
       \/ data.capture # http.session /\ UNCHANGED <<data, store>>
    /\ UNCHANGED <<transport, window, user, sessions, closed>>

\* What the button should have done to the state, by the library.
Field == [mode |-> "mode", temp_up |-> "temp", temp_down |-> "temp"]
BasisOf(button, before, after) ==
    IF after = None \/ button = "other" \/ (button # "baseline" /\ before = None)
    THEN "manual_label_unverified"
    ELSE IF button = "baseline" THEN "library_baseline"
    ELSE IF after[Field[button]] = before[Field[button]] THEN "no_expected_change"
    ELSE IF \/ button = "temp_up" /\ after.temp < before.temp
            \/ button = "temp_down" /\ after.temp > before.temp
    THEN "wrong_temperature_direction"
    ELSE "library_state_transition"

\* _accept: a baseline makes the context certain again.
Accept(d, observation, source) ==
    Save([d EXCEPT !.status = "captured", !.capture = None, !.pending = None,
                   !.last = observation.frame.state,
                   !.records = Append(@, [button |-> d.button, source |-> source,
                                          of |-> observation]),
                   !.baseline = @ \/ d.button = "baseline",
                   !.uncertain = @ /\ d.button # "baseline"])

Carries(t, kind) == callback[t] # None /\ callback[t].kind = kind
Drop(t) == /\ callback' = [callback EXCEPT ![t] = None]
           /\ UNCHANGED <<http, collector, link, commands, events, window,
                           remote, pressed, sessions>>

\* Bug: any frame is taken while some window is open.
BugAnySession(session) == data # None /\ data.button # "none"

Expected(session) == data # None /\ data.capture = session

\* receive(), called by the MQTT thread after it let go of the transport's lock.
Receive(t) ==
    /\ Carries(t, "capture")
    /\ LET frame == callback[t].frame
           seen == [frame |-> frame, before |-> data.last,
                    basis |-> BasisOf(data.button, data.last, frame.state)]
           waiting == [data EXCEPT !.capture = None, !.last = frame.state, !.pending = seen]
       IN  \/ ~Expected(frame.session) /\ UNCHANGED <<data, store, closed>>
           \/ /\ Expected(frame.session) /\ ~frame.valid
              /\ Save([data EXCEPT !.status = "rejected", !.capture = None,
                                   !.pending = None, !.uncertain = TRUE])
              /\ Close(frame.session)
           \/ /\ Expected(frame.session) /\ frame.valid
              /\ seen.basis \in {"library_baseline", "library_state_transition"}
              /\ Accept(data, seen, "library")
              /\ UNCHANGED closed
           \/ /\ Expected(frame.session) /\ frame.valid
              /\ seen.basis \notin {"library_baseline", "library_state_transition"}
              /\ Save([waiting EXCEPT !.status = IF seen.basis = "manual_label_unverified"
                                                 THEN "needs_confirmation" ELSE "rejected"])
              /\ UNCHANGED closed
    /\ heard' = (heard \/ (Expected(callback[t].frame.session) /\ callback[t].frame.valid
                              /\ data.button = "baseline"))
    /\ Drop(t)

\* expire(), called by either thread.
Expire(t) ==
    /\ Carries(t, "expire")
    /\ \/ /\ Expected(callback[t].session)
          /\ Save([data EXCEPT !.status = "expired", !.capture = None, !.uncertain = TRUE])
          /\ Close(callback[t].session)
       \/ ~Expected(callback[t].session) /\ UNCHANGED <<data, store, closed>>
    /\ UNCHANGED heard
    /\ Drop(t)

Confirm ==
    /\ http.at = "idle" /\ data # None /\ data.pending # None
    /\ data.pending.basis = "manual_label_unverified"
    /\ Accept(data, data.pending, "user_report_unverified")
    /\ UNCHANGED <<http, transport, window, user, sessions, closed>>

\* skip() and cancel() let go of the lock before they call transport.cancel.
Abandon(d) ==
    /\ Save([d EXCEPT !.capture = None, !.pending = None])
    /\ http' = IF data.capture = None THEN http
               ELSE [at |-> "cancelling", session |-> data.capture]
    /\ closed' = closed \cup ({data.capture, PendingSession(data)} \ {None})
    /\ UNCHANGED <<transport, window, user, sessions>>

\* Bug: a window that is skipped leaves the context certain.
BugSkipCertain ==
    /\ http.at = "idle" /\ data # None
    /\ Abandon([data EXCEPT !.status = "captured"])

Skip ==
    /\ http.at = "idle" /\ data # None
    /\ Abandon([data EXCEPT !.status = "captured",
                            !.uncertain = @ \/ data.capture # None])

Cancel ==
    /\ http.at = "idle" /\ data # None
    /\ Abandon([data EXCEPT !.status = "cancelled", !.uncertain = TRUE])

Crash == Up /\ Down /\ UNCHANGED store

\* __init__: "The remote may have changed while this service was stopped."
Restart ==
    /\ ~Up
    /\ http' = [at |-> "idle", session |-> None] /\ link' = FALSE
    /\ \/ index = None /\ UNCHANGED <<data, store, closed>>
       \/ /\ index # None
          /\ LET d == files[index]
             IN  /\ Save([d EXCEPT !.uncertain = TRUE, !.capture = None,
                            !.status = IF d.capture = None THEN @ ELSE "expired"])
                 /\ Close(d.capture)
    /\ heard' = FALSE
    /\ UNCHANGED <<collector, callback, commands, events, window, remote, pressed, sessions>>
-----------------------------------------------------------------------------
(* LearningTransport *)

modelOnly == <<data, store, user, sessions, closed>>
Publish(kind) == commands' = commands \cup {[kind |-> kind, session |-> http.session]}

\* arm(): the node's status is known, the collector is there before the command.
ArmCollect ==
    /\ http.at = "arming" /\ link
    /\ http' = [http EXCEPT !.at = "waiting"]
    /\ collector' = http.session
    /\ Publish("start")
    /\ UNCHANGED <<modelOnly, callback, link, events, window>>

\* No status, no connection, or no "ready" in time: the collector is given up.
ArmFails ==
    /\ http.at \in {"arming", "waiting"}
    /\ http' = [http EXCEPT !.at = "failed"]
    /\ collector' = IF http.at = "waiting" THEN None ELSE collector
    /\ UNCHANGED <<modelOnly, callback, link, commands, events, window>>

\* cancel(): collection stops at once, the node is told if it can be.
CancelCollect ==
    /\ http.at = "cancelling"
    /\ http' = [at |-> "idle", session |-> None]
    /\ collector' = None
    /\ UNCHANGED commands \/ (link /\ Publish("cancel"))
    /\ UNCHANGED <<modelOnly, callback, link, events, window>>

\* The collector is taken away under the lock, the model told after it.
Collected(t, what) == collector' = None /\ callback' = [callback EXCEPT ![t] = what]
Expired == [kind |-> "expire", session |-> collector]

\* _message: a frame is complete, its parts are not, the window is over, or "ready".
OnMessage ==
    /\ Up /\ link /\ events # <<>> /\ callback["paho"] = None
    /\ events' = Tail(events)
    /\ LET e == Head(events)
       IN  /\ http' = IF e.kind = "ready" /\ http = [at |-> "waiting", session |-> e.session]
                      THEN [http EXCEPT !.at = "ready"] ELSE http
           /\ IF e.kind = "ready" \/ e.session # collector
              THEN UNCHANGED <<collector, callback>>
              ELSE Collected("paho", IF e.kind = "capture"
                                     THEN [kind |-> "capture", frame |-> e.frame] ELSE Expired)
    /\ UNCHANGED <<modelOnly, link, commands, window>>

\* Bug: the collector is dropped with the connection and nobody is told.
BugSilentDisconnect ==
    /\ Up /\ link /\ callback["paho"] = None
    /\ link' = FALSE /\ events' = <<>>
    /\ collector' = None
    /\ UNCHANGED <<modelOnly, http, commands, window, callback>>

OnDisconnect ==
    /\ Up /\ link /\ callback["paho"] = None
    /\ link' = FALSE /\ events' = <<>>
    /\ IF collector = None THEN UNCHANGED <<collector, callback>>
       ELSE Collected("paho", Expired)
    /\ UNCHANGED <<modelOnly, http, commands, window>>

OnConnect ==
    /\ Up /\ ~link /\ callback["paho"] = None
    /\ link' = TRUE
    /\ UNCHANGED <<modelOnly, http, collector, callback, commands, events, window>>

\* active_until has passed.
Watchdog ==
    /\ collector # None /\ callback["watchdog"] = None
    /\ Collected("watchdog", Expired)
    /\ UNCHANGED <<modelOnly, http, link, commands, events, window>>
-----------------------------------------------------------------------------
(* node02, and the person with the remote *)

hostOnly == <<data, store, http, collector, callback, link, sessions, closed>>
Emit(e) == events' = IF Up /\ link THEN Append(events, e) ELSE events

\* Busy while it is armed: the rejection reaches nobody.
OnCommand(m) ==
    /\ m \in commands /\ commands' = commands \ {m}
    /\ \/ /\ m.kind = "start" /\ window = None
          /\ window' = m.session /\ Emit([kind |-> "ready", session |-> m.session])
       \/ /\ m.kind = "cancel" /\ window = m.session
          /\ window' = None /\ Emit([kind |-> "ended", session |-> m.session])
       \/ /\ window # IF m.kind = "start" THEN None ELSE m.session
          /\ UNCHANGED <<window, events>>
    /\ UNCHANGED <<hostOnly, user>>

WindowExpires ==
    /\ window # None /\ window' = None
    /\ Emit([kind |-> "ended", session |-> window])
    /\ UNCHANGED <<hostOnly, commands, user>>

\* The commands under way are for the boot that is over.
Reboot == window' = None /\ commands' = {} /\ UNCHANGED <<hostOnly, events, user>>

\* A person who follows the prompts leaves the remote alone while the service
\* takes its context for certain, except once in a window that is ready.
MayPress ==
    /\ Up /\ Started /\ data.capture # None => ~pressed
    /\ Up /\ Started /\ data.baseline /\ ~data.uncertain => data.status = "ready"

\* Any key, perhaps a wrong one; the node may miss the frame or spoil it.
Press(after) ==
    /\ MayPress
    /\ remote' = after /\ UNCHANGED heard
    /\ pressed' = (data # None /\ data.capture # None)
    /\ \/ UNCHANGED <<window, events>>
       \/ /\ window # None /\ window' = None
          /\ \/ \E state \in {after, None}, valid \in BOOLEAN :
                   /\ valid \/ state = None
                   /\ Emit([kind |-> "capture", session |-> window,
                            frame |-> [session |-> window, state |-> state, was |-> remote,
                                       valid |-> valid]])
             \/ Emit([kind |-> "ended", session |-> window])   \* parts are missing
             \/ UNCHANGED events
    /\ UNCHANGED <<hostOnly, commands>>
-----------------------------------------------------------------------------
HttpStep == ArmCollect \/ ArmFails \/ ArmRaised \/ ArmReturned \/ CancelCollect

Request == Start \/ StartCut \/ (\E b \in Button : NextButton(b)) \/ Confirm \/ Skip \/ Cancel

Callback(t) == Receive(t) \/ Expire(t)

Next ==
    \/ Request \/ HttpStep \/ Crash \/ Restart
    \/ (\E t \in Thread : Callback(t)) \/ Watchdog
    \/ OnMessage \/ OnDisconnect \/ OnConnect
    \/ (\E m \in commands : OnCommand(m)) \/ WindowExpires \/ Reboot
    \/ \E after \in State : Press(after)

Spec == Init /\ [][Next]_vars

\* Each thread of the service keeps running while the service does; of the node
\* and of the network nothing is asked.
FairSpec == Spec /\ WF_vars(HttpStep) /\ WF_vars(Watchdog)
                 /\ \A t \in Thread : WF_vars(Callback(t))
-----------------------------------------------------------------------------
(* Properties *)

Records(p) == IF files[p] = None THEN <<>> ELSE files[p].records

\* A record whose meaning the library vouches for shows the remote's true state
\* before the key, however many frames were lost, windows skipped, presses
\* missed and services restarted between this frame and the one before.
VerifiedTrue ==
    \A p \in Profile : \A i \in DOMAIN Records(p) :
        LET r == Records(p)[i]
        IN  r.source = "library" /\ r.button # "baseline" => r.of.before = r.of.frame.was

\* A window gives at most one record, and none once the service has called it
\* skipped, cancelled, expired or rejected, whatever the threads still carry.
ClosedForGood ==
    \A p \in Profile : \A i \in DOMAIN Records(p) :
        LET s == Records(p)[i].of.frame.session
        IN  s \notin closed /\ \A j \in 1 .. i - 1 : Records(p)[j].of.frame.session # s

\* Records that were saved stay, in their order, and a restart always finds the
\* profile active.json names, wherever the service died.
SavedStays ==
    [][/\ \A p \in Profile : /\ files[p] # None => files'[p] # None
                             /\ SubSeq(Records(p)', 1, Len(Records(p))) = Records(p)
       /\ index' # None => files'[index'] # None]_vars

\* test_restart_requires_baseline_without_losing_saved_records: after a restart
\* no key's window opens before a baseline frame has been received again.
RestartRequiresBaseline ==
    [][data' # None /\ data'.status = "arming" /\ data'.button # "baseline" => heard]_vars

\* A window never stays open: a frame, the watchdog, a lost connection or the
\* failure to open it ends it.
WindowsEnd == (data # None /\ data.capture # None) ~> (data = None \/ data.capture = None)
=============================================================================
