------------------------------ MODULE Control ------------------------------
(***************************************************************************)
(* The way of a tool call: the Hermes plugin xiaoxi_ir_learning, the HTTP  *)
(* server of services/ir_learning with its one thread, IRControl and the   *)
(* learning session it must not disturb, with the operator's command line  *)
(* beside them.  Replays are OneShot's steps, RawReplay has the detail.    *)
(* Requests queue, time out and lose their answers; the service dies; the  *)
(* same command id may be used again by anyone.                            *)
(***************************************************************************)
EXTENDS Integers, Sequences

CONSTANTS Call,        \* calls of the plugin's tools
          Command,     \* the command ids they give
          Record,      \* records that profiles hold or may come to hold
          Sound, Known,\* those with a waveform to replay, with a known protocol
          MaxStranger, \* bound: connections that never send a whole request
          MaxCrash,    \* bound: the service dies
          None

ASSUME ControlAssumption ==
    /\ Sound \subseteq Record /\ Known \subseteq Record
    /\ MaxStranger \in Nat /\ MaxCrash \in Nat
    /\ None \notin Call \cup Command \cup Record /\ "cli" \notin Call

VARIABLES
    call,     \* call[k]: what the plugin's _request knows
    queue,    \* connections the server's socket holds, oldest first
    server,   \* what the HTTP thread does, and for which call
    window,   \* the session's receiving window; "stuck": data says open, nobody listens
    saved,    \* the records of the profiles on disk
    run,      \* run[r]: replay_once in the service and on the command line
    journal,  \* journal[c]: what replay-<c>.json says
    air,      \* commits on the way to the node
    emitted,  \* history: commits the diode sent
    listed,   \* history: records some list offered for sending
    crashes   \* deaths of the service so far

vars == <<call, queue, server, window, saved, run, journal, air, emitted, listed, crashes>>

Runner == {"service", "cli"}
Stranger == None

\* Answers to a send that say nothing was sent: plain errors.
Plain == {"bad_arguments", "no_credentials", "learning_capture_active", "record_missing",
          "preflight"}
Commit == [by : Call \cup {"cli"}, command : Command]

\* Values a model value cannot be taken for.
ASSUME NoneAssumption == None \notin Plain \cup {"cli", "send", "node_acknowledged"}

ToolCall == [kind : {"send", "list", "learn", "stop", None}, at : {"new", "waiting", "done"},
             command : Command \cup {None}, record : Record \cup {None},
             offered : BOOLEAN,   \* history: some list had shown the record
             answer : Plain \cup {"node_acknowledged", "unknown_no_retry", "ok", "failed", None}]
Thread == [at : {"down", "idle", "read", "replay", "arming", "cancelling"},
           of : Call \cup {None}]
Replaying == [at : {"none", "select", "reserved", "committed"}, by : Call \cup {"cli", None},
              command : Command \cup {None}, record : Record \cup {None}]
Entry == [phase : {"absent", "reserved", "consumed"}, by : Call \cup {"cli", None}] \* history: whose

TypeOK ==
    /\ call \in [Call -> ToolCall]
    /\ queue \in Seq(Call \cup {Stranger})
    /\ server \in Thread
    /\ window \in {"closed", "open", "stuck"}
    /\ saved \subseteq Record /\ listed \subseteq Record
    /\ run \in [Runner -> Replaying]
    /\ journal \in [Command -> Entry]
    /\ air \subseteq Commit /\ emitted \in Seq(Commit)
    /\ crashes \in 0 .. MaxCrash

NoRun == [at |-> "none", by |-> None, command |-> None, record |-> None]
Idle == [at |-> "idle", of |-> None]

Init ==
    /\ call = [k \in Call |-> [kind |-> None, at |-> "new", command |-> None,
                               record |-> None, offered |-> FALSE, answer |-> None]]
    /\ queue = <<>> /\ server = Idle /\ window = "closed"
    /\ saved \in SUBSET Record /\ listed = {}
    /\ run = [r \in Runner |-> NoRun]
    /\ journal = [c \in Command |-> [phase |-> "absent", by |-> None]]
    /\ air = {} /\ emitted = <<>> /\ crashes = 0

network == <<air, emitted>>
replays == <<run, journal, network>>
session == <<window, saved>>
-----------------------------------------------------------------------------
(* The plugin *)

Gets(k, answer) == [call EXCEPT ![k].at = "done", ![k].answer = answer]

\* failure(): after a send nothing may be concluded from a missing answer.
Failure(k) == IF call[k].kind = "send" THEN "unknown_no_retry" ELSE "failed"

\* A tool is called with arguments of any kind, and the request goes out; a
\* connection that is refused leaves nothing in the queue.
Ask(k, kind, c, r) ==
    /\ call[k].at = "new"
    /\ kind # "send" => c = None /\ r = None
    /\ kind = "send" => c # None /\ r # None
    /\ LET Now(at, answer) == [kind |-> kind, at |-> at, command |-> c, record |-> r,
                               offered |-> r \in listed, answer |-> answer]
       IN  \/ /\ \E why \in {"bad_arguments", "no_credentials"} : call' = [call EXCEPT ![k] =
                    Now("done", IF kind = "send" THEN why ELSE "failed")]
              /\ UNCHANGED queue
           \/ /\ call' = [call EXCEPT ![k] = Now("waiting", None)]
              /\ \/ server.at # "down" /\ queue' = Append(queue, k)
                 \/ UNCHANGED queue
    /\ UNCHANGED <<server, session, replays, listed, crashes>>

\* Twenty seconds, or five, or the connection breaks.  The request may still be
\* in the queue, and be served.
GiveUp(k) ==
    /\ call[k].at = "waiting"
    /\ call' = Gets(k, Failure(k))
    /\ UNCHANGED <<queue, server, session, replays, listed, crashes>>

\* The answer, if it gets through and somebody still waits for it.
Answer(k, answer) ==
    \/ call[k].at = "waiting" /\ call' = Gets(k, answer)
    \/ UNCHANGED call
-----------------------------------------------------------------------------
(* The HTTP server *)

ConnectStranger ==
    /\ server.at # "down" /\ Len(SelectSeq(queue, LAMBDA q : q = Stranger)) < MaxStranger
    /\ queue' = Append(queue, Stranger)
    /\ UNCHANGED <<call, server, session, replays, listed, crashes>>

\* serve_forever takes one connection and is not back before it is answered.
Accept ==
    /\ server.at = "idle" /\ queue # <<>>
    /\ server' = [at |-> "read", of |-> Head(queue)]
    /\ queue' = Tail(queue)
    /\ UNCHANGED <<call, session, replays, listed, crashes>>

\* Bug: setup() does not set a timeout.
BugReadTimesOut == FALSE /\ UNCHANGED vars

\* A request that does not come: settimeout(3).
ReadTimesOut ==
    /\ server = [at |-> "read", of |-> Stranger]
    /\ server' = Idle
    /\ UNCHANGED <<call, queue, session, replays, listed, crashes>>

Serving(k) == server = [at |-> "read", of |-> k]

\* do_POST answers 401, or the request is none it knows: no 2xx, or no result.
Reject(k) ==
    /\ Serving(k)
    /\ Answer(k, Failure(k)) /\ server' = Idle
    /\ UNCHANGED <<queue, session, replays, listed, crashes>>

\* Bug: a send does not look at the learning session.
BugMaySend == TRUE

MaySend == window = "closed"

\* control_action and send(): refused while a key is being learnt.
Send(k) ==
    /\ Serving(k) /\ call[k].kind = "send"
    /\ \/ /\ ~MaySend
          /\ Answer(k, "learning_capture_active") /\ server' = Idle
          /\ UNCHANGED run
       \/ /\ MaySend
          /\ server' = [server EXCEPT !.at = "replay"]
          /\ run' = [run EXCEPT !["service"] = [at |-> "select", by |-> k,
                        command |-> call[k].command, record |-> call[k].record]]
          /\ UNCHANGED call
    /\ UNCHANGED <<queue, session, journal, network, listed, crashes>>

\* replay._selection finds the record and its waveform is safe.
Selectable(r) == r \in saved \cap Sound

\* _command of control.py: replayable is what the selection of the operator's
\* command line would accept now.
Replayable == {r \in saved : Selectable(r)}

\* _project_command lets only records of a known protocol pass as replayable.
Offered == Replayable \cap Known

\* _project_catalog: the commands that are shown, if the list gets through.
Shown(k, commands) ==
    listed' = listed \cup (IF call'[k].answer = "ok" THEN commands ELSE {})

\* catalog() reads the records of one profile, the active one or another; a
\* profile that cannot be read fails the whole list.
Catalog(k) ==
    /\ Serving(k) /\ call[k].kind = "list" /\ server' = Idle
    /\ \/ /\ Answer(k, "ok")
          /\ \E selected \in SUBSET Record : Shown(k, Offered \cap selected)
       \/ Answer(k, "failed") /\ UNCHANGED listed
    /\ UNCHANGED <<queue, session, replays, crashes>>

\* _project: of a learning answer, whether it is ok.
Project(k, ok) == Answer(k, IF ok THEN "ok" ELSE "failed")

\* next(): refused, or the window is announced and the node is asked to open it.
\* A save that fails has already set the window in memory: nobody will end it.
Learn(k) ==
    /\ Serving(k) /\ call[k].kind = "learn"
    /\ \/ Project(k, FALSE) /\ server' = Idle /\ UNCHANGED window
       \/ /\ window = "closed"
          /\ window' = "stuck" /\ Project(k, FALSE) /\ server' = Idle
       \/ /\ window = "closed"
          /\ window' = "open" /\ server' = [server EXCEPT !.at = "arming"] /\ UNCHANGED call
    /\ UNCHANGED <<queue, saved, replays, listed, crashes>>

\* transport.arm returns, or raises and next() closes the window.
Armed(k) ==
    /\ server = [at |-> "arming", of |-> k] /\ server' = Idle
    /\ \/ Project(k, TRUE) /\ UNCHANGED window
       \/ Project(k, FALSE) /\ window' = "closed"
    /\ UNCHANGED <<queue, saved, replays, listed, crashes>>

\* skip() and cancel(): the window is closed at once, then the node is told.
Stop(k) ==
    /\ Serving(k) /\ call[k].kind = "stop"
    /\ window' = "closed"
    /\ \/ Project(k, FALSE) /\ server' = Idle
       \/ server' = [server EXCEPT !.at = "cancelling"] /\ UNCHANGED call
    /\ UNCHANGED <<queue, saved, replays, listed, crashes>>

Cancelled(k) ==
    /\ server = [at |-> "cancelling", of |-> k]
    /\ Project(k, TRUE) /\ server' = Idle
    /\ UNCHANGED <<queue, session, replays, listed, crashes>>

\* The MQTT thread ends the window when send() does not hold the lock, perhaps
\* with a frame that becomes a record.
Callback ==
    /\ window = "open" /\ server.at # "replay"
    /\ window' = "closed"
    /\ \E r \in Record \cup {None} : saved' = saved \cup ({r} \ {None})
    /\ UNCHANGED <<call, queue, server, replays, listed, crashes>>

\* The journal and the profiles stay; __init__ closes the window that was open.
Crash ==
    /\ server.at # "down" /\ crashes < MaxCrash
    /\ crashes' = crashes + 1
    /\ server' = [at |-> "down", of |-> None] /\ queue' = <<>> /\ window' = "closed"
    /\ run' = [run EXCEPT !["service"] = NoRun]
    /\ UNCHANGED <<call, saved, journal, network, listed>>

Restart ==
    /\ server.at = "down" /\ server' = Idle
    /\ UNCHANGED <<call, queue, session, replays, listed, crashes>>
-----------------------------------------------------------------------------
(* replay_once, in the service and on the command line *)

\* main() of replay.py: another process, which knows nothing of the session.
StartCli(c, r) ==
    /\ run["cli"].at = "none"
    /\ run' = [run EXCEPT !["cli"] = [at |-> "select", by |-> "cli", command |-> c, record |-> r]]
    /\ UNCHANGED <<call, queue, server, session, journal, network, listed, crashes>>

\* The run is over; IRControl passes on what it says, the command line prints it.
Ends(r, answer) ==
    /\ run' = [run EXCEPT ![r] = NoRun]
    /\ IF r = "service" THEN server' = Idle /\ Answer(server.of, answer)
                        ELSE UNCHANGED <<server, call>>
    /\ UNCHANGED <<queue, session, listed, crashes>>

\* Before the id is reserved: PREFLIGHT_ERRORS are plain, whatever else is
\* raised there counts as unknown.
PreflightFails(r) ==
    /\ run[r].at = "select"
    /\ \/ ~Selectable(run[r].record) /\ Ends(r, "record_missing")
       \/ \E answer \in {"preflight", "unknown_no_retry"} : Ends(r, answer)
    /\ UNCHANGED <<journal, network>>

\* Bug: the journal is written over.
BugMayReserve(c) == TRUE

\* O_EXCL.
MayReserve(c) == journal[c].phase = "absent"

Reserve(r) ==
    /\ run[r].at = "select" /\ Selectable(run[r].record)
    /\ LET c == run[r].command
       IN  \/ /\ MayReserve(c)
              /\ journal' = [journal EXCEPT ![c] = [phase |-> "reserved", by |-> run[r].by]]
              /\ run' = [run EXCEPT ![r].at = "reserved"]
              /\ UNCHANGED <<call, queue, server, session, listed, crashes>>
           \/ ~MayReserve(c) /\ Ends(r, "unknown_no_retry") /\ UNCHANGED journal
    /\ UNCHANGED network

\* _attempt up to the publication of the commit.
Publish(r) ==
    /\ run[r].at = "reserved"
    /\ journal' = [journal EXCEPT ![run[r].command].phase = "consumed"]
    /\ air' = air \cup {[by |-> run[r].by, command |-> run[r].command]}
    /\ run' = [run EXCEPT ![r].at = "committed"]
    /\ UNCHANGED <<call, queue, server, session, emitted, listed, crashes>>

WasEmitted(r) ==
    \E i \in DOMAIN emitted : emitted[i] = [by |-> run[r].by, command |-> run[r].command]

Acknowledged(r) ==
    /\ run[r].at = "committed" /\ WasEmitted(r)
    /\ Ends(r, "node_acknowledged")
    /\ UNCHANGED <<journal, network>>

\* Bug: an error after the reservation passes for one before it.
BugErrorOf(r) == IF run[r].at = "reserved" THEN "preflight" ELSE "unknown_no_retry"

\* Every error after the reservation is unknown_no_retry: _unknown.
ErrorOf(r) == "unknown_no_retry"

\* An exception, or two seconds without an acknowledgement.
AttemptFails(r) ==
    /\ run[r].at \in {"reserved", "committed"}
    /\ Ends(r, ErrorOf(r))
    /\ UNCHANGED <<journal, network>>

\* The node sends a commit once, whenever it comes, or never.
NodeSends ==
    \E m \in air : /\ air' = air \ {m}
                   /\ emitted' = Append(emitted, m)
                   /\ UNCHANGED <<call, queue, server, session, run, journal, listed, crashes>>

NodeMisses ==
    \E m \in air : /\ air' = air \ {m}
                   /\ UNCHANGED <<call, queue, server, session, run, journal, emitted, listed, crashes>>
-----------------------------------------------------------------------------
Handle(k) == Reject(k) \/ Send(k) \/ Catalog(k) \/ Learn(k) \/ Armed(k) \/ Stop(k) \/ Cancelled(k)

Replay(r) == PreflightFails(r) \/ Reserve(r) \/ Publish(r) \/ Acknowledged(r) \/ AttemptFails(r)

Next ==
    \/ \E k \in Call :
          \/ \E kind \in {"send", "list", "learn", "stop"}, c \in Command \cup {None},
                r \in Record \cup {None} : Ask(k, kind, c, r)
          \/ GiveUp(k) \/ Handle(k)
    \/ ConnectStranger \/ Accept \/ ReadTimesOut \/ Callback \/ Crash \/ Restart
    \/ \E c \in Command, r \in Record : StartCli(c, r)
    \/ \E r \in Runner : Replay(r)
    \/ NodeSends \/ NodeMisses

Spec == Init /\ [][Next]_vars

\* The HTTP thread never waits without a timeout: of a socket, of the node's
\* answers, of the transport's start.
FairSpec == /\ Spec
            /\ WF_vars(Accept) /\ WF_vars(ReadTimesOut) /\ WF_vars(Replay("service"))
            /\ \A k \in Call : WF_vars(Handle(k))
-----------------------------------------------------------------------------
(* Properties *)

Published(by) == (\E m \in air : m.by = by) \/ (\E i \in DOMAIN emitted : emitted[i].by = by)

\* What the model is told is so: a send that was acknowledged reached the diode,
\* one that ended in a plain error did not, never will and has not used up its
\* id, and a record that was offered is not missing afterwards, although requests
\* outlive the calls that made them and answers get lost.
AnswerHonest ==
    \A k \in Call :
        /\ call[k].answer = "node_acknowledged" => \E i \in DOMAIN emitted : emitted[i].by = k
        /\ call[k].answer \in Plain =>
              /\ ~Published(k) /\ server.of # k
              /\ \A c \in Command : journal[c].by # k
              /\ \A i \in DOMAIN queue : queue[i] # k
        /\ call[k].answer = "record_missing" => ~call[k].offered

\* Whoever gives an id, however often: it reaches the diode after it is used up
\* for good, and at most once, even if the node forgets what it has seen.
Shot == INSTANCE OneShot WITH
    consumed <- {c \in Command : journal[c].phase = "consumed"},
    emitted <- [i \in DOMAIN emitted |-> emitted[i].command]

ImplementsOneShot == Shot!Spec

\* The receiver is not disturbed: from send()'s look at the session to the last
\* commit, several steps later, no learning window is open.
NoSendWhileLearning == server.at = "replay" => window = "closed"

\* One thread serves everybody: nobody who stalls keeps the others waiting.
EveryRequestServed ==
    \A k \in Call : (\E i \in DOMAIN queue : queue[i] = k) ~> (\A i \in DOMAIN queue : queue[i] # k)
=============================================================================
