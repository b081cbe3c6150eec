---------------------------- MODULE ControlProofs ----------------------------
(***************************************************************************)
(* Proofs about Control: for any number of calls, command ids and records. *)
(***************************************************************************)
EXTENDS Control, TLAPS

USE ControlAssumption, NoneAssumption

\* No id was ever reserved for k, so none can be sent for it.
Unsent(k) == \A c \in Command : journal[c].by # k

\* What a call is about, and what it may rely on.
Asked ==
    \A k \in Call :
        /\ call[k].kind = "send" => call[k].command \in Command /\ call[k].record \in Record
        /\ call[k].offered => call[k].record \in listed
        /\ call[k].at # "done" => call[k].answer = None

\* The HTTP thread and the replay it runs belong together.
Serves ==
    /\ server.at \in {"down", "idle"} => server.of = None
    /\ server.at \in {"replay", "arming", "cancelling"} => server.of \in Call
    /\ run["service"].at # "none" <=> server.at = "replay"
    /\ server.at = "replay" => /\ run["service"].by = server.of
                               /\ run["service"].record = call[server.of].record
    /\ run["cli"].at # "none" => run["cli"].by = "cli"

\* The journal knows who holds an id, so two runs never hold the same.
Runs ==
    \A r \in Runner :
        /\ run[r].at # "none" => run[r].command \in Command
        /\ run[r].at = "reserved" =>
              journal[run[r].command] = [phase |-> "reserved", by |-> run[r].by]

\* Whatever is on its way or sent has used up its id, and is there once.
Commits ==
    /\ \A m \in air : journal[m.command] = [phase |-> "consumed", by |-> m.by]
    /\ \A i \in DOMAIN emitted :
          /\ journal[emitted[i].command] = [phase |-> "consumed", by |-> emitted[i].by]
          /\ emitted[i] \notin air

Lists == listed \subseteq saved \cap Sound

\* A call's request is in one place at a time, and until that is a replay past
\* its selection nothing was reserved for it.
Queued ==
    /\ \A i, j \in DOMAIN queue : queue[i] = queue[j] /\ queue[i] # Stranger => i = j
    /\ \A i \in DOMAIN queue : queue[i] # Stranger =>
          /\ queue[i] # server.of /\ call[queue[i]].at # "new" /\ Unsent(queue[i])
          /\ call[queue[i]].answer \notin Plain

Unserved ==
    \A k \in Call :
        /\ call[k].at = "new" => server.of # k /\ Unsent(k)
        /\ server.of = k => call[k].answer \notin Plain
        /\ server.of = k /\ (server.at # "replay" \/ run["service"].at = "select") => Unsent(k)

\* What AnswerHonest says of the answers alone.
Answers ==
    \A k \in Call :
        /\ call[k].answer = "node_acknowledged" => \E i \in DOMAIN emitted : emitted[i].by = k
        /\ call[k].answer \in Plain => Unsent(k)
        /\ call[k].answer = "record_missing" => ~call[k].offered

Inv == NoSendWhileLearning /\ Asked /\ Serves /\ Runs /\ Commits /\ Lists
       /\ Queued /\ Unserved /\ Answers

IInv == TypeOK /\ Inv

Says == Plain \cup {"node_acknowledged", "unknown_no_retry", "ok", "failed"}

LEMMA InitInv == Init => IInv
<1> SUFFICES ASSUME Init PROVE IInv
  OBVIOUS
<1>1. TypeOK
  BY DEF Init, TypeOK, ToolCall, Thread, Replaying, Entry, Commit, Idle, NoRun, Stranger, Runner
<1>2. Inv
  BY DEF Init, Inv, NoSendWhileLearning, Asked, Serves, Runs, Commits, Lists, Queued, Unserved,
         Answers, Unsent, Idle, NoRun, Runner, Plain
<1> QED
  BY <1>1, <1>2 DEF IInv

-----------------------------------------------------------------------------
(* A call that ends *)

\* An answer reaches a call that still waits, and changes nothing else of it.
Told(k, answer) ==
    /\ call' \in [Call -> ToolCall]
    /\ \A j \in Call :
          /\ call'[j].kind = call[j].kind /\ call'[j].command = call[j].command
          /\ call'[j].record = call[j].record /\ call'[j].offered = call[j].offered
          /\ call'[j].at = "new" <=> call[j].at = "new"
          /\ call'[j] = call[j] \/ (j = k /\ call'[j].at = "done" /\ call'[j].answer = answer)

LEMMA AnswerTells ==
    ASSUME TypeOK, NEW k \in Call, NEW answer \in Says, Answer(k, answer)
    PROVE  Told(k, answer)
<1>1. CASE UNCHANGED call
  BY <1>1 DEF Told, TypeOK
<1>2. CASE call[k].at = "waiting" /\ call' = Gets(k, answer)
  <2> DEFINE new == [call[k] EXCEPT !.at = "done", !.answer = answer]
  <2>1. call[k] \in ToolCall
    BY DEF TypeOK
  <2>2. new \in ToolCall /\ new.at = "done" /\ new.answer = answer /\ new.kind = call[k].kind
        /\ new.command = call[k].command /\ new.record = call[k].record
        /\ new.offered = call[k].offered
    BY <2>1 DEF ToolCall, Says
  <2>3. call' = [call EXCEPT ![k] = new]
    BY <1>2, <2>1 DEF Gets, TypeOK, ToolCall
  <2> QED
    BY <1>2, <2>2, <2>3 DEF Told, TypeOK
<1> QED
  BY <1>1, <1>2 DEF Answer

\* The HTTP thread is through with a request, whatever it was; what it says is so.
Finishes(k, answer) ==
    /\ k \in Call /\ server.of = k /\ server' = Idle /\ Told(k, answer)
    /\ run' \in [Runner -> Replaying] /\ run'["cli"] = run["cli"] /\ run'["service"].at = "none"
    /\ window' \in {"closed", "open", "stuck"}
    /\ listed \subseteq listed' /\ listed' \subseteq saved \cap Sound
    /\ UNCHANGED <<queue, saved, journal, air, emitted, crashes>>
    /\ answer = "node_acknowledged" => \E i \in DOMAIN emitted : emitted[i].by = k
    /\ answer \in Plain => Unsent(k)
    /\ answer = "record_missing" => ~call[k].offered

LEMMA FinishesKeeps ==
    ASSUME IInv, NEW k, NEW answer \in Says, Finishes(k, answer)
    PROVE  IInv'
<1>1. TypeOK'
  BY DEF IInv, TypeOK, Finishes, Told, Idle, Thread
<1>2. NoSendWhileLearning'
  BY DEF NoSendWhileLearning, Finishes, Idle
<1>3. Asked'
  BY DEF IInv, Inv, Asked, Finishes, Told
<1>4. Serves'
  BY DEF IInv, Inv, Serves, Finishes, Idle
<1>5. Runs'
  BY DEF IInv, Inv, Runs, Finishes, Runner
<1>6. Commits'
  BY DEF IInv, Inv, Commits, Finishes
<1>7. Lists'
  BY DEF Lists, Finishes
<1>8. Queued'
  <2>1. \A i \in DOMAIN queue : queue[i] # Stranger => queue[i] \in Call /\ queue[i] # k
    BY DEF IInv, Inv, TypeOK, Queued, Finishes
  <2> QED
    BY <2>1 DEF IInv, Inv, Queued, Finishes, Told, Idle, Unsent, Stranger
<1>9. Unserved'
  BY DEF IInv, Inv, Unserved, Finishes, Told, Idle, Unsent
<1>10. Answers'
  BY DEF IInv, Inv, Answers, Finishes, Told, Unsent
<1> QED
  BY <1>1, <1>2, <1>3, <1>4, <1>5, <1>6, <1>7, <1>8, <1>9, <1>10 DEF IInv, Inv

-----------------------------------------------------------------------------
(* The steps *)

\* The plugin: a request goes out, is refused, or is given up.
LEMMA AskKeeps ==
    ASSUME IInv, NEW k \in Call, NEW kind \in {"send", "list", "learn", "stop"},
           NEW c \in Command \cup {None}, NEW r \in Record \cup {None}, Ask(k, kind, c, r)
    PROVE  IInv'
<1> DEFINE Now(at, answer) == [kind |-> kind, at |-> at, command |-> c, record |-> r,
                               offered |-> r \in listed, answer |-> answer]
<1>0. PICK answer \in Says \cup {None}, at \in {"waiting", "done"} :
        /\ call' = [call EXCEPT ![k] = Now(at, answer)]
        /\ \/ at = "waiting" /\ answer = None
           \/ at = "done" /\ answer \in {"bad_arguments", "no_credentials", "failed"}
              /\ queue' = queue
  BY DEF Ask, Says, Plain
<1>1. PICK n \in ToolCall :
        /\ call' = [call EXCEPT ![k] = n] /\ n.kind = kind /\ n.command = c /\ n.record = r
        /\ n.offered = (r \in listed)
        /\ \/ n.at = "waiting" /\ n.answer = None
           \/ n.at = "done" /\ n.answer \in {"bad_arguments", "no_credentials", "failed"}
              /\ queue' = queue
  <2>1. PICK b \in BOOLEAN : b = (r \in listed)
    <3>1. CASE r \in listed
      BY <3>1, TRUE = (r \in listed)
    <3>2. CASE r \notin listed
      BY <3>2, FALSE = (r \in listed)
    <3> QED
      BY <3>1, <3>2
  <2> DEFINE n == [kind |-> kind, at |-> at, command |-> c, record |-> r,
                   offered |-> b, answer |-> answer]
  <2>2. n \in ToolCall
    BY DEF ToolCall, Says
  <2>3. n = Now(at, answer)
    BY <2>1
  <2>4. /\ n.kind = kind /\ n.at = at /\ n.command = c /\ n.record = r
        /\ n.offered = b /\ n.answer = answer
    OBVIOUS
  <2> HIDE DEF n, Now
  <2> QED
    BY <1>0, <2>1, <2>2, <2>3, <2>4
<1>2. /\ call[k].at = "new" /\ (kind = "send" => c # None /\ r # None)
      /\ queue' \in {queue, Append(queue, k)}
      /\ UNCHANGED <<server, session, replays, listed, crashes>>
  BY DEF Ask
<1>3. UNCHANGED <<server, window, saved, run, journal, air, emitted, listed, crashes>>
  BY <1>2 DEF session, replays, network
<1>4. \A j \in Call : call'[j] = IF j = k THEN n ELSE call[j]
  BY <1>1 DEF IInv, TypeOK
<1>5. /\ queue' \in Seq(Call \cup {Stranger})
      /\ \A i \in DOMAIN queue' :
            \/ i \in DOMAIN queue /\ queue'[i] = queue[i]
            \/ i = Len(queue) + 1 /\ queue'[i] = k /\ call'[k].at = "waiting"
  <2>1. queue \in Seq(Call \cup {Stranger}) /\ k \in Call \cup {Stranger}
    BY DEF IInv, TypeOK
  <2> QED
    BY <1>1, <1>2, <1>4, <2>1
<1>6. \A i \in DOMAIN queue : queue[i] # k
  BY <1>2 DEF IInv, Inv, Queued, Stranger
<1>7. Unsent(k) /\ server.of # k
  BY <1>2 DEF IInv, Inv, Unserved
<1>8. TypeOK'
  BY <1>1, <1>3, <1>5 DEF IInv, TypeOK
<1>9. Asked'
  BY ZenonT(60), <1>1, <1>2, <1>3, <1>4 DEF IInv, Inv, Asked
<1>10. NoSendWhileLearning' /\ Serves' /\ Runs' /\ Commits' /\ Lists'
  <2>1. server.at = "replay" => call'[server.of] = call[server.of]
    BY <1>4, <1>7 DEF IInv, Inv, Serves
  <2> QED
    BY <1>3, <2>1 DEF IInv, Inv, NoSendWhileLearning, Serves, Runs, Commits, Lists
<1>11. Queued'
  <2>1. \A i, j \in DOMAIN queue' : queue'[i] = queue'[j] /\ queue'[i] # Stranger => i = j
    BY <1>5, <1>6 DEF IInv, Inv, Queued
  <2>2. ASSUME NEW i \in DOMAIN queue', queue'[i] # Stranger
        PROVE  /\ queue'[i] # server.of /\ call'[queue'[i]].at # "new"
               /\ Unsent(queue'[i]) /\ call'[queue'[i]].answer \notin Plain
    <3>1. CASE i \in DOMAIN queue /\ queue'[i] = queue[i]
      <4>1. queue[i] \in Call /\ queue[i] # k
        BY <1>6, <2>2, <3>1 DEF IInv, TypeOK
      <4> QED
        BY <1>4, <2>2, <3>1, <4>1 DEF IInv, Inv, Queued
    <3>2. CASE queue'[i] = k /\ call'[k].at = "waiting"
      BY <1>1, <1>4, <1>7, <3>2
    <3> QED
      BY <1>5, <3>1, <3>2
  <2> QED
    BY <1>3, <2>1, <2>2 DEF Queued, Unsent, Stranger
<1>12. Unserved'
  BY <1>1, <1>3, <1>4, <1>7 DEF IInv, Inv, Unserved, Unsent
<1>13. Answers'
  <2>1. n.answer # "node_acknowledged" /\ n.answer # "record_missing"
    BY <1>1 DEF Plain
  <2> QED
    BY <1>3, <1>4, <1>7, <2>1 DEF IInv, Inv, Answers, Unsent
<1> QED
  BY <1>8, <1>9, <1>10, <1>11, <1>12, <1>13 DEF IInv, Inv

LEMMA GiveUpKeeps ==
    ASSUME IInv, NEW k \in Call, GiveUp(k)
    PROVE  IInv'
<1>1. Failure(k) \in {"unknown_no_retry", "failed"}
  BY DEF Failure
<1>2. Told(k, Failure(k))
  BY <1>1, AnswerTells DEF IInv, GiveUp, Answer, Says
<1>3. UNCHANGED <<queue, server, window, saved, run, journal, air, emitted, listed, crashes>>
  BY DEF GiveUp, session, replays, network
<1>4. Failure(k) \notin Plain
  BY <1>1 DEF Plain
<1>5. TypeOK'
  BY <1>2, <1>3 DEF IInv, TypeOK, Told
<1>6. NoSendWhileLearning' /\ Asked' /\ Serves' /\ Runs' /\ Commits' /\ Lists'
  BY <1>2, <1>3 DEF IInv, Inv, Told, NoSendWhileLearning, Asked, Serves, Runs, Commits, Lists
<1>7. Queued'
  <2>1. \A i \in DOMAIN queue : queue[i] # Stranger => queue[i] \in Call
    BY DEF IInv, TypeOK
  <2> QED
    BY <1>2, <1>3, <1>4, <2>1 DEF IInv, Inv, Queued, Told, Unsent, Stranger
<1>8. Unserved' /\ Answers'
  BY <1>1, <1>2, <1>3, <1>4 DEF IInv, Inv, Unserved, Answers, Told, Unsent
<1> QED
  BY <1>5, <1>6, <1>7, <1>8 DEF IInv, Inv

\* The server's socket: somebody else connects, a request is taken off the queue,
\* none comes, the service dies and is started again.
LEMMA SocketKeeps ==
    ASSUME IInv, ConnectStranger \/ Accept \/ ReadTimesOut \/ Crash \/ Restart
    PROVE  IInv'
<1>0. queue \in Seq(Call \cup {Stranger}) /\ server \in Thread
  BY DEF IInv, TypeOK
<1>1. CASE ConnectStranger
  <2>1. UNCHANGED <<call, server, window, saved, run, journal, air, emitted, listed, crashes>>
    BY <1>1 DEF ConnectStranger, session, replays, network
  <2>2. /\ queue' = Append(queue, Stranger) /\ queue' \in Seq(Call \cup {Stranger})
        /\ \A i \in DOMAIN queue' :
              queue'[i] # Stranger => i \in DOMAIN queue /\ queue'[i] = queue[i]
    BY <1>0, <1>1 DEF ConnectStranger
  <2>3. Queued'
    BY <2>1, <2>2 DEF IInv, Inv, Queued, Unsent, Stranger
  <2> QED
    BY <2>1, <2>2, <2>3 DEF IInv, Inv, TypeOK, NoSendWhileLearning, Asked, Serves, Runs,
       Commits, Lists, Unserved, Unsent, Answers, Stranger
<1>2. CASE Accept
  <2>1. UNCHANGED <<call, window, saved, run, journal, air, emitted, listed, crashes>>
    BY <1>2 DEF Accept, session, replays, network
  <2>2. /\ queue # <<>> /\ server.at = "idle" /\ server' = [at |-> "read", of |-> Head(queue)]
        /\ queue' = Tail(queue) /\ Head(queue) = queue[1] /\ 1 \in DOMAIN queue
        /\ Head(queue) \in Call \cup {None} /\ server' \in Thread
    BY <1>0, <1>2 DEF Accept, Thread, Stranger
  <2>3. /\ queue' \in Seq(Call \cup {Stranger})
        /\ \A i \in DOMAIN queue' : i + 1 \in DOMAIN queue /\ queue'[i] = queue[i + 1] /\ i \in Nat \ {0}
    BY <1>0, <2>2
  <2>4. server'.at = "read" /\ server'.of = queue[1]
    BY <2>2
  <2>5. Queued'
    <3>1. \A i, j \in DOMAIN queue' : queue'[i] = queue'[j] /\ queue'[i] # Stranger => i = j
      BY <2>3 DEF IInv, Inv, Queued
    <3>2. \A i \in DOMAIN queue' : queue'[i] # Stranger => queue'[i] # queue[1]
      BY <2>2, <2>3 DEF IInv, Inv, Queued
    <3> QED
      BY <2>1, <2>3, <2>4, <3>1, <3>2 DEF IInv, Inv, Queued, Unsent, Stranger
  <2>6. Unserved'
    BY <2>1, <2>2, <2>4 DEF IInv, Inv, Unserved, Queued, Unsent, Stranger
  <2>7. Serves' /\ NoSendWhileLearning'
    BY <2>1, <2>2, <2>4 DEF IInv, Inv, Serves, NoSendWhileLearning
  <2> QED
    BY <2>1, <2>2, <2>3, <2>5, <2>6, <2>7 DEF IInv, Inv, TypeOK, Asked, Runs,
       Commits, Lists, Unsent, Answers, Stranger
<1>3. CASE ReadTimesOut
  <2>1. /\ UNCHANGED <<call, queue, window, saved, run, journal, air, emitted, listed, crashes>>
        /\ server.at = "read" /\ server.of = None /\ server'.at = "idle" /\ server'.of = None
        /\ server' \in Thread
    BY <1>3 DEF ReadTimesOut, session, replays, network, Idle, Thread, Stranger
  <2> QED
    BY <2>1 DEF IInv, Inv, TypeOK, NoSendWhileLearning, Asked, Serves, Runs,
       Commits, Lists, Queued, Unserved, Unsent, Answers, Stranger
<1>4. CASE Crash
  <2>1. /\ UNCHANGED <<call, saved, journal, air, emitted, listed>> /\ queue' = <<>>
        /\ window' = "closed" /\ server'.at = "down" /\ server'.of = None /\ server' \in Thread
        /\ crashes' \in 0 .. MaxCrash
    BY <1>4 DEF Crash, IInv, TypeOK, network, Thread
  <2>2. run' \in [Runner -> Replaying] /\ run'["service"].at = "none" /\ run'["cli"] = run["cli"]
    BY <1>4 DEF Crash, IInv, TypeOK, Runner, Replaying, NoRun
  <2>3. Queued'
    BY <2>1 DEF Queued
  <2> QED
    BY <2>1, <2>2, <2>3 DEF IInv, Inv, TypeOK, NoSendWhileLearning, Asked, Serves, Runs,
       Commits, Lists, Unserved, Unsent, Answers, Stranger, Runner
<1>5. CASE Restart
  <2>1. /\ UNCHANGED <<call, queue, window, saved, run, journal, air, emitted, listed, crashes>>
        /\ server.at = "down" /\ server'.at = "idle" /\ server'.of = None /\ server' \in Thread
    BY <1>5 DEF Restart, session, replays, network, Idle, Thread
  <2> QED
    BY <2>1 DEF IInv, Inv, TypeOK, NoSendWhileLearning, Asked, Serves, Runs,
       Commits, Lists, Queued, Unserved, Unsent, Answers, Stranger
<1> QED
  BY <1>1, <1>2, <1>3, <1>4, <1>5

\* Everything the HTTP thread does with a request but start a replay.
LEMMA HandleKeeps ==
    ASSUME IInv, NEW k \in Call,
           Reject(k) \/ Catalog(k) \/ Learn(k) \/ Armed(k) \/ Stop(k) \/ Cancelled(k) \/ Send(k)
    PROVE  IInv'
<1>0. /\ server \in Thread /\ window \in {"closed", "open", "stuck"} /\ listed \subseteq saved \cap Sound
      /\ run \in [Runner -> Replaying] /\ call[k] \in ToolCall
  BY DEF IInv, Inv, TypeOK, Lists
<1>q. ASSUME NEW answer \in {"ok", "failed", "unknown_no_retry"}, Answer(k, answer),
             server.of = k, server.at # "replay", server' = Idle,
             window' \in {"closed", "open", "stuck"},
             listed \subseteq listed', listed' \subseteq saved \cap Sound,
             UNCHANGED <<queue, saved, run, journal, air, emitted, crashes>>
      PROVE  IInv'
  <2>1. answer \in Says /\ answer \notin Plain /\ answer \notin {"node_acknowledged", "record_missing"}
    BY DEF Says, Plain
  <2>2. Told(k, answer)
    BY <1>q, <2>1, AnswerTells DEF IInv
  <2>3. run["service"].at = "none"
    BY <1>q, <1>0 DEF IInv, Inv, Serves, Runner, Replaying
  <2>4. Finishes(k, answer)
    BY <1>0, <1>q, <2>1, <2>2, <2>3 DEF Finishes
  <2> QED
    BY <2>1, <2>4, FinishesKeeps
\* A step that only leads on to a wait for the node.
<1>w. ASSUME server' = [server EXCEPT !.at = "arming"] \/ server' = [server EXCEPT !.at = "cancelling"],
             server = [at |-> "read", of |-> k], window' \in {"closed", "open", "stuck"},
             UNCHANGED <<call, queue, saved, run, journal, air, emitted, listed, crashes>>
      PROVE  IInv'
  <2>1. server'.at \in {"arming", "cancelling"} /\ server'.of = k /\ server' \in Thread
        /\ server.at = "read" /\ server.of = k
    BY <1>w DEF Thread
  <2> QED
    BY <1>w, <2>1 DEF IInv, Inv, TypeOK, NoSendWhileLearning, Asked, Serves, Runs,
       Commits, Lists, Queued, Unserved, Unsent, Answers, Stranger
<1>1. CASE Reject(k)
  <2>1. Failure(k) \in {"ok", "failed", "unknown_no_retry"}
    BY DEF Failure
  <2> QED
    BY <1>0, <1>1, <1>q, <2>1 DEF Reject, Serving, session, replays, network
<1>2. CASE Catalog(k)
  <2>1. PICK answer \in {"ok", "failed"} : Answer(k, answer) /\ server.of = k /\ server.at = "read"
          /\ server' = Idle /\ listed \subseteq listed' /\ listed' \subseteq saved \cap Sound
    BY <1>0, <1>2 DEF Catalog, Serving, Shown, Offered, Replayable, Selectable
  <2> QED
    BY <1>0, <1>2, <1>q, <2>1 DEF Catalog, session, replays, network
<1>3. CASE Learn(k)
  <2>1. CASE Project(k, FALSE) /\ server' = Idle
    BY <1>0, <1>3, <1>q, <2>1 DEF Learn, Serving, Project, replays, network
  <2>2. CASE window' = "open" /\ server' = [server EXCEPT !.at = "arming"] /\ UNCHANGED call
    BY <1>3, <1>w, <2>2 DEF Learn, Serving, replays, network
  <2> QED
    BY <1>3, <2>1, <2>2 DEF Learn
<1>4. CASE Armed(k)
  BY <1>0, <1>4, <1>q DEF Armed, Project, replays, network
<1>5. CASE Stop(k)
  <2>1. CASE Project(k, FALSE) /\ server' = Idle
    BY <1>0, <1>5, <1>q, <2>1 DEF Stop, Serving, Project, replays, network
  <2>2. CASE server' = [server EXCEPT !.at = "cancelling"] /\ UNCHANGED call
    BY <1>5, <1>w, <2>2 DEF Stop, Serving, replays, network
  <2> QED
    BY <1>5, <2>1, <2>2 DEF Stop
<1>6. CASE Cancelled(k)
  BY <1>0, <1>6, <1>q DEF Cancelled, Project, session, replays, network
<1>7. CASE Send(k)
  <2>0. /\ server.at = "read" /\ server.of = k /\ call[k].kind = "send" /\ Unsent(k)
        /\ UNCHANGED <<queue, window, saved, journal, air, emitted, listed, crashes>>
    BY <1>7 DEF Send, Serving, session, network, IInv, Inv, Unserved
  <2>1. CASE Answer(k, "learning_capture_active") /\ server' = Idle /\ UNCHANGED run
    <3>1. "learning_capture_active" \in Says
      BY DEF Says, Plain
    <3>2. Told(k, "learning_capture_active")
      BY <2>1, <3>1, AnswerTells DEF IInv
    <3>3. run["service"].at = "none"
      BY <1>0, <2>0 DEF IInv, Inv, Serves, Runner, Replaying
    <3>4. Finishes(k, "learning_capture_active")
      BY <1>0, <2>0, <2>1, <3>2, <3>3 DEF Finishes
    <3> QED
      BY <3>1, <3>4, FinishesKeeps
  <2>2. CASE /\ MaySend /\ server' = [server EXCEPT !.at = "replay"] /\ UNCHANGED call
             /\ run' = [run EXCEPT !["service"] = [at |-> "select", by |-> k,
                           command |-> call[k].command, record |-> call[k].record]]
    <3>1. server'.at = "replay" /\ server'.of = k /\ server' \in Thread /\ window' = "closed"
      BY <1>0, <2>0, <2>2 DEF Thread, MaySend
    <3>2. call[k].command \in Command /\ call[k].record \in Record
      BY <2>0 DEF IInv, Inv, Asked
    <3>3. /\ run' \in [Runner -> Replaying] /\ run'["cli"] = run["cli"]
          /\ run'["service"].at = "select" /\ run'["service"].by = k
          /\ run'["service"].command \in Command /\ run'["service"].record = call[k].record
      BY <1>0, <2>2, <3>2 DEF Runner, Replaying
    <3> QED
      BY <2>0, <2>2, <3>1, <3>3 DEF IInv, Inv, TypeOK, NoSendWhileLearning, Asked, Serves, Runs,
         Commits, Lists, Queued, Unserved, Unsent, Answers, Stranger, Runner
  <2> QED
    BY <1>7, <2>1, <2>2 DEF Send
<1> QED
  BY <1>1, <1>2, <1>3, <1>4, <1>5, <1>6, <1>7

\* The MQTT thread saves a record, the command line starts, the node hears or not.
LEMMA OthersKeep ==
    ASSUME IInv, Callback \/ NodeSends \/ NodeMisses
                 \/ \E c \in Command, r \in Record : StartCli(c, r)
    PROVE  IInv'
<1>0. air \subseteq Commit /\ emitted \in Seq(Commit) /\ run \in [Runner -> Replaying]
  BY DEF IInv, TypeOK
<1>1. CASE Callback
  <2>1. /\ UNCHANGED <<call, queue, server, run, journal, air, emitted, listed, crashes>>
        /\ window' = "closed" /\ saved \subseteq saved' /\ saved' \subseteq Record
    BY <1>1 DEF Callback, replays, network, IInv, TypeOK
  <2> QED
    BY <2>1 DEF IInv, Inv, TypeOK, NoSendWhileLearning, Asked, Serves, Runs,
       Commits, Lists, Queued, Unserved, Unsent, Answers, Stranger
<1>2. CASE NodeSends
  <2>1. PICK m \in air : air' = air \ {m} /\ emitted' = Append(emitted, m)
          /\ UNCHANGED <<call, queue, server, session, run, journal, listed, crashes>>
    BY <1>2 DEF NodeSends
  <2>2. /\ emitted' \in Seq(Commit) /\ m \in Commit
        /\ \A i \in DOMAIN emitted' : \/ i \in DOMAIN emitted /\ emitted'[i] = emitted[i]
                                     \/ emitted'[i] = m
        /\ \A i \in DOMAIN emitted : i \in DOMAIN emitted' /\ emitted'[i] = emitted[i]
    BY <1>0, <2>1
  <2>3. Commits'
    BY <2>1, <2>2 DEF IInv, Inv, Commits
  <2>4. Answers'
    BY <2>1, <2>2 DEF IInv, Inv, Answers, Unsent
  <2> QED
    BY <2>1, <2>2, <2>3, <2>4 DEF IInv, Inv, TypeOK, NoSendWhileLearning, Asked, Serves, Runs,
       Lists, Queued, Unserved, Unsent, Stranger, session
<1>3. CASE NodeMisses
  <2>1. /\ UNCHANGED <<call, queue, server, window, saved, run, journal, emitted, listed, crashes>>
        /\ air' \subseteq air
    BY <1>3 DEF NodeMisses, session
  <2> QED
    BY <2>1 DEF IInv, Inv, TypeOK, NoSendWhileLearning, Asked, Serves, Runs,
       Commits, Lists, Queued, Unserved, Unsent, Answers, Stranger
<1>4. ASSUME NEW c \in Command, NEW r \in Record, StartCli(c, r) PROVE IInv'
  <2>1. /\ UNCHANGED <<call, queue, server, window, saved, journal, air, emitted, listed, crashes>>
        /\ run' \in [Runner -> Replaying] /\ run'["service"] = run["service"]
        /\ run'["cli"].at = "select" /\ run'["cli"].by = "cli" /\ run'["cli"].command = c
    BY <1>0, <1>4 DEF StartCli, session, network, Runner, Replaying
  <2> QED
    BY <2>1 DEF IInv, Inv, TypeOK, NoSendWhileLearning, Asked, Serves, Runs,
       Commits, Lists, Queued, Unserved, Unsent, Answers, Stranger, Runner
<1> QED
  BY <1>1, <1>2, <1>3, <1>4

\* A replay ends with any answer that is true of it.
LEMMA EndsKeeps ==
    ASSUME IInv, NEW r \in Runner, run[r].at # "none", NEW answer \in Says, Ends(r, answer),
           UNCHANGED <<journal, air, emitted>>,
           answer = "node_acknowledged" => \E i \in DOMAIN emitted : emitted[i].by = run[r].by,
           answer \in Plain => run[r].at = "select",
           answer = "record_missing" => run[r].record \notin saved \cap Sound
    PROVE  IInv'
<1>0. /\ run \in [Runner -> Replaying] /\ listed \subseteq saved \cap Sound
      /\ UNCHANGED <<queue, window, saved, listed, crashes>> /\ run' = [run EXCEPT ![r] = NoRun]
  BY DEF Ends, session, IInv, Inv, TypeOK, Lists
<1>1. /\ run' \in [Runner -> Replaying] /\ run'[r].at = "none"
      /\ \A q \in Runner \ {r} : run'[q] = run[q]
  BY <1>0 DEF Replaying, NoRun
<1>2. CASE r = "service"
  <2>1. /\ server.at = "replay" /\ server.of \in Call /\ run[r].by = server.of
        /\ run[r].record = call[server.of].record
    BY <1>2 DEF IInv, Inv, Serves
  <2>2. Told(server.of, answer) /\ server' = Idle
    BY <1>2, <2>1, AnswerTells DEF Ends, IInv
  <2>3. answer \in Plain => Unsent(server.of)
    BY <1>2, <2>1 DEF IInv, Inv, Unserved
  <2>4. answer = "record_missing" => ~call[server.of].offered
    BY <1>0, <2>1 DEF IInv, Inv, Asked
  <2>5. Finishes(server.of, answer)
    BY <1>0, <1>1, <1>2, <2>1, <2>2, <2>3, <2>4 DEF Finishes, Runner, IInv, TypeOK
  <2> QED
    BY <2>5, FinishesKeeps
<1>3. CASE r = "cli"
  <2>1. UNCHANGED <<server, call>> /\ run'["service"] = run["service"]
    BY <1>1, <1>3 DEF Ends, Runner
  <2> QED
    BY <1>0, <1>1, <1>3, <2>1 DEF IInv, Inv, TypeOK, NoSendWhileLearning, Asked, Serves, Runs,
       Commits, Lists, Queued, Unserved, Unsent, Answers, Stranger, Runner
<1> QED
  BY <1>2, <1>3 DEF Runner

\* A replay's own steps.
LEMMA ReplayKeeps ==
    ASSUME IInv, NEW r \in Runner, Replay(r)
    PROVE  IInv'
<1>0. /\ run \in [Runner -> Replaying] /\ run[r] \in Replaying /\ journal \in [Command -> Entry]
      /\ air \subseteq Commit /\ emitted \in Seq(Commit)
  BY DEF IInv, TypeOK
<1>p. /\ \A q \in Runner : run[q].at = "reserved" => journal[run[q].command].phase = "reserved"
      /\ \A m \in air : m \in Commit /\ m.command \in Command /\ journal[m.command].phase = "consumed"
      /\ \A i \in DOMAIN emitted : emitted[i].command \in Command
                                  /\ journal[emitted[i].command].phase = "consumed"
  <2>1. \A m \in Commit : m.command \in Command
    BY DEF Commit
  <2>2. \A i \in DOMAIN emitted : emitted[i] \in Commit
    BY <1>0
  <2>3. ASSUME NEW q \in Runner, run[q].at = "reserved"
        PROVE  journal[run[q].command].phase = "reserved"
    <3>1. journal[run[q].command] = [phase |-> "reserved", by |-> run[q].by]
      BY <2>3 DEF IInv, Inv, Runs
    <3> QED
      BY <3>1
  <2>4. ASSUME NEW m \in air PROVE journal[m.command].phase = "consumed"
    <3>1. journal[m.command] = [phase |-> "consumed", by |-> m.by]
      BY DEF IInv, Inv, Commits
    <3> QED
      BY <3>1
  <2>5. ASSUME NEW i \in DOMAIN emitted PROVE journal[emitted[i].command].phase = "consumed"
    <3>1. journal[emitted[i].command] = [phase |-> "consumed", by |-> emitted[i].by]
      BY DEF IInv, Inv, Commits
    <3> QED
      BY <3>1
  <2> QED
    BY <1>0, <2>1, <2>2, <2>3, <2>4, <2>5
<1>1. CASE PreflightFails(r)
  <2>1. PICK answer \in {"record_missing", "preflight", "unknown_no_retry"} :
          Ends(r, answer) /\ (answer = "record_missing" => ~Selectable(run[r].record))
          /\ run[r].at = "select" /\ UNCHANGED <<journal, air, emitted>>
    BY <1>1 DEF PreflightFails, network
  <2> QED
    BY <2>1, EndsKeeps DEF Says, Plain, Selectable
<1>2. CASE Reserve(r)
  <2>0. /\ run[r].at = "select" /\ run[r].command \in Command /\ UNCHANGED <<air, emitted>>
    BY <1>2 DEF Reserve, network, IInv, Inv, Runs
  <2>1. CASE Ends(r, "unknown_no_retry") /\ UNCHANGED journal
    BY <2>0, <2>1, EndsKeeps DEF Says, Plain
  <2>2. CASE /\ MayReserve(run[r].command)
             /\ journal' = [journal EXCEPT ![run[r].command] = [phase |-> "reserved", by |-> run[r].by]]
             /\ run' = [run EXCEPT ![r].at = "reserved"]
             /\ UNCHANGED <<call, queue, server, session, listed, crashes>>
    <3> DEFINE c == run[r].command
    <3>1. UNCHANGED <<call, queue, server, window, saved, listed, crashes>>
      BY <2>2 DEF session
    <3>2. /\ run' \in [Runner -> Replaying] /\ run'[r].at = "reserved" /\ run'[r].by = run[r].by
          /\ run'[r].command = c /\ run'[r].record = run[r].record
          /\ \A q \in Runner \ {r} : run'[q] = run[q]
      BY <1>0, <2>2 DEF Replaying
    <3>3. /\ journal' \in [Command -> Entry] /\ journal[c].phase = "absent"
          /\ journal'[c] = [phase |-> "reserved", by |-> run[r].by]
          /\ \A d \in Command \ {c} : journal'[d] = journal[d]
      BY <1>0, <2>0, <2>2 DEF MayReserve, Entry, Replaying
    <3>4. TypeOK'
      BY <2>0, <3>1, <3>2, <3>3 DEF IInv, TypeOK
    <3>5. NoSendWhileLearning' /\ Asked' /\ Serves' /\ Lists'
      BY <2>0, <3>1, <3>2 DEF IInv, Inv, NoSendWhileLearning, Asked, Serves, Lists, Runner
    <3>6. Runs'
      <4>1. \A q \in Runner : run[q].at = "reserved" => run[q].command # c
        BY <1>p, <3>3
      <4> QED
        BY <2>0, <3>2, <3>3, <4>1 DEF IInv, Inv, Runs
    <3>7. Commits'
      <4>1. \A m \in air : m \in Commit /\ m.command \in Command /\ m.command # c
        BY <1>p, <3>3
      <4>2. \A i \in DOMAIN emitted : emitted[i].command \in Command /\ emitted[i].command # c
        BY <1>p, <3>3
      <4> QED
        BY <2>0, <3>3, <4>1, <4>2 DEF IInv, Inv, Commits
    <3>8. \A k \in Call : Unsent(k) /\ k # run[r].by => Unsent(k)'
      BY <3>3 DEF Unsent
    <3>9. \A k \in Call : run[r].by = k => r = "service" /\ server.of = k /\ server.at = "replay"
      BY <2>0 DEF IInv, Inv, Serves, Runner
    <3>10. Queued'
      BY <1>0, <3>1, <3>8, <3>9 DEF IInv, Inv, Queued, TypeOK, Stranger
    <3>11. Unserved'
      BY <3>1, <3>2, <3>8, <3>9 DEF IInv, Inv, Unserved, Runner
    <3>12. Answers'
      BY <2>0, <3>1, <3>8, <3>9 DEF IInv, Inv, Answers, Unserved
    <3> QED
      BY <3>4, <3>5, <3>6, <3>7, <3>10, <3>11, <3>12 DEF IInv, Inv
  <2> QED
    BY <1>2, <2>1, <2>2 DEF Reserve
<1>3. CASE Publish(r)
  <2> DEFINE c == run[r].command
             m == [by |-> run[r].by, command |-> c]
  <2>0. /\ run[r].at = "reserved" /\ c \in Command /\ journal[c] = [phase |-> "reserved", by |-> run[r].by]
        /\ run[r].by \in Call \cup {"cli"}
    BY <1>3 DEF Publish, IInv, Inv, Runs, Serves, Runner
  <2>1. /\ UNCHANGED <<call, queue, server, window, saved, emitted, listed, crashes>>
        /\ air' = air \cup {m}
    BY <1>3 DEF Publish, session
  <2>2. /\ run' \in [Runner -> Replaying] /\ run'[r].at = "committed" /\ run'[r].by = run[r].by
        /\ run'[r].command = c /\ run'[r].record = run[r].record
        /\ \A q \in Runner \ {r} : run'[q] = run[q]
    BY <1>0, <1>3 DEF Replaying, Publish
  <2>3. /\ journal' \in [Command -> Entry] /\ journal'[c] = [phase |-> "consumed", by |-> run[r].by]
        /\ \A d \in Command \ {c} : journal'[d] = journal[d]
        /\ \A d \in Command : journal'[d].by = journal[d].by
    BY <1>0, <1>3, <2>0 DEF Publish, Entry
  <2>4. m \in Commit /\ m.command = c /\ m.by = run[r].by
    BY <2>0 DEF Commit
  <2>5. TypeOK'
    BY <2>1, <2>2, <2>3, <2>4 DEF IInv, TypeOK
  <2>6. NoSendWhileLearning' /\ Asked' /\ Serves' /\ Lists'
    BY <2>0, <2>1, <2>2 DEF IInv, Inv, NoSendWhileLearning, Asked, Serves, Lists, Runner
  <2>7. Runs'
    <3>1. \A q \in Runner \ {r} : run[q].at = "reserved" => run[q].command # c
      BY <2>0 DEF IInv, Inv, Runs, Serves, Runner
    <3> QED
      BY <2>0, <2>2, <2>3, <3>1 DEF IInv, Inv, Runs
  <2>8. Commits'
    <3>1. \A n \in air : n \in Commit /\ n.command \in Command /\ n.command # c
      BY <1>p, <2>0
    <3>2. \A i \in DOMAIN emitted : emitted[i].command \in Command /\ emitted[i].command # c
      BY <1>p, <2>0
    <3> QED
      BY <2>1, <2>3, <2>4, <3>1, <3>2 DEF IInv, Inv, Commits
  <2>9. \A k \in Call : Unsent(k)' <=> Unsent(k)
    BY <2>3 DEF Unsent
  <2>10. Queued'
    BY <1>0, <2>1, <2>9 DEF IInv, Inv, Queued, TypeOK, Stranger
  <2>11. Unserved' /\ Answers'
    BY <2>0, <2>1, <2>2, <2>9 DEF IInv, Inv, Unserved, Answers, Runner
  <2> QED
    BY <2>5, <2>6, <2>7, <2>8, <2>10, <2>11 DEF IInv, Inv
<1>4. CASE Acknowledged(r)
  <2>1. \E i \in DOMAIN emitted : emitted[i].by = run[r].by
    BY <1>4 DEF Acknowledged, WasEmitted
  <2> QED
    BY <1>4, <2>1, EndsKeeps DEF Acknowledged, network, Says, Plain
<1>5. CASE AttemptFails(r)
  BY <1>5, EndsKeeps DEF AttemptFails, ErrorOf, network, Says, Plain
<1> QED
  BY <1>1, <1>2, <1>3, <1>4, <1>5 DEF Replay

-----------------------------------------------------------------------------
LEMMA NextInv == IInv /\ [Next]_vars => IInv'
<1> SUFFICES ASSUME IInv, [Next]_vars PROVE IInv'
  OBVIOUS
<1>1. ASSUME NEW k \in Call, NEW kind \in {"send", "list", "learn", "stop"},
             NEW c \in Command \cup {None}, NEW r \in Record \cup {None}, Ask(k, kind, c, r)
      PROVE  IInv'
  BY <1>1, AskKeeps
<1>2. ASSUME NEW k \in Call, GiveUp(k) \/ Handle(k) PROVE IInv'
  BY <1>2, GiveUpKeeps, HandleKeeps DEF Handle
<1>3. CASE ConnectStranger \/ Accept \/ ReadTimesOut \/ Crash \/ Restart
  BY <1>3, SocketKeeps
<1>4. CASE Callback \/ NodeSends \/ NodeMisses \/ \E c \in Command, r \in Record : StartCli(c, r)
  BY <1>4, OthersKeep
<1>5. ASSUME NEW r \in Runner, Replay(r) PROVE IInv'
  BY <1>5, ReplayKeeps
<1>6. CASE UNCHANGED vars
  BY <1>6 DEF vars, IInv, Inv, TypeOK, NoSendWhileLearning, Asked, Serves, Runs, Commits, Lists,
     Queued, Unserved, Unsent, Answers
<1> QED
  BY <1>1, <1>2, <1>3, <1>4, <1>5, <1>6 DEF Next

LEMMA Invariance == Spec => []IInv
BY InitInv, NextInv, PTL DEF Spec

\* The variables of the control path keep their types, for any number of calls,
\* ids and records.
THEOREM TypeCorrect == Spec => []TypeOK
BY Invariance, PTL DEF IInv

\* send() of control.py: between its look at the session and the last commit of
\* its replay no learning window is open.
THEOREM SendsAlone == Spec => []NoSendWhileLearning
BY Invariance, PTL DEF IInv, Inv

\* What _project and failure() of the plugin tell the model about a send is so,
\* whichever answers are lost, late or overtaken by a restart.
THEOREM AnswersAreHonest == Spec => []AnswerHonest
<1>1. ASSUME IInv PROVE AnswerHonest
  <2>1. ASSUME NEW k \in Call, call[k].answer \in Plain
        PROVE  /\ ~Published(k) /\ server.of # k
               /\ \A c \in Command : journal[c].by # k
               /\ \A i \in DOMAIN queue : queue[i] # k
    <3>1. Unsent(k)
      BY <1>1, <2>1 DEF IInv, Inv, Answers
    <3>2. \A m \in air : m.by # k
      <4> SUFFICES ASSUME NEW m \in air PROVE m.by # k
        OBVIOUS
      <4>1. journal[m.command] = [phase |-> "consumed", by |-> m.by] /\ m.command \in Command
        BY <1>1 DEF IInv, Inv, Commits, TypeOK, Commit
      <4> QED
        BY <3>1, <4>1 DEF Unsent
    <3>3. \A i \in DOMAIN emitted : emitted[i].by # k
      <4> SUFFICES ASSUME NEW i \in DOMAIN emitted PROVE emitted[i].by # k
        OBVIOUS
      <4>1. emitted[i] \in Commit
        BY <1>1 DEF IInv, TypeOK
      <4>2. /\ journal[emitted[i].command] = [phase |-> "consumed", by |-> emitted[i].by]
            /\ emitted[i].command \in Command
        BY <1>1, <4>1 DEF IInv, Inv, Commits, Commit
      <4> QED
        BY <3>1, <4>2 DEF Unsent
    <3>4. server.of # k
      BY <1>1, <2>1 DEF IInv, Inv, Unserved
    <3>5. \A i \in DOMAIN queue : queue[i] # k
      BY <1>1, <2>1 DEF IInv, Inv, Queued, Stranger
    <3> QED
      BY <3>1, <3>2, <3>3, <3>4, <3>5 DEF Published, Unsent
  <2> QED
    BY <1>1, <2>1 DEF AnswerHonest, IInv, Inv, Answers
<1> QED
  BY <1>1, Invariance, PTL

-----------------------------------------------------------------------------
(* Refinement *)

Consumed == {c \in Command : journal[c].phase = "consumed"}
Sent == [i \in DOMAIN emitted |-> emitted[i].command]

\* Only the publication of a commit uses up an id.
LEMMA PublishConsumes ==
    ASSUME IInv, NEW r \in Runner, Publish(r)
    PROVE  Shot!Next
<1> DEFINE c == run[r].command
<1>1. c \in Command /\ journal[c] = [phase |-> "reserved", by |-> run[r].by]
  BY DEF Publish, IInv, Inv, Runs
<1>2. c \notin Consumed
  BY <1>1 DEF Consumed
<1>3. journal \in [Command -> Entry] /\ journal' = [journal EXCEPT ![c].phase = "consumed"]
  BY DEF IInv, TypeOK, Publish
<1>4. /\ journal'[c].phase = "consumed"
      /\ \A d \in Command \ {c} : journal'[d] = journal[d]
  BY <1>1, <1>3 DEF Entry
<1>5. Consumed' = Consumed \cup {c}
  BY <1>1, <1>4 DEF Consumed
<1>6. Sent' = Sent
  BY DEF Sent, Publish
<1> QED
  BY <1>1, <1>2, <1>5, <1>6 DEF Shot!Next, Shot!Consume, Consumed, Sent

LEMMA SendEmits ==
    ASSUME IInv, NodeSends
    PROVE  Shot!Next
<1>0. air \subseteq Commit /\ emitted \in Seq(Commit)
  BY DEF IInv, TypeOK
<1>1. PICK m \in air : emitted' = Append(emitted, m) /\ journal' = journal
  BY DEF NodeSends
<1>2. m \in Commit /\ m.command \in Command
  BY <1>0 DEF Commit
<1>3. journal[m.command] = [phase |-> "consumed", by |-> m.by]
  BY DEF IInv, Inv, Commits
<1>4. m.command \in Consumed
  BY <1>2, <1>3 DEF Consumed
<1>5. \A i \in DOMAIN emitted : emitted[i].command # m.command
  <2> SUFFICES ASSUME NEW i \in DOMAIN emitted, emitted[i].command = m.command PROVE FALSE
    OBVIOUS
  <2>1. emitted[i] \in Commit
    BY <1>0
  <2>2. journal[emitted[i].command] = [phase |-> "consumed", by |-> emitted[i].by]
        /\ emitted[i] \notin air
    BY DEF IInv, Inv, Commits
  <2>3. emitted[i].by = m.by
    BY <1>3, <2>2
  <2>4. emitted[i] = m
    BY <1>2, <2>1, <2>3 DEF Commit
  <2> QED
    BY <2>2, <2>4
<1>6. Sent' = Append(Sent, m.command)
  <2>1. /\ DOMAIN emitted = 1 .. Len(emitted) /\ Len(emitted) \in Nat
        /\ Sent \in Seq(Command) /\ Len(Sent) = Len(emitted)
        /\ \A i \in 1 .. Len(emitted) : Sent[i] = emitted[i].command
    <3>1. \A i \in 1 .. Len(emitted) : emitted[i].command \in Command
      <4>1. \A i \in 1 .. Len(emitted) : emitted[i] \in Commit
        BY <1>0
      <4> QED
        BY <4>1 DEF Commit
    <3> QED
      BY <1>0, <3>1 DEF Sent
  <2>2. /\ DOMAIN emitted' = 1 .. Len(emitted) + 1
        /\ \A i \in 1 .. Len(emitted) : emitted'[i] = emitted[i]
        /\ emitted'[Len(emitted) + 1] = m
    BY <1>0, <1>1, <2>1
  <2>3. /\ DOMAIN Append(Sent, m.command) = 1 .. Len(emitted) + 1
        /\ \A i \in 1 .. Len(emitted) : Append(Sent, m.command)[i] = Sent[i]
        /\ Append(Sent, m.command)[Len(emitted) + 1] = m.command
    BY <1>2, <2>1
  <2>4. Append(Sent, m.command) = [i \in 1 .. Len(emitted) + 1 |-> Append(Sent, m.command)[i]]
    BY <2>1, <2>3, <1>2
  <2>5. Sent' = [i \in 1 .. Len(emitted) + 1 |-> emitted'[i].command]
    BY <2>2 DEF Sent
  <2>6. \A i \in 1 .. Len(emitted) + 1 : emitted'[i].command = Append(Sent, m.command)[i]
    BY <2>1, <2>2, <2>3
  <2> QED
    BY <2>4, <2>5, <2>6
<1>7. Consumed' = Consumed
  BY <1>1 DEF Consumed
<1>8. \A i \in DOMAIN Sent : Sent[i] # m.command
  BY <1>5 DEF Sent
<1> QED
  BY <1>2, <1>4, <1>6, <1>7, <1>8 DEF Shot!Next, Shot!Emit, Consumed, Sent

\* All other steps change neither which ids are used up nor what was sent.
LEMMA OthersStutter ==
    ASSUME IInv, [Next]_vars, ~NodeSends, \A r \in Runner : ~Publish(r)
    PROVE  Consumed' = Consumed /\ Sent' = Sent
<1>1. ASSUME NEW r \in Runner, Reserve(r), journal' # journal
      PROVE  Consumed' = Consumed
  <2>1. /\ journal[run[r].command].phase = "absent" /\ run[r].command \in Command
        /\ journal' = [journal EXCEPT ![run[r].command] = [phase |-> "reserved", by |-> run[r].by]]
    BY <1>1 DEF Reserve, MayReserve, IInv, Inv, Runs
  <2>2. \A c \in Command : journal'[c].phase = "consumed" <=> journal[c].phase = "consumed"
    BY <2>1 DEF IInv, TypeOK
  <2> QED
    BY <2>2 DEF Consumed
<1>2. emitted' = emitted /\ (journal' = journal \/ \E r \in Runner : Reserve(r))
  BY ZenonT(60) DEF Next, Handle, Replay, Ask, GiveUp, ConnectStranger, Accept, ReadTimesOut, Reject, Send,
     Catalog, Learn, Armed, Stop, Cancelled, Callback, Crash, Restart, StartCli, PreflightFails,
     Reserve, Acknowledged, AttemptFails, NodeMisses, replays, network, vars
<1> QED
  BY <1>1, <1>2 DEF Consumed, Sent

\* replay.py's journal seen from every way to start a replay: an id is used up
\* before it is sent and reaches the diode once, whoever gives it and how often.
THEOREM Implementation == Spec => ImplementsOneShot
<1>1. Init => Shot!Init
  BY DEF Init, Shot!Init
<1>2. IInv /\ [Next]_vars => [Shot!Next]_<<Consumed, Sent>>
  BY PublishConsumes, SendEmits, OthersStutter
<1> QED
  BY <1>1, <1>2, Invariance, PTL DEF Spec, ImplementsOneShot, Shot!Spec, Consumed, Sent
=============================================================================
