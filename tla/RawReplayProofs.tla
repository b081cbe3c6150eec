--------------------------- MODULE RawReplayProofs ---------------------------
(***************************************************************************)
(* Proofs about RawReplay: for any number of runs, ids, reboots and power  *)
(* failures, any clock and any deadlines, an id is used up before it is    *)
(* sent, is sent once, in time and with the waveform of its own run, and   *)
(* what a run reports is true.                                             *)
(***************************************************************************)
EXTENDS RawReplay, TLAPS

USE ReplayAssumption

-----------------------------------------------------------------------------
(* The inductive invariant *)

\* The boot counter grows by one a reboot at most.
Booted == node.boot <= incidents + 1

\* h holds the challenge x: in a reply, in its variables, or in its commit.
Claim(h, x) ==
    \/ \E e \in replies : e.host = h /\ e.stage = "prepare" /\ e.challenge = x
    \/ host[h].at \in {"recheck", "persist", "publish"} /\ host[h].challenge = x
    \/ \E m \in commands : m.kind = "commit" /\ m.host = h /\ m.challenge = x

\* A challenge stands for one waveform, that of the run that holds it.
Claims ==
    /\ node.prepared # None => node.prepared.challenge <= node.nonce
    /\ \A h \in Host, x \in Nat : Claim(h, x) =>
          /\ x <= node.nonce
          /\ node.prepared # None /\ node.prepared.challenge = x => node.prepared.wave = h

Running(h) == host[h].at \notin {"new", "done", "down"}
Emitted(h) == \E i \in DOMAIN emitted : emitted[i].wave = h
Sent(h) == Emitted(h) \/ \E m \in commands : m.kind = "commit" /\ m.host = h

\* What the two copies of a file can be.
Files == \A c \in Command :
    /\ durable[c] = "consumed" <=> journal[c] = "consumed"
    /\ journal[c] = "absent" => durable[c] = "absent"

\* What the stage of a run says about its file, and about what it sent.
StageOf(h) ==
    /\ host[h].at = "new" => host[h].cmd = None
    /\ Running(h) => host[h].cmd \in Command
    /\ host[h].at = "reserve" =>
          journal[host[h].cmd] = "empty" /\ durable[host[h].cmd] = "absent"
    /\ host[h].at \in {"status", "prepare", "recheck"} =>
          journal[host[h].cmd] = "reserved" /\ durable[host[h].cmd] = "reserved"
    /\ host[h].at = "persist" =>
          journal[host[h].cmd] = "empty" /\ durable[host[h].cmd] = "reserved"
    /\ host[h].at \in {"publish", "commit"} => durable[host[h].cmd] = "consumed"
    /\ Sent(h) => /\ host[h].at \in {"commit", "done", "down"}
                  /\ host[h].outcome # "refused"
                  /\ host[h].cmd \in Command /\ durable[host[h].cmd] = "consumed"
    /\ host[h].outcome = "ok" => Emitted(h)

Stages == \A h \in Host : StageOf(h)

\* Two runs that are under way, or sent something, have different ids.
Live(h) == Running(h) \/ Sent(h)
Owners == \A g, h \in Host : Live(g) /\ Live(h) /\ host[g].cmd = host[h].cmd => g = h

\* A packet belongs to the run it names; a reply is to the question under way.
Packets ==
    /\ \A m \in commands : m.kind = "commit" => host[m.host].cmd = m.id
    /\ \A e \in replies : /\ host[e.host].at = e.stage
                          /\ e.stage = "commit" => Emitted(e.host)

\* The preparation an id was sent from is gone, and no later one has its challenge.
Once == \A m \in commands, i \in DOMAIN emitted :
    m.kind = "commit" /\ emitted[i].cmd = m.id /\ node.prepared # None
      => node.prepared.challenge # m.challenge

\* How long ago the preparation was made, by the node's clock.
Age == (Lifetime - Remaining(node.prepared.expires)) % Modulus

\* A deadline taken at the time seen for the preparation under way: it leaves
\* no more than Deadline since, and when it is over the preparation is older still.
Timely(deadline, seen) ==
    \/ /\ Remaining(deadline) <= Deadline - (now - seen)
       /\ Remaining(deadline) + Age >= 1
    \/ Modulus - Remaining(deadline) < Age

HalfTurn == Remaining(node.prepared.expires) \in 0 .. Lifetime \cup
                                                 (Modulus \div 2) .. (Modulus - 1)

\* Whoever holds the challenge of the preparation looked at the clock since.
Looked == \A e \in replies :
    e.stage = "recheck" /\ host[e.host].challenge = node.prepared.challenge
      => (node.millis - e.millis) % Modulus <= Age

RunsTimely == \A h \in Host :
    host[h].at \in {"persist", "publish"} /\ host[h].challenge = node.prepared.challenge
      => Timely(host[h].deadline, host[h].seen)

CommitsTimely == \A m \in commands :
    m.kind = "commit" /\ m.challenge = node.prepared.challenge
      => Timely(m.deadline, host[m.host].seen)

Clocks ==
    /\ \A h \in Host : host[h].seen <= now
    /\ node.prepared # None => HalfTurn /\ Looked /\ RunsTimely /\ CommitsTimely

IInv == TypeOK /\ Booted /\ Claims /\ Files /\ Stages /\ Owners /\ Packets /\ Once
        /\ RightWaveform /\ Clocks
-----------------------------------------------------------------------------
(* Types *)

LEMMA NewRun ==
    /\ New \in Run
    /\ \A h \in Host, stage \in {"done", "down"}, outcome \in {"none", "refused", "unknown", "ok"} :
          host \in [Host -> Run] =>
             [New EXCEPT !.at = stage, !.outcome = outcome, !.cmd = host[h].cmd,
                         !.seen = host[h].seen] \in Run
<1>1. /\ 0 \in Time /\ 0 \in Millis /\ 1 \in Boot /\ 0 \in Nat /\ 0 \in 0 .. Deadline
      /\ {"new", "done", "down"} \subseteq Stage
  BY DEF Time, Millis, Boot, Stage
<1>2. New \in Run
  BY <1>1 DEF New, Run
<1> QED
  BY ZenonT(60), <1>1, <1>2 DEF Run

LEMMA Mod ==
    ASSUME NEW a \in Int
    PROVE  /\ a % Modulus \in Millis
           /\ a \in 0 .. Modulus - 1 => a % Modulus = a
           /\ a \in -Modulus .. -1 => a % Modulus = a + Modulus
           /\ a \in Modulus .. 2 * Modulus - 1 => a % Modulus = a - Modulus
  BY DEF Millis

-----------------------------------------------------------------------------
(* What the steps do *)

\* Only the run h changes, and the answers it has not read are dropped.
Moves(h) ==
    /\ host' \in [Host -> Run] /\ \A g \in Host \ {h} : host'[g] = host[g]
    /\ replies' \subseteq replies /\ \A e \in replies' : e.host # h

Same(h, fields) == \A f \in fields : host'[h][f] = host[h][f]

LEMMA Moved ==
    ASSUME host \in [Host -> Run], NEW h \in Host, NEW r \in Run, Move(h, r)
    PROVE  Moves(h) /\ host'[h] = r
  BY DEF Move, Moves

\* h is over: of what it knew, its id and its last look at the clock stay.
LEMMA Left ==
    ASSUME host \in [Host -> Run], NEW h \in Host, NEW stage \in {"done", "down"},
           NEW outcome \in {"none", "refused", "unknown", "ok"}, Leave(h, stage, outcome)
    PROVE  /\ Moves(h) /\ host'[h].at = stage /\ host'[h].outcome = outcome
           /\ Same(h, {"cmd", "seen"})
<1> DEFINE r == [New EXCEPT !.at = stage, !.outcome = outcome, !.cmd = host[h].cmd,
                            !.seen = host[h].seen]
<1>1. r \in Run /\ New \in Run
  BY NewRun
<1>2. Move(h, r)
  BY DEF Leave
<1>3. r.at = stage /\ r.outcome = outcome /\ r.cmd = host[h].cmd /\ r.seen = host[h].seen
  BY <1>1 DEF Run
<1> HIDE DEF r
<1>4. Moves(h) /\ host'[h] = r
  BY <1>1, <1>2, Moved
<1> QED
  BY <1>3, <1>4 DEF Same

LEMMA ReserveStep ==
    ASSUME TypeOK, NEW h \in Host, NEW c \in Command, Reserve(h, c)
    PROVE  /\ host[h].at = "new" /\ Moves(h) /\ Same(h, {"seen"})
           /\ UNCHANGED <<now, node, emitted, incidents, durable, commands>>
           /\ \/ /\ journal[c] = "absent" /\ journal' = [journal EXCEPT ![c] = "empty"]
                 /\ host'[h].at = "reserve" /\ host'[h].cmd = c /\ Same(h, {"outcome"})
              \/ /\ journal' = journal /\ Same(h, {"cmd"})
                 /\ host'[h].at = "done" /\ host'[h].outcome = "refused"
<1>1. /\ host[h].at = "new" /\ UNCHANGED <<now, node, emitted, incidents, durable, commands>>
      /\ host \in [Host -> Run]
  BY DEF Reserve, hostOnly, TypeOK
<1>2. CASE /\ journal[c] = "absent" /\ journal' = [journal EXCEPT ![c] = "empty"]
           /\ Move(h, [host[h] EXCEPT !.at = "reserve", !.cmd = c])
  <2> DEFINE r == [host[h] EXCEPT !.at = "reserve", !.cmd = c]
  <2>1. r \in Run /\ r.at = "reserve" /\ r.cmd = c /\ r.seen = host[h].seen
        /\ r.outcome = host[h].outcome
    BY ZenonT(60), <1>1 DEF Run, Stage
  <2> HIDE DEF r
  <2>2. Moves(h) /\ host'[h] = r
    BY <1>1, <1>2, <2>1, Moved DEF r
  <2> QED
    BY <1>1, <1>2, <2>1, <2>2 DEF Same
<1>3. CASE Leave(h, "done", "refused") /\ UNCHANGED journal
  BY <1>1, <1>3, Left DEF Same
<1> QED
  BY <1>2, <1>3 DEF Reserve

LEMMA AskStatusStep ==
    ASSUME TypeOK, NEW h \in Host, AskStatus(h)
    PROVE  /\ host[h].at = "reserve" /\ Moves(h) /\ Same(h, {"cmd", "seen", "outcome"})
           /\ host'[h].at = "status" /\ Persist(host[h].cmd, "reserved")
           /\ UNCHANGED <<now, node, emitted, incidents>>
           /\ commands' = commands \cup {Status(h, "status")}
<1> DEFINE r == [host[h] EXCEPT !.at = "status", !.start = now]
<1>0. host[h] \in Run /\ now \in Time /\ "status" \in Stage
  BY DEF TypeOK, Stage
<1>1. r \in Run /\ r.at = "status" /\ r.seen = host[h].seen
      /\ r.outcome = host[h].outcome /\ r.cmd = host[h].cmd
  BY <1>0 DEF Run
<1> HIDE DEF r
<1>2. Moves(h) /\ host'[h] = r
  BY <1>1, Moved DEF r, AskStatus, TypeOK
<1> QED
  BY <1>1, <1>2 DEF AskStatus, hostOnly, Same

LEMMA PrepareStep ==
    ASSUME TypeOK, NEW h \in Host, Prepare(h)
    PROVE  /\ host[h].at = "status" /\ Moves(h) /\ Same(h, {"cmd", "seen", "outcome"})
           /\ host'[h].at = "prepare"
           /\ UNCHANGED <<now, node, emitted, incidents, journal, durable>>
           /\ \E m \in PrepareCommand : commands' = commands \cup {m}
<1>1. PICK e \in replies :
          /\ Move(h, [host[h] EXCEPT !.at = "prepare", !.boot = e.boot,
                                     !.uptime = e.millis, !.start = now])
          /\ commands' = commands \cup
                {[kind |-> "prepare", host |-> h, id |-> h, boot |-> e.boot,
                  deadline |-> NodeDeadline(e.millis, Deadline)]}
  BY DEF Prepare
<1>2. e.boot \in Boot /\ e.millis \in Millis /\ NodeDeadline(e.millis, Deadline) \in Millis
  <2>1. e.boot \in Boot /\ e.millis \in Millis
    BY DEF TypeOK, Event
  <2> QED
    BY <2>1 DEF NodeDeadline, Millis
<1> DEFINE r == [host[h] EXCEPT !.at = "prepare", !.boot = e.boot,
                                !.uptime = e.millis, !.start = now]
           m == [kind |-> "prepare", host |-> h, id |-> h, boot |-> e.boot,
                 deadline |-> NodeDeadline(e.millis, Deadline)]
<1>0. host[h] \in Run /\ now \in Time /\ "prepare" \in Stage
  BY DEF TypeOK, Stage
<1>3. r \in Run /\ r.at = "prepare" /\ r.seen = host[h].seen
      /\ r.outcome = host[h].outcome /\ r.cmd = host[h].cmd
  BY <1>0, <1>2 DEF Run
<1>4. m \in PrepareCommand
  BY <1>2 DEF PrepareCommand
<1> HIDE DEF r, m
<1>5. Moves(h) /\ host'[h] = r
  BY <1>1, <1>3, Moved DEF r, TypeOK
<1>6. commands' = commands \cup {m}
  BY <1>1 DEF m
<1> QED
  BY <1>3, <1>4, <1>5, <1>6 DEF Prepare, hostOnly, disk, Same

LEMMA AskAgainStep ==
    ASSUME TypeOK, NEW h \in Host, AskAgain(h)
    PROVE  /\ host[h].at = "prepare" /\ Moves(h) /\ Same(h, {"cmd", "seen", "outcome"})
           /\ host'[h].at = "recheck"
           /\ UNCHANGED <<now, node, emitted, incidents, journal, durable>>
           /\ commands' = commands \cup {Status(h, "recheck")}
           /\ \E e \in replies : /\ e.host = h /\ e.stage = "prepare"
                                 /\ host'[h].challenge = e.challenge
<1>1. PICK e \in replies :
          /\ e.host = h /\ e.stage = "prepare"
          /\ Move(h, [host[h] EXCEPT !.at = "recheck", !.check = now,
                                     !.challenge = e.challenge, !.expires = e.expires])
  BY DEF AskAgain
<1>2. e.challenge \in Nat /\ e.expires \in Millis
  BY DEF TypeOK, Event
<1> DEFINE r == [host[h] EXCEPT !.at = "recheck", !.check = now,
                                !.challenge = e.challenge, !.expires = e.expires]
<1>0. host[h] \in Run /\ now \in Time /\ "recheck" \in Stage
  BY DEF TypeOK, Stage
<1>3. r \in Run /\ r.at = "recheck" /\ r.seen = host[h].seen
      /\ r.outcome = host[h].outcome /\ r.cmd = host[h].cmd /\ r.challenge = e.challenge
  BY <1>0, <1>2 DEF Run
<1> HIDE DEF r
<1>5. Moves(h) /\ host'[h] = r
  BY <1>1, <1>3, Moved DEF r, TypeOK
<1> QED
  BY <1>1, <1>3, <1>5 DEF AskAgain, hostOnly, disk, Same

LEMMA RecheckStep ==
    ASSUME TypeOK, NEW h \in Host, Recheck(h)
    PROVE  /\ host[h].at = "recheck" /\ Moves(h) /\ Same(h, {"cmd", "challenge", "outcome"})
           /\ host'[h].at = "persist" /\ host'[h].seen = now
           /\ journal' = [journal EXCEPT ![host[h].cmd] = "empty"]
           /\ UNCHANGED <<now, node, emitted, incidents, durable, commands>>
           /\ \E e \in replies, window \in 1 .. Deadline :
                 /\ e.host = h /\ e.stage = "recheck"
                 /\ host'[h].deadline = NodeDeadline(e.millis, window)
<1> DEFINE remaining(e) == (host[h].expires - e.millis) % Modulus
           window(e) == IF Deadline <= remaining(e) THEN Deadline ELSE remaining(e)
<1>1. PICK e \in replies :
          /\ e.host = h /\ e.stage = "recheck" /\ remaining(e) \in 1 .. Lifetime
          /\ Move(h, [host[h] EXCEPT !.at = "persist", !.seen = now, !.window = window(e),
                                     !.deadline = NodeDeadline(e.millis, window(e))])
  BY DEF Recheck
<1>2. PICK w \in 1 .. Deadline : w = window(e) /\ w \in 0 .. Deadline
  BY <1>1
<1>3. NodeDeadline(e.millis, w) \in Millis
  <2>1. e.millis \in Millis
    BY DEF TypeOK, Event
  <2> QED
    BY <2>1 DEF NodeDeadline, Millis
<1> DEFINE r == [host[h] EXCEPT !.at = "persist", !.seen = now, !.window = w,
                                !.deadline = NodeDeadline(e.millis, w)]
<1>0. host[h] \in Run /\ now \in Time /\ "persist" \in Stage
  BY DEF TypeOK, Stage
<1>4. r \in Run /\ r.at = "persist" /\ r.seen = now /\ r.outcome = host[h].outcome
      /\ r.cmd = host[h].cmd /\ r.challenge = host[h].challenge
      /\ r.deadline = NodeDeadline(e.millis, w)
  BY <1>0, <1>2, <1>3 DEF Run
<1>5. Move(h, r)
  BY <1>1, <1>2
<1> HIDE DEF r
<1>6. Moves(h) /\ host'[h] = r
  BY <1>4, <1>5, Moved DEF TypeOK
<1> QED
  BY <1>1, <1>4, <1>6 DEF Recheck, hostOnly, Same

LEMMA PersistIntentStep ==
    ASSUME TypeOK, NEW h \in Host, PersistIntent(h)
    PROVE  /\ host[h].at = "persist" /\ Moves(h) /\ host'[h].at = "publish"
           /\ Same(h, {"cmd", "seen", "challenge", "deadline", "outcome"})
           /\ Persist(host[h].cmd, "consumed")
           /\ UNCHANGED <<now, node, emitted, incidents, commands>>
<1> DEFINE r == [host[h] EXCEPT !.at = "publish"]
<1>0. host[h] \in Run /\ now \in Time /\ "publish" \in Stage
  BY DEF TypeOK, Stage
<1>1. r \in Run /\ r.at = "publish" /\ r.seen = host[h].seen /\ r.outcome = host[h].outcome
      /\ r.cmd = host[h].cmd /\ r.challenge = host[h].challenge /\ r.deadline = host[h].deadline
  BY <1>0 DEF Run
<1> HIDE DEF r
<1>2. Moves(h) /\ host'[h] = r
  BY <1>1, Moved DEF r, PersistIntent, TypeOK
<1> QED
  BY <1>1, <1>2 DEF PersistIntent, hostOnly, Same

LEMMA CommitStep ==
    ASSUME TypeOK, NEW h \in Host, Commit(h), host[h].cmd \in Command
    PROVE  /\ host[h].at = "publish" /\ Moves(h) /\ Same(h, {"cmd", "seen"})
           /\ host'[h].at = "commit" /\ host'[h].outcome = "none"
           /\ UNCHANGED <<now, node, emitted, incidents, journal, durable>>
           /\ \E m \in CommitCommand :
                 /\ commands' = commands \cup {m}
                 /\ m.host = h /\ m.id = host[h].cmd
                 /\ m.deadline = host[h].deadline /\ m.challenge = host[h].challenge
<1> DEFINE r == [New EXCEPT !.at = "commit", !.cmd = host[h].cmd, !.boot = host[h].boot,
                            !.seen = host[h].seen]
           m == [kind |-> "commit", host |-> h, id |-> host[h].cmd, boot |-> host[h].boot,
                 deadline |-> host[h].deadline, challenge |-> host[h].challenge]
<1>0. host[h] \in Run /\ now \in Time /\ "commit" \in Stage
  BY DEF TypeOK, Stage
<1>1. r \in Run /\ r.at = "commit" /\ r.seen = host[h].seen /\ r.outcome = New.outcome
      /\ r.cmd = host[h].cmd
  BY ZenonT(60), <1>0, NewRun DEF Run
<1>2. m \in CommitCommand /\ m.host = h /\ m.id = host[h].cmd
      /\ m.deadline = host[h].deadline /\ m.challenge = host[h].challenge
  BY DEF CommitCommand, TypeOK, Run
<1>3. New.outcome = "none"
  BY DEF New
<1> HIDE DEF r, m
<1>4. Moves(h) /\ host'[h] = r
  BY <1>1, Moved DEF r, Commit, TypeOK
<1>5. commands' = commands \cup {m}
  BY DEF Commit, m
<1> QED
  BY <1>1, <1>2, <1>3, <1>4, <1>5 DEF Commit, hostOnly, disk, Same

\* The answer, an error or a signal: the run h is over.
Ends(h) ==
    /\ Running(h) /\ Moves(h) /\ Same(h, {"cmd", "seen"})
    /\ host'[h].at \in {"done", "down"}
    /\ host'[h].outcome = "refused" => host[h].at # "commit"
    /\ host'[h].outcome = "ok" => \E e \in replies : e.host = h /\ e.stage = "commit"
    /\ UNCHANGED <<now, node, emitted, incidents, disk, commands>>

LEMMA EndStep ==
    ASSUME TypeOK, NEW h \in Host, Acknowledged(h) \/ GiveUp(h) \/ Crash(h)
    PROVE  Ends(h)
<1>1. ASSUME Acknowledged(h) PROVE Ends(h)
  <2>1. Leave(h, "done", "ok") /\ host \in [Host -> Run] /\ Running(h)
    BY <1>1 DEF Acknowledged, TypeOK, Running
  <2>2. Moves(h) /\ host'[h].at = "done" /\ host'[h].outcome = "ok" /\ Same(h, {"cmd", "seen"})
    BY <2>1, Left
  <2> QED
    BY <1>1, <2>1, <2>2 DEF Acknowledged, hostOnly, Ends
<1>2. ASSUME GiveUp(h) PROVE Ends(h)
  <2>1. PICK outcome \in {"unknown", "refused"} :
           /\ Leave(h, "done", outcome)
           /\ outcome = "refused" => host[h].at # "commit"
    BY <1>2 DEF GiveUp
  <2>2. Moves(h) /\ host'[h].at = "done" /\ host'[h].outcome = outcome
        /\ Same(h, {"cmd", "seen"})
    BY <2>1, Left DEF TypeOK
  <2> QED
    BY <1>2, <2>1, <2>2 DEF GiveUp, Running, hostOnly, Ends
<1>3. ASSUME Crash(h) PROVE Ends(h)
  <2>1. Leave(h, "down", "none") /\ host \in [Host -> Run]
    BY <1>3 DEF Crash, TypeOK
  <2>2. Moves(h) /\ host'[h].at = "down" /\ host'[h].outcome = "none" /\ Same(h, {"cmd", "seen"})
    BY <2>1, Left
  <2> QED
    BY <1>3, <2>1, <2>2 DEF Crash, Running, hostOnly, Ends
<1> QED
  BY <1>1, <1>2, <1>3

LEMMA PowerLossStep ==
    ASSUME TypeOK, PowerLoss
    PROVE  /\ host' \in [Host -> Run] /\ replies' = {}
           /\ \A h \in Host : \/ host'[h] = host[h] /\ host[h].at \in {"new", "done"}
                              \/ /\ host'[h].at = "down" /\ host'[h].outcome = "none"
                                 /\ Same(h, {"cmd", "seen"})
           /\ \E lost \in SUBSET Command :
                 journal' = [c \in Command |-> IF c \in lost THEN durable[c] ELSE journal[c]]
           /\ durable' = journal' /\ incidents' = incidents + 1 /\ incidents < MaxIncident
           /\ UNCHANGED <<now, node, commands, emitted>>
<1> DEFINE r(h) == [New EXCEPT !.at = "down", !.cmd = host[h].cmd, !.seen = host[h].seen]
<1>0. host \in [Host -> Run] /\ "down" \in Stage
  BY DEF TypeOK, Stage
<1>1. \A h \in Host : /\ r(h) \in Run /\ r(h).at = "down" /\ r(h).outcome = New.outcome
                      /\ r(h).cmd = host[h].cmd /\ r(h).seen = host[h].seen
  <2> TAKE h \in Host
  <2>0. host[h] \in Run
    BY <1>0
  <2>1. host[h].cmd \in Command \cup {None} /\ host[h].seen \in Time /\ New \in Run
    BY <2>0, NewRun DEF Run
  <2> QED
    BY <1>0, <2>1 DEF Run
<1>2. New.outcome = "none"
  BY DEF New
<1>3. host' = [h \in Host |-> IF host[h].at \in {"new", "done"} THEN host[h] ELSE r(h)]
  BY DEF PowerLoss
<1> HIDE DEF r
<1>4. host' \in [Host -> Run]
  BY <1>1, <1>3 DEF TypeOK
<1>5. \A h \in Host : \/ host'[h] = host[h] /\ host[h].at \in {"new", "done"}
                      \/ /\ host'[h].at = "down" /\ host'[h].outcome = "none"
                         /\ Same(h, {"cmd", "seen"})
  BY <1>1, <1>2, <1>3 DEF Same
<1> QED
  BY <1>4, <1>5 DEF PowerLoss, Incident

-----------------------------------------------------------------------------
(* What the node does *)

LEMMA Recorded ==
    ASSUME node \in Globals, Len(node.recent) <= Capacity, NEW id \in CommandId
    PROVE  Record(id) \in Seq(CommandId) /\ Len(Record(id)) <= Capacity
<1>1. node.recent \in Seq(CommandId)
  BY DEF Globals
<1>2. CASE Len(node.recent) < Capacity
  <2>1. Append(node.recent, id) \in Seq(CommandId)
        /\ Len(Append(node.recent, id)) = Len(node.recent) + 1
    BY <1>1
  <2> QED
    BY <1>2, <2>1 DEF Record
<1>3. CASE Len(node.recent) >= Capacity
  <2>1. /\ Tail(node.recent) \in Seq(CommandId)
        /\ Len(Tail(node.recent)) = Len(node.recent) - 1
    BY <1>1, <1>3
  <2>2. /\ Append(Tail(node.recent), id) \in Seq(CommandId)
        /\ Len(Append(Tail(node.recent), id)) = Len(Tail(node.recent)) + 1
    BY <2>1
  <2> QED
    BY <1>1, <1>3, <2>1, <2>2 DEF Record
<1> QED
  BY <1>1, <1>2, <1>3

LEMMA Kinds ==
    ASSUME TypeOK, NEW m \in commands
    PROVE  /\ m.host \in Host /\ m.id \in CommandId
           /\ m.kind = "status" => m.stage \in {"status", "recheck"}
           /\ m.kind = "prepare" => m \in PrepareCommand /\ m.deadline \in Millis
           /\ m.kind = "commit" => m \in CommitCommand /\ m.id \in Command
                                   /\ m.deadline \in Millis /\ m.challenge \in Nat
  BY DEF TypeOK, StatusCommand, PrepareCommand, CommitCommand, CommandId

LEMMA Replied ==
    ASSUME TypeOK, NEW m \in commands, NEW stage \in {"status", "recheck", "prepare", "commit"},
           NEW challenge \in Nat, NEW expires \in Millis, Reply(m, stage, challenge, expires)
    PROVE  /\ replies' \subseteq Event
           /\ \A e \in replies' \ replies :
                 /\ e.host = m.host /\ e.stage = stage /\ host[m.host].at = stage
                 /\ e.millis = node.millis /\ e.challenge = challenge
<1> DEFINE e == [host |-> m.host, stage |-> stage, boot |-> node.boot, millis |-> node.millis,
                 challenge |-> challenge, expires |-> expires]
<1>1. m.host \in Host /\ node.boot \in Boot /\ node.millis \in Millis
  BY Kinds DEF TypeOK, Globals
<1>2. e \in Event /\ e.host = m.host /\ e.stage = stage /\ e.millis = node.millis
      /\ e.challenge = challenge
  BY <1>1 DEF Event
<1>3. replies' = replies \/ (host[m.host].at = stage /\ replies' = replies \cup {e})
  BY DEF Reply
<1> HIDE DEF e
<1> QED
  BY <1>2, <1>3 DEF TypeOK

\* The host is left alone, no packet appears, nothing new is prepared or sent,
\* and the clock goes on only without a preparation.
Quiet ==
    /\ node' \in Globals /\ Len(node'.recent) <= Capacity
    /\ node'.prepared \in {None, node.prepared} /\ node'.nonce = node.nonce
    /\ node'.millis = node.millis \/ node'.prepared = None
    /\ node'.boot = node.boot \/ (node'.boot = node.boot + 1 /\ incidents' = incidents + 1)
    /\ incidents' = incidents \/ (incidents' = incidents + 1 /\ incidents < MaxIncident)
    /\ commands' \subseteq commands /\ UNCHANGED <<now, host, journal, durable, emitted>>

LEMMA StillPrepared ==
    ASSUME TypeOK
    PROVE  /\ Prepared \in {None, node.prepared} /\ Prepared \in Preparation \cup {None}
           /\ Prepared # None => Prepared = node.prepared
                                 /\ BeforeDeadline(node.prepared.expires)
  BY DEF Prepared, TypeOK, Globals

\* The node looks at a command and does nothing that a host can see.
LEMMA Looks ==
    ASSUME TypeOK, NEW id \in CommandId,
           \/ node' = [node EXCEPT !.prepared = Prepared]
           \/ node' = [node EXCEPT !.prepared = Prepared, !.recent = Record(id)],
           commands' \subseteq commands,
           UNCHANGED <<now, host, journal, durable, incidents, emitted>>
    PROVE  Quiet /\ node'.millis = node.millis
<1>1. /\ node \in Globals /\ Len(node.recent) <= Capacity
      /\ Record(id) \in Seq(CommandId) /\ Len(Record(id)) <= Capacity
  BY Recorded DEF TypeOK
<1>2. Prepared \in {None, node.prepared} /\ Prepared \in Preparation \cup {None}
  BY StillPrepared
<1>3. CASE node' = [node EXCEPT !.prepared = Prepared]
  BY <1>1, <1>2, <1>3 DEF Globals, Quiet
<1>4. CASE node' = [node EXCEPT !.prepared = Prepared, !.recent = Record(id)]
  BY <1>1, <1>2, <1>4 DEF Globals, Quiet
<1> QED
  BY <1>3, <1>4

LEMMA RejectedStep ==
    ASSUME TypeOK, NEW m \in commands, OnRejected(m)
    PROVE  Quiet /\ replies' = replies
  BY Looks DEF OnRejected, Arrive, disk, CommandId

LEMMA StatusStep ==
    ASSUME TypeOK, NEW m \in commands, OnStatus(m)
    PROVE  /\ Quiet /\ node'.millis = node.millis
           /\ Reply(m, m.stage, 0, 0) /\ m.stage \in {"status", "recheck"}
<1>1. m.kind = "status" /\ m.id \in CommandId
  BY Kinds DEF OnStatus
<1>2. m.stage \in {"status", "recheck"}
  BY <1>1, Kinds
<1> QED
  BY <1>1, <1>2, Looks DEF OnStatus, Arrive, disk

\* A preparation with a challenge of its own takes the place of another.
Prepares(m) ==
    /\ node' \in Globals /\ Len(node'.recent) <= Capacity
    /\ node'.nonce = node.nonce + 1 /\ node'.millis = node.millis /\ node'.boot = node.boot
    /\ node'.prepared.challenge = node.nonce + 1 /\ node'.prepared.wave = m.host
    /\ node'.prepared.expires = (node.millis + Lifetime) % Modulus
    /\ \E expires \in Millis : Reply(m, "prepare", node.nonce + 1, expires)
    /\ commands' \subseteq commands
    /\ UNCHANGED <<now, host, journal, durable, incidents, emitted>>

LEMMA PreparesStep ==
    ASSUME TypeOK, NEW m \in commands, OnPrepare(m)
    PROVE  Prepares(m) \/ (Quiet /\ replies' = replies)
<1> DEFINE expires == (node.millis + Lifetime) % Modulus
           challenge == node.nonce + 1
           p == [challenge |-> challenge, wave |-> m.host, expires |-> expires]
<1>1. /\ m.host \in Host /\ m.id \in CommandId /\ node \in Globals
      /\ commands' \subseteq commands
      /\ UNCHANGED <<now, host, journal, durable, incidents, emitted>>
  BY Kinds DEF OnPrepare, Arrive, disk, TypeOK
<1>2. node.millis \in Millis /\ node.nonce \in 0 .. MaxChallenge
  BY <1>1 DEF Globals
<1>3. expires \in Millis
  BY <1>2, Mod DEF Millis
<1>4. CASE /\ challenge <= MaxChallenge /\ Reply(m, "prepare", challenge, expires)
           /\ node' = [node EXCEPT !.recent = Record(m.id), !.nonce = challenge, !.prepared = p]
  <2>1. p \in Preparation /\ p.challenge = challenge /\ p.wave = m.host /\ p.expires = expires
    BY <1>1, <1>2, <1>3 DEF Preparation
  <2>2. Record(m.id) \in Seq(CommandId) /\ Len(Record(m.id)) <= Capacity
    BY <1>1, Recorded DEF TypeOK
  <2>3. challenge \in 0 .. MaxChallenge
    BY <1>2, <1>4
  <2> HIDE DEF p
  <2>4. /\ node' \in Globals /\ Len(node'.recent) <= Capacity
        /\ node'.nonce = challenge /\ node'.millis = node.millis /\ node'.boot = node.boot
        /\ node'.prepared = p
    BY <1>1, <1>4, <2>1, <2>2, <2>3 DEF Globals
  <2> QED
    BY <1>1, <1>3, <1>4, <2>1, <2>4 DEF Prepares
<1>5. CASE /\ node' = [node EXCEPT !.prepared = Prepared, !.recent = Record(m.id)]
           /\ UNCHANGED replies
  BY <1>1, <1>5, Looks
<1> QED
  BY <1>4, <1>5 DEF OnPrepare

\* The waveform that is prepared is sent, once.
Emits(m) ==
    /\ m.kind = "commit" /\ Parsed(m) /\ Takes(m)
    /\ node' \in Globals /\ Len(node'.recent) <= Capacity
    /\ node'.prepared = None /\ node'.nonce = node.nonce /\ node'.boot = node.boot
    /\ emitted' = Append(emitted, [cmd |-> m.id, wave |-> node.prepared.wave])
    /\ Reply(m, "commit", 0, 0)
    /\ commands' \subseteq commands
    /\ UNCHANGED <<now, host, journal, durable, incidents>>

LEMMA EmitsStep ==
    ASSUME TypeOK, NEW m \in commands, OnCommit(m)
    PROVE  Emits(m) \/ (Quiet /\ replies' = replies)
<1>1. /\ m.id \in CommandId /\ m.kind = "commit" /\ Parsed(m) /\ commands' \subseteq commands
      /\ UNCHANGED <<now, host, journal, durable, incidents>>
  BY Kinds DEF OnCommit, Arrive, disk
<1>2. CASE /\ Takes(m) /\ node' = [node EXCEPT !.prepared = None, !.recent = Record(m.id)]
           /\ emitted' = Append(emitted, [cmd |-> m.id, wave |-> Prepared.wave])
           /\ Reply(m, "commit", 0, 0)
  <2>1. Prepared = node.prepared
    BY <1>2, StillPrepared DEF Takes
  <2>2. Record(m.id) \in Seq(CommandId) /\ Len(Record(m.id)) <= Capacity /\ node \in Globals
    BY <1>1, Recorded DEF TypeOK
  <2>3. /\ node' \in Globals /\ Len(node'.recent) <= Capacity
        /\ node'.prepared = None /\ node'.nonce = node.nonce /\ node'.boot = node.boot
    BY <1>2, <2>2 DEF Globals
  <2> QED
    BY <1>1, <1>2, <2>1, <2>3 DEF Emits
<1>3. CASE /\ node' = [node EXCEPT !.prepared = Prepared, !.recent = Record(m.id)]
           /\ UNCHANGED <<emitted, replies>>
  BY <1>1, <1>3, Looks
<1> QED
  BY <1>2, <1>3 DEF OnCommit

LEMMA OtherStep ==
    ASSUME TypeOK, Booted,
           \/ \E action \in {"start", "cancel", "ac_send", "loopback"} : OnOther(action)
           \/ \E saved \in BOOLEAN : Reboot(saved)
           \/ WindowEnds
           \/ Expire
    PROVE  Quiet /\ replies' = replies
<1>0. /\ node \in Globals /\ Len(node.recent) <= Capacity /\ incidents \in 0 .. MaxIncident
      /\ None \in CommandId
  BY DEF TypeOK, CommandId
<1>1. ASSUME NEW action \in {"start", "cancel", "ac_send", "loopback"}, OnOther(action)
      PROVE  Quiet /\ replies' = replies
  <2>1. PICK p \in {Prepared, None}, armed \in BOOLEAN :
           node' = [node EXCEPT !.recent = Record(None), !.prepared = p, !.armed = armed]
    <3>1. node.armed \in BOOLEAN
      BY <1>0 DEF Globals
    <3> QED
      BY <1>1, <3>1 DEF OnOther
  <2>2. Record(None) \in Seq(CommandId) /\ Len(Record(None)) <= Capacity
    BY <1>0, Recorded
  <2>3. p \in {None, node.prepared} /\ p \in Preparation \cup {None}
    BY StillPrepared
  <2>4. /\ node' \in Globals /\ Len(node'.recent) <= Capacity /\ node'.prepared = p
        /\ node'.nonce = node.nonce /\ node'.boot = node.boot /\ node'.millis = node.millis
    BY <1>0, <2>1, <2>2, <2>3 DEF Globals
  <2> QED
    BY <1>1, <2>3, <2>4 DEF OnOther, Incident, disk, Quiet
<1>2. ASSUME NEW saved \in BOOLEAN, Reboot(saved)
      PROVE  Quiet /\ replies' = replies
  <2>1. PICK boot \in {node.boot, node.boot + 1} :
           node' = [boot |-> boot, millis |-> 0, armed |-> FALSE, prepared |-> None,
                    nonce |-> node.nonce, recent |-> <<>>]
    BY <1>2 DEF Reboot
  <2>2. /\ node.boot \in Nat /\ node.boot >= 1 /\ node.nonce \in 0 .. MaxChallenge
        /\ node.boot <= incidents + 1 /\ incidents < MaxIncident
    BY <1>0, <1>2 DEF Globals, Boot, Booted, Reboot, Incident
  <2>3. boot \in Boot /\ 0 \in Millis
    BY <1>0, <2>1, <2>2 DEF Boot, Millis
  <2>4. /\ node' \in Globals /\ Len(node'.recent) <= Capacity /\ node'.prepared = None
        /\ node'.nonce = node.nonce /\ node'.boot = boot
    BY <2>1, <2>2, <2>3 DEF Globals
  <2> QED
    BY <1>2, <2>1, <2>4 DEF Reboot, Incident, disk, Quiet
<1>3. ASSUME WindowEnds
      PROVE  Quiet /\ replies' = replies
  <2>1. node' \in Globals /\ Len(node'.recent) <= Capacity /\ node'.prepared = node.prepared
        /\ node'.nonce = node.nonce /\ node'.boot = node.boot /\ node'.millis = node.millis
    BY <1>0, <1>3 DEF WindowEnds, Globals
  <2> QED
    BY <1>3, <2>1 DEF WindowEnds, disk, Quiet
<1>4. ASSUME Expire
      PROVE  Quiet /\ replies' = replies
  <2>1. node' \in Globals /\ Len(node'.recent) <= Capacity /\ node'.prepared = None
        /\ node'.nonce = node.nonce /\ node'.boot = node.boot /\ node'.millis = node.millis
    BY <1>0, <1>4 DEF Expire, Globals
  <2> QED
    BY <1>4, <2>1 DEF Expire, disk, Quiet
<1> QED
  BY <1>1, <1>2, <1>3, <1>4

LEMMA TickStep ==
    ASSUME TypeOK, Tick
    PROVE  /\ node' \in Globals /\ Len(node'.recent) <= Capacity
           /\ node'.prepared = node.prepared /\ node'.nonce = node.nonce
           /\ node'.boot = node.boot /\ node'.millis = (node.millis + 1) % Modulus
           /\ now' = now + 1 /\ now' \in Time
           /\ node.prepared # None => Remaining(node.prepared.expires) # Modulus \div 2
           /\ UNCHANGED <<host, journal, durable, commands, replies, emitted, incidents>>
<1>1. node \in Globals /\ Len(node.recent) <= Capacity /\ now \in Time
  BY DEF TypeOK
<1>2. (node.millis + 1) % Modulus \in Millis
  <2>1. node.millis + 1 \in Int
    BY <1>1 DEF Globals, Millis
  <2> QED
    BY <2>1, Mod
<1>3. /\ node' \in Globals /\ Len(node'.recent) <= Capacity
      /\ node'.prepared = node.prepared /\ node'.nonce = node.nonce
      /\ node'.boot = node.boot /\ node'.millis = (node.millis + 1) % Modulus
  BY <1>1, <1>2 DEF Tick, Globals
<1>4. now' = now + 1 /\ now' \in Time
  BY <1>1 DEF Tick, Time
<1> QED
  BY <1>3, <1>4 DEF Tick, disk

-----------------------------------------------------------------------------
(* Each part of the invariant is kept by every step *)

LEMMA TypesKept ==
    ASSUME IInv, Next
    PROVE  TypeOK' /\ Booted'
<1>0. TypeOK /\ Booted /\ \A h \in Host : Running(h) => host[h].cmd \in Command
  BY DEF IInv, Stages, StageOf
<1>1. \A c \in Command, phase \in File : Persist(c, phase) =>
          journal' \in [Command -> File] /\ durable' \in [Command -> File]
  BY <1>0 DEF TypeOK, Persist
<1>2. {"empty", "reserved", "consumed"} \subseteq File
  BY DEF File
<1>3. ASSUME NEW h \in Host, Replay(h)
      PROVE  TypeOK' /\ Booted'
  <2>1. ASSUME NEW c \in Command, Reserve(h, c) PROVE TypeOK' /\ Booted'
    BY <1>0, <1>2, <2>1, ReserveStep DEF TypeOK, Booted, Moves
  <2>2. ASSUME AskStatus(h) PROVE TypeOK' /\ Booted'
    <3>1. Status(h, "status") \in StatusCommand
      BY DEF Status, StatusCommand
    <3>2. host[h].cmd \in Command
      BY <1>0, <2>2 DEF AskStatus, Running
    <3> QED
      BY <1>0, <1>1, <1>2, <2>2, <3>1, <3>2, AskStatusStep DEF TypeOK, Booted, Moves
  <2>3. ASSUME Prepare(h) PROVE TypeOK' /\ Booted'
    BY <1>0, <2>3, PrepareStep DEF TypeOK, Booted, Moves
  <2>4. ASSUME AskAgain(h) PROVE TypeOK' /\ Booted'
    <3>1. Status(h, "recheck") \in StatusCommand
      BY DEF Status, StatusCommand
    <3> QED
      BY <1>0, <2>4, <3>1, AskAgainStep DEF TypeOK, Booted, Moves
  <2>5. ASSUME Recheck(h) PROVE TypeOK' /\ Booted'
    <3>1. UNCHANGED <<now, node, emitted, incidents, durable, commands>> /\ Moves(h)
      BY <1>0, <2>5, RecheckStep
    <3>2. journal' \in [Command -> File]
      BY <1>0, <1>2, <2>5, RecheckStep DEF TypeOK
    <3> QED
      BY <1>0, <3>1, <3>2 DEF TypeOK, Booted, Moves
  <2>6. ASSUME PersistIntent(h) PROVE TypeOK' /\ Booted'
    <3>1. host[h].cmd \in Command
      BY <1>0, <2>6 DEF PersistIntent, Running
    <3> QED
      BY <1>0, <1>1, <1>2, <2>6, <3>1, PersistIntentStep DEF TypeOK, Booted, Moves
  <2>7. ASSUME Commit(h) PROVE TypeOK' /\ Booted'
    <3>1. host[h].cmd \in Command
      BY <1>0, <2>7 DEF Commit, Running
    <3> QED
      BY <1>0, <2>7, <3>1, CommitStep DEF TypeOK, Booted, Moves
  <2>8. ASSUME Ends(h) PROVE TypeOK' /\ Booted'
    BY <1>0, <2>8 DEF Ends, TypeOK, Booted, Moves, disk
  <2> QED
    BY <1>0, <1>3, <2>1, <2>2, <2>3, <2>4, <2>5, <2>6, <2>7, <2>8, EndStep DEF Replay
<1>4. ASSUME PowerLoss PROVE TypeOK' /\ Booted'
  <2>1. PICK lost \in SUBSET Command :
           journal' = [c \in Command |-> IF c \in lost THEN durable[c] ELSE journal[c]]
    BY <1>0, <1>4, PowerLossStep
  <2>2. journal' \in [Command -> File]
    BY <1>0, <2>1 DEF TypeOK
  <2>3. incidents' \in 0 .. MaxIncident
    BY <1>0, <1>4, PowerLossStep DEF TypeOK
  <2> QED
    BY <1>0, <1>4, <2>2, <2>3, PowerLossStep DEF TypeOK, Booted, Globals, Boot
<1>5. ASSUME Quiet, replies' \subseteq Event PROVE TypeOK' /\ Booted'
  BY <1>0, <1>5 DEF Quiet, TypeOK, Booted, Globals, Boot
<1>6. ASSUME NEW m \in commands, OnStatus(m) PROVE TypeOK' /\ Booted'
  <2>1. Quiet /\ replies' \subseteq Event
    <3>1. 0 \in Nat /\ 0 \in Millis
      BY DEF Millis
    <3> QED
      BY <1>0, <1>6, <3>1, StatusStep, Replied
  <2> QED
    BY <1>5, <2>1
<1>7. ASSUME NEW m \in commands, Prepares(m) PROVE TypeOK' /\ Booted'
  <2>1. replies' \subseteq Event
    <3>1. node.nonce + 1 \in Nat
      BY <1>0 DEF TypeOK, Globals
    <3> QED
      BY <1>0, <1>7, <3>1, Replied DEF Prepares
  <2> QED
    BY <1>0, <1>7, <2>1 DEF Prepares, TypeOK, Booted
<1>8. ASSUME NEW m \in commands, Emits(m) PROVE TypeOK' /\ Booted'
  <2>1. replies' \subseteq Event
    <3>1. 0 \in Nat /\ 0 \in Millis
      BY DEF Millis
    <3> QED
      BY <1>0, <1>8, <3>1, Replied DEF Emits
  <2>2. m.id \in Command /\ node.prepared.wave \in Host
    <3>1. m.id \in Command
      BY <1>0, <1>8, Kinds DEF Emits
    <3>2. node.prepared \in Preparation
      BY <1>0, <1>8, StillPrepared DEF Emits, Takes
    <3> QED
      BY <3>1, <3>2 DEF Preparation
  <2>3. emitted' \in Seq([cmd : Command, wave : Host])
    BY <1>0, <1>8, <2>2 DEF Emits, TypeOK
  <2> QED
    BY <1>0, <1>8, <2>1, <2>3 DEF Emits, TypeOK, Booted
<1>9. ASSUME Tick PROVE TypeOK' /\ Booted'
  BY <1>0, <1>9, TickStep DEF TypeOK, Booted
<1>10. ASSUME Quiet, replies' = replies PROVE TypeOK' /\ Booted'
  BY <1>0, <1>5, <1>10 DEF TypeOK
<1> QED
  BY <1>0, <1>3, <1>4, <1>6, <1>7, <1>8, <1>9, <1>10, RejectedStep, PreparesStep, EmitsStep,
     OtherStep DEF Next, Node

\* No step but a new preparation makes a claim that was not there.
LEMMA ClaimsStand ==
    ASSUME Claims, node'.prepared \in {None, node.prepared}, node'.nonce = node.nonce,
           \A h \in Host, x \in Nat : Claim(h, x)' => Claim(h, x)
    PROVE  Claims'
  BY DEF Claims

\* A run hands its claim on: from the reply to its variables, and to the commit.
LEMMA ClaimMoves ==
    ASSUME Claims, NEW h \in Host, Moves(h), node' = node,
           host'[h].at \in {"recheck", "persist", "publish"} => Claim(h, host'[h].challenge),
           \A m \in commands' \ commands :
              m.kind = "commit" => m.host = h /\ Claim(h, m.challenge)
    PROVE  Claims'
<1>1. ASSUME NEW g \in Host, NEW x \in Nat, Claim(g, x)'
      PROVE  Claim(g, x)
  <2>1. CASE \E e \in replies' : e.host = g /\ e.stage = "prepare" /\ e.challenge = x
    BY <2>1 DEF Moves, Claim
  <2>2. CASE host'[g].at \in {"recheck", "persist", "publish"} /\ host'[g].challenge = x
    BY <2>2 DEF Moves, Claim
  <2>3. CASE \E m \in commands' : m.kind = "commit" /\ m.host = g /\ m.challenge = x
    BY <2>3 DEF Claim
  <2> QED
    BY <1>1, <2>1, <2>2, <2>3 DEF Claim
<1> QED
  BY <1>1, ClaimsStand

LEMMA ClaimsKept ==
    ASSUME IInv, Next
    PROVE  Claims'
<1>0. TypeOK /\ Booted /\ Claims /\ \A h \in Host : Running(h) => host[h].cmd \in Command
  BY DEF IInv, Stages, StageOf
<1>1. ASSUME NEW h \in Host, Replay(h)
      PROVE  Claims'
  <2>1. ASSUME NEW c \in Command, Reserve(h, c) PROVE Claims'
    BY <1>0, <2>1, ReserveStep, ClaimMoves
  <2>2. ASSUME AskStatus(h) PROVE Claims'
    BY <1>0, <2>2, AskStatusStep, ClaimMoves DEF Status
  <2>3. ASSUME Prepare(h) PROVE Claims'
    BY <1>0, <2>3, PrepareStep, ClaimMoves DEF PrepareCommand
  <2>4. ASSUME AskAgain(h) PROVE Claims'
    <3>1. Claim(h, host'[h].challenge)
      BY <1>0, <2>4, AskAgainStep DEF Claim
    <3> QED
      BY <1>0, <2>4, <3>1, AskAgainStep, ClaimMoves DEF Status
  <2>5. ASSUME Recheck(h) PROVE Claims'
    <3>1. Claim(h, host'[h].challenge)
      BY <1>0, <2>5, RecheckStep DEF Claim, Same
    <3> QED
      BY <1>0, <2>5, <3>1, RecheckStep, ClaimMoves
  <2>6. ASSUME PersistIntent(h) PROVE Claims'
    <3>1. Claim(h, host'[h].challenge)
      BY <1>0, <2>6, PersistIntentStep DEF Claim, Same
    <3> QED
      BY <1>0, <2>6, <3>1, PersistIntentStep, ClaimMoves
  <2>7. ASSUME Commit(h) PROVE Claims'
    <3>1. Claim(h, host[h].challenge) /\ host[h].cmd \in Command
      BY <1>0, <2>7 DEF Commit, Claim, Running
    <3> QED
      BY <1>0, <2>7, <3>1, CommitStep, ClaimMoves
  <2>8. ASSUME Ends(h) PROVE Claims'
    BY <1>0, <2>8, ClaimMoves DEF Ends
  <2> QED
    BY <1>0, <1>1, <2>1, <2>2, <2>3, <2>4, <2>5, <2>6, <2>7, <2>8, EndStep DEF Replay
<1>2. ASSUME PowerLoss PROVE Claims'
  BY <1>0, <1>2, PowerLossStep, ClaimsStand DEF Claim
<1>3. ASSUME Quiet, \A e \in replies' \ replies : e.stage # "prepare" PROVE Claims'
  BY <1>0, <1>3, ClaimsStand DEF Quiet, Claim
<1>4. ASSUME NEW m \in commands, OnStatus(m) PROVE Claims'
  <2>1. 0 \in Nat /\ 0 \in Millis
    BY DEF Millis
  <2> QED
    BY <1>0, <1>3, <1>4, <2>1, StatusStep, Replied
<1>5. ASSUME NEW m \in commands, Prepares(m) PROVE Claims'
  <2>1. node.nonce \in Nat /\ node'.prepared.challenge = node.nonce + 1
        /\ node'.nonce = node.nonce + 1 /\ node'.prepared.wave = m.host
    BY <1>0, <1>5 DEF Prepares, TypeOK, Globals
  <2>2. \A e \in replies' \ replies : e.host = m.host /\ e.challenge = node.nonce + 1
    <3>1. PICK expires \in Millis : Reply(m, "prepare", node.nonce + 1, expires)
      BY <1>5 DEF Prepares
    <3>2. node.nonce + 1 \in Nat
      BY <2>1
    <3> QED
      BY <1>0, <3>1, <3>2, Replied
  <2>3. ASSUME NEW h \in Host, NEW x \in Nat, Claim(h, x)'
        PROVE  Claim(h, x) \/ (h = m.host /\ x = node.nonce + 1)
    BY <1>5, <2>2, <2>3 DEF Prepares, Claim
  <2>4. ASSUME NEW h \in Host, NEW x \in Nat, Claim(h, x)'
        PROVE  x <= node'.nonce /\ (node'.prepared.challenge = x => node'.prepared.wave = h)
    BY <1>0, <2>1, <2>3, <2>4 DEF Claims
  <2> QED
    BY <2>1, <2>4 DEF Claims
<1>6. ASSUME NEW m \in commands, Emits(m) PROVE Claims'
  <2>1. \A e \in replies' \ replies : e.stage # "prepare"
    <3>1. 0 \in Nat /\ 0 \in Millis
      BY DEF Millis
    <3> QED
      BY <1>0, <1>6, <3>1, Replied DEF Emits
  <2> QED
    BY <1>0, <1>6, <2>1, ClaimsStand DEF Emits, Claim
<1>7. ASSUME Tick PROVE Claims'
  BY <1>0, <1>7, TickStep, ClaimsStand DEF Claim
<1>8. ASSUME Quiet, replies' = replies PROVE Claims'
  BY <1>3, <1>8
<1> QED
  BY <1>0, <1>1, <1>2, <1>4, <1>5, <1>6, <1>7, <1>8, RejectedStep, PreparesStep, EmitsStep,
     OtherStep DEF Next, Node

\* What every step of a run h has in common.
Proceeds(h) ==
    /\ Moves(h) /\ UNCHANGED <<now, node, emitted, incidents>> /\ commands \subseteq commands'
    /\ host[h].at = "new" \/ Running(h)
    /\ host[h].at # "new" => Same(h, {"cmd"})
    /\ Recheck(h) \/ Same(h, {"seen"})
    /\ host'[h].at \in {"persist", "publish"} =>
          Recheck(h) \/ (host[h].at = "persist" /\ Same(h, {"challenge", "deadline"}))
    /\ \A m \in commands' \ commands : m.kind = "commit" =>
          /\ host[h].at = "publish" /\ host'[h].at = "commit"
          /\ m.host = h /\ m.id = host[h].cmd
          /\ m.deadline = host[h].deadline /\ m.challenge = host[h].challenge

LEMMA ProceedsStep ==
    ASSUME IInv, NEW h \in Host, Replay(h)
    PROVE  Proceeds(h)
<1>0. TypeOK /\ (Running(h) => host[h].cmd \in Command)
  BY DEF IInv, Stages, StageOf
<1>1. ASSUME NEW c \in Command, Reserve(h, c) PROVE Proceeds(h)
  BY <1>0, <1>1, ReserveStep DEF Proceeds, Same, Running
<1>2. ASSUME AskStatus(h) PROVE Proceeds(h)
  BY <1>0, <1>2, AskStatusStep DEF Proceeds, Same, Running, Status
<1>3. ASSUME Prepare(h) PROVE Proceeds(h)
  BY <1>0, <1>3, PrepareStep DEF Proceeds, Same, Running, PrepareCommand
<1>4. ASSUME AskAgain(h) PROVE Proceeds(h)
  BY <1>0, <1>4, AskAgainStep DEF Proceeds, Same, Running, Status
<1>5. ASSUME Recheck(h) PROVE Proceeds(h)
  BY <1>0, <1>5, RecheckStep DEF Proceeds, Same, Running
<1>6. ASSUME PersistIntent(h) PROVE Proceeds(h)
  BY <1>0, <1>6, PersistIntentStep DEF Proceeds, Same, Running
<1>7. ASSUME Commit(h) PROVE Proceeds(h)
  <2>1. host[h].cmd \in Command
    BY <1>0, <1>7 DEF Commit, Running
  <2> QED
    BY <1>0, <1>7, <2>1, CommitStep DEF Proceeds, Same, Running
<1>8. ASSUME Ends(h) PROVE Proceeds(h)
  BY <1>8 DEF Ends, Proceeds, Same, Running
<1> QED
  BY <1>0, <1>1, <1>2, <1>3, <1>4, <1>5, <1>6, <1>7, <1>8, EndStep DEF Replay

LEMMA FilesKept ==
    ASSUME IInv, Next
    PROVE  Files'
<1>0. TypeOK /\ Booted /\ Files /\ Stages
  BY DEF IInv
<1>1. ASSUME NEW h \in Host, Replay(h)
      PROVE  Files'
  <2>0. StageOf(h)
    BY <1>0 DEF Stages
  <2>1. ASSUME NEW c \in Command, Reserve(h, c) PROVE Files'
    BY <1>0, <2>1, ReserveStep DEF Files, TypeOK
  <2>2. ASSUME AskStatus(h) PROVE Files'
    BY <1>0, <2>0, <2>2, AskStatusStep DEF Files, TypeOK, Persist, StageOf
  <2>3. ASSUME Recheck(h) PROVE Files'
    BY <1>0, <2>0, <2>3, RecheckStep DEF Files, TypeOK, StageOf
  <2>4. ASSUME PersistIntent(h) PROVE Files'
    BY <1>0, <2>4, PersistIntentStep DEF Files, TypeOK, Persist
  <2>5. ASSUME UNCHANGED <<journal, durable>> PROVE Files'
    BY <1>0, <2>5 DEF Files
  <2> QED
    BY <1>0, <1>1, <2>1, <2>2, <2>3, <2>4, <2>5, EndStep
       DEF Replay, Prepare, AskAgain, Commit, Ends, disk
<1>2. ASSUME PowerLoss PROVE Files'
  <2>1. PICK lost \in SUBSET Command :
           journal' = [c \in Command |-> IF c \in lost THEN durable[c] ELSE journal[c]]
    BY <1>0, <1>2, PowerLossStep
  <2>2. durable' = journal'
    BY <1>0, <1>2, PowerLossStep
  <2> QED
    BY <2>1, <2>2 DEF Files
<1>3. ASSUME UNCHANGED <<journal, durable>> PROVE Files'
  BY <1>0, <1>3 DEF Files
<1> QED
  BY <1>0, <1>1, <1>2, <1>3, TickStep, RejectedStep, StatusStep, PreparesStep, EmitsStep,
     OtherStep DEF Next, Node, Quiet, Prepares, Emits

\* The runs of which the step leaves the variables and the file alone.
LEMMA OthersStand ==
    ASSUME IInv, NEW g \in Host, host'[g] = host[g],
           Live(g) => /\ journal'[host[g].cmd] = journal[host[g].cmd]
                      /\ durable'[host[g].cmd] = durable[host[g].cmd],
           Sent(g)' => Sent(g), Emitted(g) => Emitted(g)'
    PROVE  StageOf(g)'
<1>1. StageOf(g)
  BY DEF IInv, Stages
<1>2. Running(g)' <=> Running(g)
  BY DEF Running
<1>3. CASE Live(g)
  BY <1>1, <1>2, <1>3 DEF StageOf
<1>4. CASE ~Live(g)
  BY <1>1, <1>2, <1>4 DEF StageOf, Live, Running
<1> QED
  BY <1>3, <1>4

\* Nothing counts as sent by a step of a run, but the commit it publishes.
LEMMA SentMoves ==
    ASSUME NEW h \in Host, Proceeds(h), NEW g \in Host
    PROVE  /\ Emitted(g)' <=> Emitted(g)
           /\ Sent(g)' => \/ Sent(g)
                          \/ g = h /\ host[h].at = "publish" /\ host'[h].at = "commit"
  BY DEF Proceeds, Emitted, Sent

\* The waveform that is sent is that of the run whose commit it was.
LEMMA SentOnce ==
    ASSUME IInv, NEW m \in commands, Emits(m)
    PROVE  /\ node.prepared.wave = m.host /\ m.host \in Host /\ Sent(m.host)
           /\ \A g \in Host : /\ Emitted(g) => Emitted(g)'
                              /\ Sent(g)' => Sent(g)
           /\ Emitted(m.host)'
<1>1. TypeOK /\ Claims /\ m.kind = "commit" /\ node.prepared # None
      /\ node.prepared.challenge = m.challenge
  BY StillPrepared DEF IInv, Emits, Takes
<1>2. m.host \in Host /\ m.challenge \in Nat
  BY <1>1, Kinds
<1>3. node.prepared.wave = m.host
  BY <1>1, <1>2 DEF Claims, Claim
<1>4. Sent(m.host)
  BY <1>1 DEF Sent
<1> DEFINE s == [cmd |-> m.id, wave |-> node.prepared.wave]
<1>5. emitted' = Append(emitted, s) /\ s.wave = m.host /\ emitted \in Seq([cmd : Command, wave : Host])
      /\ s \in [cmd : Command, wave : Host]
  BY <1>1, <1>2, <1>3, Kinds DEF Emits, TypeOK
<1> HIDE DEF s
<1>6. /\ \A i \in DOMAIN emitted : i \in DOMAIN emitted' /\ emitted'[i] = emitted[i]
      /\ \A i \in DOMAIN emitted' : emitted'[i] = s \/ (i \in DOMAIN emitted /\ emitted'[i] = emitted[i])
      /\ Len(emitted') \in DOMAIN emitted' /\ emitted'[Len(emitted')] = s
  BY <1>5
<1>7. \A g \in Host : /\ Emitted(g) => Emitted(g)'
                      /\ Emitted(g)' => Emitted(g) \/ g = m.host
  BY <1>5, <1>6 DEF Emitted
<1>8. Emitted(m.host)'
  BY <1>5, <1>6 DEF Emitted
<1>9. \A g \in Host : Sent(g)' => Sent(g)
  BY <1>4, <1>7 DEF Sent, Emits
<1> QED
  BY <1>2, <1>3, <1>4, <1>7, <1>8, <1>9

LEMMA StagesKept ==
    ASSUME IInv, Next
    PROVE  Stages'
<1>0. TypeOK /\ Booted /\ Files /\ Stages /\ Owners /\ Packets
  BY DEF IInv
<1>1. ASSUME NEW h \in Host, Replay(h)
      PROVE  Stages'
  <2>0. Proceeds(h) /\ StageOf(h)
    BY <1>0, <1>1, ProceedsStep DEF Stages
  <2>1. ASSUME Running(h), NEW g \in Host \ {h}, Live(g)
        PROVE  host[g].cmd # host[h].cmd /\ host[g].cmd \in Command
    BY <1>0, <2>0, <2>1 DEF Owners, Live, Stages, StageOf
  <2>3. ASSUME StageOf(h)',
               \A g \in Host \ {h} : Live(g) =>
                  /\ journal'[host[g].cmd] = journal[host[g].cmd]
                  /\ durable'[host[g].cmd] = durable[host[g].cmd]
        PROVE  Stages'
    <3>1. ASSUME NEW g \in Host \ {h} PROVE StageOf(g)'
      BY <2>0, <2>3, SentMoves, OthersStand DEF Proceeds, Moves
    <3> QED
      BY <2>3, <3>1 DEF Stages
  <2>4. ASSUME NEW c \in Command, Reserve(h, c) PROVE Stages'
    <3>1. StageOf(h)'
      BY <1>0, <2>0, <2>4, ReserveStep, SentMoves
         DEF StageOf, Running, Same, TypeOK, Files
    <3>2. ASSUME journal[c] = "absent", NEW g \in Host, Live(g)
          PROVE  host[g].cmd # c /\ host[g].cmd \in Command
      BY <1>0, <3>2 DEF Live, Running, Stages, StageOf, Files, TypeOK, Run, Stage
    <3> QED
      BY <1>0, <2>3, <2>4, <3>1, <3>2, ReserveStep DEF TypeOK
  <2>5. ASSUME AskStatus(h) PROVE Stages'
    <3>1. StageOf(h)'
      BY <1>0, <2>0, <2>5, AskStatusStep, SentMoves
         DEF StageOf, Running, Same, TypeOK, Persist
    <3> QED
      BY <1>0, <2>1, <2>3, <2>5, <3>1, AskStatusStep DEF TypeOK, Persist, Running
  <2>6. ASSUME Prepare(h) PROVE Stages'
    <3>1. StageOf(h)'
      BY <1>0, <2>0, <2>6, PrepareStep, SentMoves DEF StageOf, Running, Same
    <3> QED
      BY <1>0, <2>3, <2>6, <3>1, PrepareStep
  <2>7. ASSUME AskAgain(h) PROVE Stages'
    <3>1. StageOf(h)'
      BY <1>0, <2>0, <2>7, AskAgainStep, SentMoves DEF StageOf, Running, Same
    <3> QED
      BY <1>0, <2>3, <2>7, <3>1, AskAgainStep
  <2>8. ASSUME Recheck(h) PROVE Stages'
    <3>1. StageOf(h)'
      BY <1>0, <2>0, <2>8, RecheckStep, SentMoves DEF StageOf, Running, Same, TypeOK
    <3> QED
      BY <1>0, <2>1, <2>3, <2>8, <3>1, RecheckStep DEF TypeOK, Running
  <2>9. ASSUME PersistIntent(h) PROVE Stages'
    <3>1. StageOf(h)'
      BY <1>0, <2>0, <2>9, PersistIntentStep, SentMoves
         DEF StageOf, Running, Same, TypeOK, Persist
    <3> QED
      BY <1>0, <2>1, <2>3, <2>9, <3>1, PersistIntentStep DEF TypeOK, Persist, Running
  <2>10. ASSUME Commit(h) PROVE Stages'
    <3>0. host[h].cmd \in Command
      BY <2>0, <2>10 DEF Commit, StageOf, Running
    <3>1. StageOf(h)'
      BY <1>0, <2>0, <2>10, <3>0, CommitStep, SentMoves DEF StageOf, Running, Same
    <3> QED
      BY <1>0, <2>3, <2>10, <3>0, <3>1, CommitStep
  <2>11. ASSUME Ends(h) PROVE Stages'
    <3>1. host'[h].outcome = "ok" => Emitted(h)
      BY <1>0, <2>11 DEF Ends, Packets
    <3>2. StageOf(h)'
      BY <1>0, <2>0, <2>11, <3>1, SentMoves DEF Ends, StageOf, Running, Same, disk
    <3> QED
      BY <2>3, <2>11, <3>2 DEF Ends, disk
  <2> QED
    BY <1>0, <1>1, <2>4, <2>5, <2>6, <2>7, <2>8, <2>9, <2>10, <2>11, EndStep DEF Replay
<1>2. ASSUME PowerLoss PROVE Stages'
  <2>1. ASSUME NEW h \in Host PROVE StageOf(h)'
    <3>1. PICK lost \in SUBSET Command :
             journal' = [c \in Command |-> IF c \in lost THEN durable[c] ELSE journal[c]]
      BY <1>0, <1>2, PowerLossStep
    <3>2. \A c \in Command : durable[c] = "consumed" => durable'[c] = "consumed"
      BY <1>0, <1>2, <3>1, PowerLossStep DEF Files
    <3>3. (Sent(h)' <=> Sent(h)) /\ (Emitted(h)' <=> Emitted(h)) /\ StageOf(h)
      BY <1>0, <1>2, PowerLossStep DEF Sent, Emitted, Stages
    <3>4. CASE host'[h] = host[h] /\ host[h].at \in {"new", "done"}
      BY <3>2, <3>3, <3>4 DEF StageOf, Running
    <3>5. CASE host'[h].at = "down" /\ host'[h].outcome = "none" /\ host'[h].cmd = host[h].cmd
      BY <3>2, <3>3, <3>5 DEF StageOf, Running
    <3> QED
      BY <1>0, <1>2, <3>4, <3>5, PowerLossStep DEF Same
  <2> QED
    BY <2>1 DEF Stages
<1>3. ASSUME UNCHANGED <<host, journal, durable>>,
             \A h \in Host : (Emitted(h) => Emitted(h)') /\ (Sent(h)' => Sent(h))
      PROVE  Stages'
  BY <1>0, <1>3, OthersStand DEF Stages
<1>4. ASSUME UNCHANGED <<host, journal, durable, emitted>>, commands' \subseteq commands
      PROVE  Stages'
  BY <1>3, <1>4 DEF Emitted, Sent
<1>5. ASSUME NEW m \in commands, Emits(m) PROVE Stages'
  BY <1>3, <1>5, SentOnce DEF Emits
<1> QED
  BY <1>0, <1>1, <1>2, <1>4, <1>5, TickStep, RejectedStep, StatusStep, PreparesStep, EmitsStep,
     OtherStep DEF Next, Node, Quiet, Prepares

LEMMA OwnersKept ==
    ASSUME IInv, Next
    PROVE  Owners'
<1>0. TypeOK /\ Booted /\ Files /\ Stages /\ Owners
  BY DEF IInv
<1>1. ASSUME \A g \in Host : Live(g)' => Live(g) /\ host'[g].cmd = host[g].cmd
      PROVE  Owners'
  BY <1>0, <1>1 DEF Owners
<1>2. ASSUME NEW h \in Host, Proceeds(h), host[h].at # "new"
      PROVE  Owners'
  <2>1. ASSUME NEW g \in Host, Live(g)' PROVE Live(g) /\ host'[g].cmd = host[g].cmd
    <3>1. CASE g = h
      BY <1>2, <2>1, <3>1, SentMoves
         DEF Live, Running, Proceeds, Same
    <3>2. CASE g # h
      BY <1>2, <2>1, <3>2, SentMoves DEF Live, Running, Proceeds, Moves
    <3> QED
      BY <3>1, <3>2
  <2> QED
    BY <1>1, <2>1
<1>3. ASSUME NEW h \in Host, NEW c \in Command, Reserve(h, c), Proceeds(h)
      PROVE  Owners'
  <2>1. ~Live(h) /\ ~Sent(h)' /\ host[h].at = "new"
    BY <1>0, <1>3, SentMoves DEF Reserve, Live, Running, Stages, StageOf
  <2>2. ASSUME NEW g \in Host \ {h}, Live(g)' PROVE Live(g) /\ host'[g] = host[g]
    BY <1>3, <2>2, SentMoves DEF Live, Running, Proceeds, Moves
  <2>3. CASE journal[c] = "absent" /\ host'[h].cmd = c
    <3>1. ASSUME NEW g \in Host, Live(g) PROVE host[g].cmd # c
      BY SMTT(30), <1>0, <2>3, <3>1 DEF Live, Running, Stages, StageOf, Files, TypeOK, Run, Stage
    <3> QED
      BY <1>0, <2>2, <2>3, <3>1 DEF Owners
  <2>4. CASE host'[h].at = "done"
    BY <1>0, <2>1, <2>2, <2>4 DEF Owners, Live, Running
  <2> QED
    BY <1>0, <1>3, <2>3, <2>4, ReserveStep
<1>4. ASSUME PowerLoss PROVE Owners'
  BY <1>0, <1>1, <1>4, PowerLossStep DEF Live, Running, Sent, Emitted, Same
<1>5. ASSUME UNCHANGED host, \A h \in Host : Sent(h)' => Sent(h)
      PROVE  Owners'
  BY <1>1, <1>5 DEF Live, Running
<1>6. ASSUME UNCHANGED <<host, emitted>>, commands' \subseteq commands
      PROVE  Owners'
  BY <1>5, <1>6 DEF Emitted, Sent
<1>7. ASSUME NEW m \in commands, Emits(m) PROVE Owners'
  BY <1>5, <1>7, SentOnce DEF Emits
<1>8. ASSUME NEW h \in Host, Replay(h) PROVE Owners'
  <2>1. Proceeds(h)
    BY <1>8, ProceedsStep
  <2> QED
    BY <1>2, <1>3, <1>8, <2>1
       DEF Replay, AskStatus, Prepare, AskAgain, Recheck, PersistIntent, Commit, Acknowledged,
           GiveUp, Crash
<1> QED
  BY <1>0, <1>4, <1>6, <1>7, <1>8, TickStep, RejectedStep, StatusStep, PreparesStep, EmitsStep,
     OtherStep DEF Next, Node, Quiet, Prepares

LEMMA IdsStay ==
    ASSUME IInv, Next, NEW h \in Host, Sent(h)
    PROVE  host'[h].cmd = host[h].cmd
<1>0. TypeOK /\ Booted /\ host[h].at # "new"
  BY DEF IInv, Stages, StageOf
<1>1. ASSUME NEW g \in Host, Replay(g) PROVE host'[h].cmd = host[h].cmd
  BY <1>0, <1>1, ProceedsStep DEF Proceeds, Moves, Same
<1>2. ASSUME PowerLoss PROVE host'[h].cmd = host[h].cmd
  BY <1>0, <1>2, PowerLossStep DEF Same
<1> QED
  BY <1>0, <1>1, <1>2, TickStep, RejectedStep, StatusStep, PreparesStep, EmitsStep,
     OtherStep DEF Next, Node, Quiet, Prepares, Emits

LEMMA PacketsKept ==
    ASSUME IInv, Next
    PROVE  Packets'
<1>0. TypeOK /\ Booted /\ Stages /\ Packets
  BY DEF IInv
<1>1. ASSUME NEW m \in commands, m.kind = "commit"
      PROVE  host'[m.host].cmd = m.id
  BY <1>0, <1>1, Kinds, IdsStay DEF Packets, Sent
<1>2. ASSUME NEW h \in Host, Replay(h)
      PROVE  Packets'
  <2>0. Proceeds(h)
    BY <1>2, ProceedsStep
  <2>1. ASSUME NEW m \in commands', m.kind = "commit" PROVE host'[m.host].cmd = m.id
    BY <1>1, <2>0, <2>1 DEF Proceeds, Same
  <2>2. ASSUME NEW e \in replies'
        PROVE  host'[e.host].at = e.stage /\ (e.stage = "commit" => Emitted(e.host)')
    <3>1. e \in replies /\ e.host \in Host \ {h}
      BY <1>0, <2>0 DEF Proceeds, Moves, TypeOK, Event
    <3>2. host'[e.host] = host[e.host] /\ (Emitted(e.host)' <=> Emitted(e.host))
      BY <2>0, <3>1, SentMoves DEF Proceeds, Moves
    <3> QED
      BY <1>0, <3>1, <3>2 DEF Packets
  <2> QED
    BY <2>1, <2>2 DEF Packets
<1>3. ASSUME PowerLoss PROVE Packets'
  BY <1>0, <1>1, <1>3, PowerLossStep DEF Packets
<1>4. ASSUME UNCHANGED host, commands' \subseteq commands,
             \A h \in Host : Emitted(h) => Emitted(h)',
             \A e \in replies' \ replies :
                host[e.host].at = e.stage /\ (e.stage = "commit" => Emitted(e.host)')
      PROVE  Packets'
  <2>1. ASSUME NEW e \in replies'
        PROVE  host'[e.host].at = e.stage /\ (e.stage = "commit" => Emitted(e.host)')
    <3>1. CASE e \in replies
      BY <1>0, <1>4, <3>1 DEF Packets, TypeOK, Event
    <3> QED
      BY <1>4, <3>1
  <2> QED
    BY <1>1, <1>4, <2>1 DEF Packets
<1>5. ASSUME NEW m \in commands, Prepares(m) PROVE Packets'
  <2>1. PICK expires \in Millis : Reply(m, "prepare", node.nonce + 1, expires)
    BY <1>5 DEF Prepares
  <2>2. node.nonce + 1 \in Nat
    BY <1>0 DEF TypeOK, Globals
  <2> QED
    BY <1>0, <1>4, <1>5, <2>1, <2>2, Replied DEF Prepares, Emitted
<1>6. 0 \in Nat /\ 0 \in Millis
  BY DEF Millis
<1>7. ASSUME NEW m \in commands, OnStatus(m) PROVE Packets'
  BY <1>0, <1>4, <1>6, <1>7, StatusStep, Replied DEF Quiet, Emitted
<1>8. ASSUME NEW m \in commands, Emits(m) PROVE Packets'
  <2>1. \A e \in replies' \ replies : host[e.host].at = e.stage /\ e.host = m.host
    BY <1>0, <1>6, <1>8, Replied DEF Emits
  <2> QED
    BY <1>4, <1>8, <2>1, SentOnce DEF Emits
<1>9. ASSUME Quiet, replies' = replies PROVE Packets'
  BY <1>4, <1>9 DEF Quiet, Emitted
<1>10. ASSUME Tick PROVE Packets'
  BY <1>0, <1>4, <1>10, TickStep DEF Emitted
<1> QED
  BY <1>0, <1>2, <1>3, <1>5, <1>7, <1>8, <1>9, <1>10, RejectedStep, PreparesStep, EmitsStep,
     OtherStep DEF Next, Node

\* Nothing but a commit that is taken adds to what was sent.
LEMMA EmittedOnly ==
    ASSUME IInv, Next
    PROVE  emitted' = emitted \/ \E m \in commands : Emits(m)
<1>0. TypeOK /\ Booted
  BY DEF IInv
<1>1. ASSUME NEW h \in Host, Replay(h) PROVE emitted' = emitted
  BY <1>1, ProceedsStep DEF Proceeds
<1>2. ASSUME PowerLoss PROVE emitted' = emitted
  BY <1>0, <1>2, PowerLossStep
<1> QED
  BY <1>0, <1>1, <1>2, TickStep, RejectedStep, StatusStep, PreparesStep, EmitsStep,
     OtherStep DEF Next, Node, Quiet, Prepares

\* What a commit appends, and what stays.
LEMMA Appended ==
    ASSUME IInv, NEW m \in commands, Emits(m)
    PROVE  /\ DOMAIN emitted' = DOMAIN emitted \cup {Len(emitted')}
           /\ Len(emitted') = Len(emitted) + 1
           /\ \A i \in DOMAIN emitted : emitted'[i] = emitted[i] /\ i # Len(emitted')
           /\ emitted'[Len(emitted')].cmd = m.id
           /\ emitted'[Len(emitted')].wave = m.host
<1> DEFINE s == [cmd |-> m.id, wave |-> node.prepared.wave]
<1>1. emitted' = Append(emitted, s) /\ s.cmd = m.id /\ s.wave = m.host
  BY SentOnce DEF Emits
<1>2. emitted \in Seq([cmd : Command, wave : Host]) /\ s \in [cmd : Command, wave : Host]
  <2>1. TypeOK
    BY DEF IInv
  <2>2. m.id \in Command /\ m.host \in Host /\ node.prepared.wave = m.host
    BY <2>1, Kinds, SentOnce DEF Emits
  <2> QED
    BY <2>1, <2>2 DEF TypeOK
<1> HIDE DEF s
<1> QED
  BY <1>1, <1>2

LEMMA EmittedType ==
    ASSUME TypeOK, NEW i \in DOMAIN emitted
    PROVE  emitted[i].cmd \in Command /\ emitted[i].wave \in Host
<1> DEFINE Shots == [cmd : Command, wave : Host]
<1>1. emitted \in Seq(Shots)
  BY DEF TypeOK
<1>2. \A s \in Shots : s.cmd \in Command /\ s.wave \in Host
  OBVIOUS
<1> HIDE DEF Shots
<1>3. emitted[i] \in Shots
  BY <1>1
<1> QED
  BY <1>2, <1>3

LEMMA RightWaveformKept ==
    ASSUME IInv, Next
    PROVE  RightWaveform'
<1>0. TypeOK /\ RightWaveform /\ Packets
  BY DEF IInv
<1>1. ASSUME NEW i \in DOMAIN emitted
      PROVE  host'[emitted[i].wave].cmd = emitted[i].cmd
  <2>1. emitted[i].wave \in Host
    BY <1>0, EmittedType
  <2> QED
    BY <1>0, <2>1, IdsStay DEF RightWaveform, Sent, Emitted
<1>2. CASE emitted' = emitted
  BY <1>1, <1>2 DEF RightWaveform
<1>3. ASSUME NEW m \in commands, Emits(m) PROVE RightWaveform'
  <2>1. host'[m.host].cmd = m.id
    BY <1>0, <1>3 DEF Packets, Emits
  <2> QED
    BY <1>1, <1>3, <2>1, Appended DEF RightWaveform
<1> QED
  BY <1>2, <1>3, EmittedOnly

\* A commit of an id that was sent is of the run that sent it.
LEMMA OneSender ==
    ASSUME IInv, NEW h \in Host, Live(h), NEW i \in DOMAIN emitted,
           emitted[i].cmd = host[h].cmd
    PROVE  emitted[i].wave = h /\ Sent(h)
<1>1. emitted[i].wave \in Host
  BY EmittedType DEF IInv
<1>2. Sent(emitted[i].wave)
  BY DEF Sent, Emitted
<1>3. host[emitted[i].wave].cmd = host[h].cmd
  BY DEF IInv, RightWaveform
<1> QED
  BY <1>1, <1>2, <1>3 DEF IInv, Owners, Live

LEMMA OnceKept ==
    ASSUME IInv, Next
    PROVE  Once'
<1>0. TypeOK /\ Booted /\ Once /\ Stages /\ Claims
  BY DEF IInv
<1>1. ASSUME NEW h \in Host, Replay(h)
      PROVE  Once'
  <2>0. Proceeds(h) /\ StageOf(h)
    BY <1>0, <1>1, ProceedsStep DEF Stages
  <2>1. ASSUME NEW m \in commands', NEW i \in DOMAIN emitted, m.kind = "commit",
               emitted[i].cmd = m.id
        PROVE  m \in commands
    <3>1. CASE m \notin commands
      <4>1. host[h].at = "publish" /\ host[h].cmd = m.id
        BY <2>0, <2>1, <3>1 DEF Proceeds
      <4>2. Live(h) /\ ~Sent(h)
        BY <2>0, <4>1 DEF Live, Running, StageOf
      <4> QED
        BY <2>1, <4>1, <4>2, OneSender
    <3> QED
      BY <3>1
  <2> QED
    BY <1>0, <2>0, <2>1 DEF Once, Proceeds
<1>2. ASSUME node'.prepared \in {None, node.prepared}, commands' \subseteq commands,
             emitted' = emitted
      PROVE  Once'
  BY <1>0, <1>2 DEF Once
<1>3. ASSUME NEW m \in commands, Prepares(m) PROVE Once'
  <2>1. ASSUME NEW k \in commands, k.kind = "commit"
        PROVE  node'.prepared.challenge # k.challenge
    <3>1. k.host \in Host /\ k.challenge \in Nat
      BY <1>0, <2>1, Kinds DEF CommitCommand
    <3>2. k.challenge <= node.nonce
      BY <1>0, <2>1, <3>1 DEF Claims, Claim
    <3> QED
      BY <1>0, <1>3, <3>1, <3>2 DEF Prepares, TypeOK, Globals
  <2> QED
    BY <1>3, <2>1 DEF Once, Prepares
<1>4. ASSUME NEW m \in commands, Emits(m) PROVE Once'
  BY <1>4 DEF Once, Emits
<1>5. ASSUME PowerLoss PROVE Once'
  BY <1>0, <1>2, <1>5, PowerLossStep
<1>6. ASSUME Tick PROVE Once'
  BY <1>0, <1>2, <1>6, TickStep
<1> QED
  BY <1>0, <1>1, <1>2, <1>3, <1>4, <1>5, <1>6, RejectedStep, StatusStep, PreparesStep, EmitsStep,
     OtherStep DEF Next, Node, Quiet

-----------------------------------------------------------------------------
(* The clocks *)

\* One tick brings a deadline nearer, and what is past further away.
LEMMA Downcount ==
    ASSUME NEW t \in Millis, NEW ms \in Millis, NEW next, next = (ms + 1) % Modulus
    PROVE  /\ (t - ms) % Modulus \in Millis /\ (t - next) % Modulus \in Millis
           /\ (t - ms) % Modulus = 0 => (t - next) % Modulus = Modulus - 1
           /\ (t - ms) % Modulus > 0 => (t - next) % Modulus = ((t - ms) % Modulus) - 1
<1>1. /\ t \in 0 .. Modulus - 1 /\ ms \in 0 .. Modulus - 1 /\ Modulus \in Nat /\ Modulus > 0
  BY DEF Millis
<1>2. (t - ms) % Modulus = IF t >= ms THEN t - ms ELSE t - ms + Modulus
  BY <1>1, Mod
<1>3. next = IF ms = Modulus - 1 THEN 0 ELSE ms + 1
  BY <1>1, Mod
<1>4. (t - next) % Modulus = IF t >= next THEN t - next ELSE t - next + Modulus
  BY <1>1, <1>3, Mod
<1> QED
  BY <1>1, <1>2, <1>3, <1>4 DEF Millis

LEMMA Upcount ==
    ASSUME NEW t \in Millis, NEW ms \in Millis
    PROVE  /\ (ms - t) % Modulus \in Millis
           /\ (ms - t) % Modulus < Modulus - 1 =>
                 (((ms + 1) % Modulus) - t) % Modulus = ((ms - t) % Modulus) + 1
<1>1. /\ t \in 0 .. Modulus - 1 /\ ms \in 0 .. Modulus - 1 /\ Modulus \in Nat /\ Modulus > 0
  BY DEF Millis
<1>2. (ms - t) % Modulus = IF ms >= t THEN ms - t ELSE ms - t + Modulus
  BY <1>1, Mod
<1> DEFINE next == (ms + 1) % Modulus
<1>3. next = IF ms = Modulus - 1 THEN 0 ELSE ms + 1
  BY <1>1, Mod
<1> HIDE DEF next
<1>4. (next - t) % Modulus = IF next >= t THEN next - t ELSE next - t + Modulus
  BY <1>1, <1>3, Mod
<1>5. /\ (ms - t) % Modulus \in 0 .. Modulus - 1
      /\ (ms - t) % Modulus < Modulus - 1 => (next - t) % Modulus = ((ms - t) % Modulus) + 1
  BY <1>1, <1>2, <1>3, <1>4
<1> QED
  BY <1>5 DEF next, Millis

\* The deadline a window after t, seen when t is no longer ago than the window or more.
LEMMA FromWindow ==
    ASSUME NEW t \in Millis, NEW ms \in Millis, NEW window \in 1 .. Deadline, NEW left, NEW past,
           left = (NodeDeadline(t, window) - ms) % Modulus, past = (ms - t) % Modulus
    PROVE  /\ past \in 0 .. Modulus - 1
           /\ left = IF past <= window THEN window - past ELSE window - past + Modulus
<1>1. /\ t \in 0 .. Modulus - 1 /\ ms \in 0 .. Modulus - 1 /\ Modulus \in Nat /\ Modulus > 0
      /\ window \in 1 .. Modulus - 1
  BY DEF Millis
<1> DEFINE d == (t + window) % Modulus
<1>2. d = IF t + window < Modulus THEN t + window ELSE t + window - Modulus
  BY <1>1, Mod
<1>3. left = IF d >= ms THEN d - ms ELSE d - ms + Modulus
  <2>1. d \in 0 .. Modulus - 1 /\ left = (d - ms) % Modulus
    BY <1>1, <1>2 DEF NodeDeadline
  <2> HIDE DEF d
  <2> QED
    BY <1>1, <2>1, Mod
<1>4. past = IF ms >= t THEN ms - t ELSE ms - t + Modulus
  BY <1>1, Mod
<1> HIDE DEF d
<1>5. /\ past \in 0 .. Modulus - 1
      /\ left = IF past <= window THEN window - past ELSE window - past + Modulus
  <2>1. CASE t + window < Modulus /\ ms >= t
    BY <1>1, <1>2, <1>3, <1>4, <2>1
  <2>2. CASE t + window < Modulus /\ ms < t
    BY <1>1, <1>2, <1>3, <1>4, <2>2
  <2>3. CASE t + window >= Modulus /\ ms >= t
    BY <1>1, <1>2, <1>3, <1>4, <2>3
  <2>4. CASE t + window >= Modulus /\ ms < t
    BY <1>1, <1>2, <1>3, <1>4, <2>4
  <2> QED
    BY <1>1, <2>1, <2>2, <2>3, <2>4
<1> QED
  BY <1>5

\* A lifetime from now is a lifetime away.
LEMMA Ahead ==
    ASSUME NEW ms \in Millis, NEW left,
           left = (((ms + Lifetime) % Modulus) - ms) % Modulus
    PROVE  left = Lifetime
<1>1. /\ ms \in 0 .. Modulus - 1 /\ Modulus \in Nat /\ Lifetime \in 0 .. Modulus - 1
  BY DEF Millis
<1> DEFINE d == (ms + Lifetime) % Modulus
<1>2. d = IF ms + Lifetime < Modulus THEN ms + Lifetime ELSE ms + Lifetime - Modulus
  BY <1>1, Mod
<1>3. d \in 0 .. Modulus - 1 /\ left = (d - ms) % Modulus
  BY <1>1, <1>2
<1> HIDE DEF d
<1>4. left = IF d >= ms THEN d - ms ELSE d - ms + Modulus
  BY <1>1, <1>3, Mod
<1> QED
  BY <1>1, <1>2, <1>4

\* What Remaining and Age are, and how they change with a tick.
LEMMA Ages ==
    ASSUME TypeOK, node.prepared # None
    PROVE  /\ node.prepared \in Preparation
           /\ Remaining(node.prepared.expires) \in Millis /\ Age \in Millis
           /\ Age = IF Remaining(node.prepared.expires) <= Lifetime
                    THEN Lifetime - Remaining(node.prepared.expires)
                    ELSE Lifetime - Remaining(node.prepared.expires) + Modulus
<1>1. node.prepared \in Preparation /\ node.millis \in Millis
  BY DEF TypeOK, Globals
<1>2. node.prepared.expires \in Millis
  BY <1>1 DEF Preparation
<1>3. Remaining(node.prepared.expires) \in Millis
  <2>1. node.prepared.expires - node.millis \in Int
    BY <1>1, <1>2 DEF Millis
  <2> QED
    BY <2>1, Mod DEF Remaining
<1> DEFINE r == Remaining(node.prepared.expires)
<1>4. r \in 0 .. Modulus - 1
  BY <1>3 DEF Millis
<1> HIDE DEF r
<1>5. (Lifetime - r) % Modulus = IF r <= Lifetime THEN Lifetime - r ELSE Lifetime - r + Modulus
  BY <1>4, Mod
<1>6. (Lifetime - r) % Modulus \in 0 .. Modulus - 1
  BY <1>4, <1>5
<1> QED
  BY <1>1, <1>3, <1>5, <1>6 DEF r, Age, Millis

\* A tick keeps a deadline timely.
LEMMA TimelyTick ==
    ASSUME NEW left \in Millis, NEW left2 \in Millis, NEW age \in Millis, age + 1 < Modulus,
           NEW since \in Int,
           left = 0 => left2 = Modulus - 1,
           left > 0 => left2 = left - 1,
           (left <= Deadline - since /\ left + age >= 1) \/ Modulus - left < age
    PROVE  \/ left2 <= Deadline - (since + 1) /\ left2 + (age + 1) >= 1
           \/ Modulus - left2 < age + 1
<1>1. /\ left \in 0 .. Modulus - 1 /\ left2 \in 0 .. Modulus - 1 /\ age \in 0 .. Modulus - 1
      /\ Modulus \in Nat /\ Deadline \in Nat
  BY DEF Millis
<1>2. CASE left = 0
  BY <1>1, <1>2
<1>3. CASE left > 0
  BY <1>1, <1>3
<1> QED
  BY <1>1, <1>2, <1>3

\* Right after the second look at the node's clock the deadline is timely.
LEMMA TimelyFirst ==
    ASSUME NEW t \in Millis, NEW ms \in Millis, NEW window \in 1 .. Deadline, NEW age \in Millis,
           (ms - t) % Modulus <= age,
           NEW left, left = (NodeDeadline(t, window) - ms) % Modulus
    PROVE  (left <= Deadline /\ left + age >= 1) \/ Modulus - left < age
<1>1. PICK past : past = (ms - t) % Modulus
  OBVIOUS
<1>2. /\ past \in 0 .. Modulus - 1 /\ past <= age
      /\ left = IF past <= window THEN window - past ELSE window - past + Modulus
  BY <1>1, FromWindow
<1>3. age \in 0 .. Modulus - 1 /\ Modulus \in Nat /\ Deadline \in Nat
  BY DEF Millis
<1>4. CASE past <= window
  BY <1>2, <1>3, <1>4
<1>5. CASE past > window
  BY <1>2, <1>3, <1>5
<1> QED
  BY <1>2, <1>4, <1>5

\* While the preparation is the same and the clock does not move, so are the ages.
LEMMA ClocksStand ==
    ASSUME node'.millis = node.millis, node'.prepared = node.prepared, now' = now
    PROVE  /\ \A t : Remaining(t)' = Remaining(t)
           /\ Age' = Age /\ \A deadline, seen : Timely(deadline, seen)' = Timely(deadline, seen)
  BY DEF Remaining, Age, Timely

LEMMA SeenKept ==
    ASSUME IInv, Next
    PROVE  \A h \in Host : host'[h].seen <= now'
<1>0. /\ TypeOK /\ Booted /\ now \in Time
      /\ \A h \in Host : host[h].seen \in Time /\ host[h].seen <= now
  <2>1. TypeOK /\ Booted /\ Clocks
    BY DEF IInv
  <2>2. \A h \in Host : host[h] \in Run
    BY <2>1 DEF TypeOK
  <2> QED
    BY <2>1, <2>2 DEF TypeOK, Clocks, Run
<1>1. ASSUME NEW h \in Host, Replay(h) PROVE \A g \in Host : host'[g].seen <= now'
  <2>1. Proceeds(h) /\ (Recheck(h) => host'[h].seen = now)
    BY <1>0, <1>1, ProceedsStep, RecheckStep
  <2> QED
    BY <1>0, <2>1 DEF Proceeds, Moves, Same, Time
<1>2. ASSUME PowerLoss PROVE \A g \in Host : host'[g].seen <= now'
  BY <1>0, <1>2, PowerLossStep DEF Same
<1>3. ASSUME Tick PROVE \A g \in Host : host'[g].seen <= now'
  BY <1>0, <1>3, TickStep DEF Time
<1> QED
  BY <1>0, <1>1, <1>2, <1>3, RejectedStep, StatusStep, PreparesStep, EmitsStep,
     OtherStep DEF Next, Node, Quiet, Prepares, Emits

LEMMA ClocksKept ==
    ASSUME IInv, Next
    PROVE  Clocks'
<1>0. TypeOK /\ Booted /\ Claims /\ Stages /\ Packets /\ Clocks
  BY DEF IInv
<1> DEFINE Dated == HalfTurn /\ Looked /\ RunsTimely /\ CommitsTimely
<1>1. ASSUME node'.prepared # None => Dated' PROVE Clocks'
  BY <1>1, SeenKept DEF Clocks
<1>2. ASSUME NEW h \in Host, Replay(h), node.prepared # None
      PROVE  Dated'
  <2>0. Proceeds(h) /\ Dated /\ (node' = node /\ now' = now)
    BY <1>0, <1>2, ProceedsStep DEF Proceeds, Clocks
  <2>1. /\ \A t : Remaining(t)' = Remaining(t)
        /\ Age' = Age /\ \A deadline, seen : Timely(deadline, seen)' = Timely(deadline, seen)
    BY <2>0, ClocksStand
  <2>2. HalfTurn'
    BY <2>0, <2>1 DEF HalfTurn
  <2>3. Looked'
    <3>1. \A e \in replies' : e \in replies /\ e.host \in Host \ {h}
      BY <1>0, <2>0 DEF Proceeds, Moves, TypeOK, Event
    <3> QED
      BY <2>0, <2>1, <3>1 DEF Looked, Proceeds, Moves
  <2>4. RunsTimely'
    <3>1. ASSUME NEW g \in Host \ {h}, host'[g].at \in {"persist", "publish"},
                 host'[g].challenge = node.prepared.challenge
          PROVE  Timely(host'[g].deadline, host'[g].seen)
      BY <2>0, <3>1 DEF RunsTimely, Proceeds, Moves
    <3>2. ASSUME Recheck(h), host'[h].challenge = node.prepared.challenge
          PROVE  Timely(host'[h].deadline, host'[h].seen)
      <4>1. PICK e \in replies, window \in 1 .. Deadline :
               /\ e.host = h /\ e.stage = "recheck"
               /\ host'[h].deadline = NodeDeadline(e.millis, window)
        BY <1>0, <3>2, RecheckStep
      <4>2. host'[h].seen = now /\ host[h].challenge = node.prepared.challenge
        BY <1>0, <3>2, RecheckStep DEF Same
      <4>3. e.millis \in Millis /\ node.millis \in Millis /\ Age \in Millis /\ now \in Nat
        BY <1>0, <1>2, Ages DEF TypeOK, Event, Globals, Time
      <4>4. (node.millis - e.millis) % Modulus <= Age
        BY <2>0, <4>1, <4>2 DEF Looked
      <4>5. PICK left : left = (NodeDeadline(e.millis, window) - node.millis) % Modulus
        OBVIOUS
      <4>6. (left <= Deadline /\ left + Age >= 1) \/ Modulus - left < Age
        BY <4>3, <4>4, <4>5, TimelyFirst
      <4>7. Remaining(host'[h].deadline) = left /\ now - host'[h].seen = 0
        BY <4>1, <4>2, <4>3, <4>5 DEF Remaining
      <4>8. Deadline - (now - host'[h].seen) = Deadline
        BY <4>7
      <4> QED
        BY <4>6, <4>7, <4>8 DEF Timely
    <3>3. ASSUME host[h].at = "persist", Same(h, {"challenge", "deadline"}),
                 host'[h].challenge = node.prepared.challenge
          PROVE  Timely(host'[h].deadline, host'[h].seen)
      BY <2>0, <3>3 DEF RunsTimely, Proceeds, Same, Recheck
    <3> QED
      BY <2>0, <2>1, <3>1, <3>2, <3>3 DEF RunsTimely, Proceeds
  <2>5. CommitsTimely'
    <3>1. ASSUME NEW m \in commands, m.kind = "commit", m.challenge = node.prepared.challenge
          PROVE  Timely(m.deadline, host'[m.host].seen)
      <4>1. m.host \in Host /\ Sent(m.host)
        BY <1>0, <3>1, Kinds DEF Sent
      <4>2. host[m.host].at \in {"commit", "done", "down"}
        BY <1>0, <4>1 DEF Stages, StageOf
      <4>3. host'[m.host].seen = host[m.host].seen
        BY <2>0, <4>1, <4>2 DEF Proceeds, Moves, Same, Recheck
      <4> QED
        BY <2>0, <3>1, <4>3 DEF CommitsTimely
    <3>2. ASSUME NEW m \in commands' \ commands, m.kind = "commit",
                 m.challenge = node.prepared.challenge
          PROVE  Timely(m.deadline, host'[m.host].seen)
      BY <2>0, <3>2 DEF RunsTimely, Proceeds, Same, Recheck
    <3> QED
      BY <2>0, <2>1, <3>1, <3>2 DEF CommitsTimely
  <2> QED
    BY <2>2, <2>3, <2>4, <2>5
<1>3. ASSUME PowerLoss, node.prepared # None PROVE Dated'
  <2>0. Dated /\ node' = node /\ now' = now /\ commands' = commands /\ replies' = {}
    BY <1>0, <1>3, PowerLossStep DEF Clocks
  <2>1. /\ \A t : Remaining(t)' = Remaining(t)
        /\ Age' = Age /\ \A deadline, seen : Timely(deadline, seen)' = Timely(deadline, seen)
    BY <2>0, ClocksStand
  <2>2. \A h \in Host : host'[h].seen = host[h].seen /\ host'[h].at \notin {"persist", "publish"}
    BY <1>0, <1>3, PowerLossStep DEF Same
  <2>3. \A m \in commands : m.host \in Host
    BY <1>0, Kinds
  <2> QED
    BY <2>0, <2>1, <2>2, <2>3 DEF HalfTurn, Looked, RunsTimely, CommitsTimely
<1>4. ASSUME Quiet, node'.prepared # None,
             \A e \in replies' \ replies : e.stage = "recheck" => e.millis = node.millis
      PROVE  Dated'
  <2>0. /\ Dated /\ node'.prepared = node.prepared /\ node'.millis = node.millis
        /\ UNCHANGED <<now, host>> /\ commands' \subseteq commands /\ node.prepared # None
    BY <1>0, <1>4 DEF Quiet, Clocks
  <2>1. /\ \A t : Remaining(t)' = Remaining(t)
        /\ Age' = Age /\ \A deadline, seen : Timely(deadline, seen)' = Timely(deadline, seen)
    BY <2>0, ClocksStand
  <2>2. ASSUME NEW e \in replies' \ replies, e.stage = "recheck"
        PROVE  (node.millis - e.millis) % Modulus <= Age
    <3>1. node.millis \in Nat /\ Age \in Nat /\ e.millis = node.millis
      BY <1>0, <1>4, <2>0, <2>2, Ages DEF TypeOK, Globals, Millis
    <3>2. node.millis - e.millis = 0 /\ 0 % Modulus = 0
      BY <3>1, Mod
    <3> QED
      BY <3>1, <3>2
  <2> QED
    BY <2>0, <2>1, <2>2 DEF HalfTurn, Looked, RunsTimely, CommitsTimely
<1>5. ASSUME NEW m \in commands, OnStatus(m), node'.prepared # None PROVE Dated'
  <2>1. 0 \in Nat /\ 0 \in Millis
    BY DEF Millis
  <2> QED
    BY <1>0, <1>4, <1>5, <2>1, StatusStep, Replied
<1>6. ASSUME NEW m \in commands, Prepares(m) PROVE Dated'
  <2>1. node.nonce \in Nat /\ node.millis \in Millis
    BY <1>0 DEF TypeOK, Globals
  <2>2. node'.prepared.challenge = node.nonce + 1 /\ UNCHANGED host /\ commands' \subseteq commands
    BY <1>6 DEF Prepares
  <2>3. ASSUME NEW h \in Host, host[h].at \in {"recheck", "persist", "publish"}
        PROVE  host[h].challenge # node.nonce + 1
    <3>1. host[h].challenge \in Nat
      BY <1>0 DEF TypeOK, Run
    <3> QED
      BY <1>0, <2>1, <2>3, <3>1 DEF Claims, Claim
  <2>4. ASSUME NEW k \in commands, k.kind = "commit" PROVE k.challenge # node.nonce + 1
    <3>1. k.host \in Host /\ k.challenge \in Nat
      BY <1>0, <2>4, Kinds DEF CommitCommand
    <3> QED
      BY <1>0, <2>1, <2>4, <3>1 DEF Claims, Claim
  <2>5. ASSUME NEW e \in replies', e.stage = "recheck"
        PROVE  host[e.host].challenge # node.nonce + 1
    <3>1. PICK expires \in Millis : Reply(m, "prepare", node.nonce + 1, expires)
      BY <1>6 DEF Prepares
    <3>2. node.nonce + 1 \in Nat
      BY <2>1
    <3>3. e \in replies
      BY <1>0, <2>5, <3>1, <3>2, Replied
    <3>4. e.host \in Host /\ host[e.host].at = "recheck"
      BY <1>0, <2>5, <3>3 DEF TypeOK, Event, Packets
    <3> QED
      BY <2>3, <3>4
  <2>6. HalfTurn'
    <3>1. PICK left : left = (((node.millis + Lifetime) % Modulus) - node.millis) % Modulus
      OBVIOUS
    <3>2. left = Lifetime
      BY <2>1, <3>1, Ahead
    <3>3. Remaining(node.prepared.expires)' = left
      BY <1>6, <3>1 DEF Prepares, Remaining
    <3> QED
      BY <3>2, <3>3 DEF HalfTurn
  <2> QED
    BY <2>2, <2>3, <2>4, <2>5, <2>6 DEF Looked, RunsTimely, CommitsTimely
<1>7. ASSUME Tick, node'.prepared # None PROVE Dated'
  <2>0. /\ Dated /\ node'.prepared = node.prepared /\ node'.millis = (node.millis + 1) % Modulus
        /\ now' = now + 1 /\ UNCHANGED <<host, commands, replies>> /\ node.prepared # None
        /\ Remaining(node.prepared.expires) # Modulus \div 2
    BY <1>0, <1>7, TickStep DEF Clocks
  <2>1. node.millis \in Millis /\ now \in Nat
    BY <1>0 DEF TypeOK, Globals, Time
  <2>2. ASSUME NEW t \in Millis
        PROVE  /\ Remaining(t) \in Millis /\ Remaining(t)' \in Millis
               /\ Remaining(t) = 0 => Remaining(t)' = Modulus - 1
               /\ Remaining(t) > 0 => Remaining(t)' = Remaining(t) - 1
    <3>1. /\ Remaining(t) = (t - node.millis) % Modulus
          /\ Remaining(t)' = (t - node'.millis) % Modulus
      BY Zenon DEF Remaining
    <3> QED
      BY <2>0, <2>1, <3>1, Downcount
  <2>3. Age \in Millis /\ Age + 1 < Modulus /\ Age' = Age + 1 /\ HalfTurn'
    <3>1. node.prepared.expires \in Millis
      BY <1>0, <2>0, Ages DEF Preparation
    <3> DEFINE r == Remaining(node.prepared.expires)
    <3>2. /\ r \in Millis /\ (r = 0 => r' = Modulus - 1) /\ (r > 0 => r' = r - 1)
          /\ r \in 0 .. Lifetime \cup (Modulus \div 2) .. (Modulus - 1) /\ r # Modulus \div 2
      BY <2>0, <2>2, <3>1 DEF HalfTurn
    <3>3. Age = IF r <= Lifetime THEN Lifetime - r ELSE Lifetime - r + Modulus
      BY <1>0, <2>0, Ages
    <3>4. Age' = (Lifetime - r') % Modulus /\ (HalfTurn' <=>
              r' \in 0 .. Lifetime \cup (Modulus \div 2) .. (Modulus - 1))
      BY <2>0 DEF Age, HalfTurn
    <3> HIDE DEF r
    <3>5. r \in 0 .. Modulus - 1 /\ Modulus \in Nat /\ Lifetime \in Nat /\ Lifetime > 1
      BY <3>2 DEF Millis
    <3>6. r' \in 0 .. Lifetime \cup (Modulus \div 2) .. (Modulus - 1) /\ r' \in 0 .. Modulus - 1
      BY <3>2, <3>5
    <3>7. Age' = IF r' <= Lifetime THEN Lifetime - r' ELSE Lifetime - r' + Modulus
      BY <3>4, <3>5, <3>6, Mod
    <3>8. Age \in 0 .. Modulus - 1 /\ Age + 1 < Modulus /\ Age' = Age + 1
      <4>1. CASE r = 0
        BY <3>2, <3>3, <3>5, <3>7, <4>1
      <4>2. CASE r > 0 /\ r <= Lifetime
        BY <3>2, <3>3, <3>5, <3>7, <4>2
      <4>3. CASE r > Lifetime
        BY <3>2, <3>3, <3>5, <3>7, <4>3
      <4> QED
        BY <3>5, <4>1, <4>2, <4>3
    <3> QED
      BY <3>4, <3>6, <3>8 DEF Millis
  <2>4. ASSUME NEW deadline \in Millis, NEW seen \in Nat, Timely(deadline, seen)
        PROVE  Timely(deadline, seen)'
    <3>1. now - seen \in Int /\ now' - seen = (now - seen) + 1
      BY <2>0, <2>1
    <3>2. \/ /\ Remaining(deadline)' <= Deadline - ((now - seen) + 1)
             /\ Remaining(deadline)' + (Age + 1) >= 1
          \/ Modulus - Remaining(deadline)' < Age + 1
      BY <2>2, <2>3, <2>4, <3>1, TimelyTick DEF Timely
    <3> QED
      BY <2>3, <3>1, <3>2 DEF Timely
  <2>5. Looked'
    <3>1. ASSUME NEW e \in replies, (node.millis - e.millis) % Modulus <= Age
          PROVE  (node'.millis - e.millis) % Modulus <= Age'
      <4>1. e.millis \in Millis
        BY <1>0 DEF TypeOK, Event
      <4>2. PICK past : past = (node.millis - e.millis) % Modulus
        OBVIOUS
      <4>3. past \in Millis /\ (past < Modulus - 1 =>
                                  (node'.millis - e.millis) % Modulus = past + 1)
        BY <2>0, <2>1, <4>1, <4>2, Upcount
      <4>4. past \in Nat /\ Age \in Nat /\ Modulus \in Nat
        BY <2>3, <4>3 DEF Millis
      <4> QED
        BY <2>3, <3>1, <4>2, <4>3, <4>4
    <3> QED
      BY <2>0, <3>1 DEF Looked
  <2>6. RunsTimely'
    <3>1. \A h \in Host : host[h].deadline \in Millis /\ host[h].seen \in Nat
      BY <1>0 DEF TypeOK, Run, Time
    <3> QED
      BY <2>0, <2>4, <3>1 DEF RunsTimely
  <2>7. CommitsTimely'
    <3>1. \A m \in commands : m.kind = "commit" =>
             m.deadline \in Millis /\ host[m.host].seen \in Nat
      BY SMTT(30), <1>0, Kinds DEF TypeOK, Run, Time
    <3> QED
      BY <2>0, <2>4, <3>1 DEF CommitsTimely
  <2> QED
    BY <2>3, <2>5, <2>6, <2>7
<1>8. ASSUME NEW m \in commands, Emits(m) PROVE node'.prepared = None
  BY <1>8 DEF Emits
<1>9. ASSUME Quiet, replies' = replies, node'.prepared # None PROVE Dated'
  BY <1>4, <1>9
<1> QED
  <2>1. ASSUME NEW h \in Host, Replay(h) PROVE Clocks'
    BY <1>1, <1>2, <2>1, ProceedsStep DEF Proceeds
  <2>2. ASSUME PowerLoss PROVE Clocks'
    BY <1>0, <1>1, <1>3, <2>2, PowerLossStep
  <2>3. ASSUME Node PROVE Clocks'
    BY <1>0, <1>1, <1>5, <1>6, <1>8, <1>9, <2>3, RejectedStep, PreparesStep, EmitsStep, OtherStep
       DEF Node
  <2>4. ASSUME Tick PROVE Clocks'
    BY <1>1, <1>7, <2>4
  <2> QED
    BY <2>1, <2>2, <2>3, <2>4 DEF Next

-----------------------------------------------------------------------------
(* The invariant *)

LEMMA InvInit == Init => IInv
<1> SUFFICES ASSUME Init PROVE IInv
  OBVIOUS
<1>1. PICK ms \in {0, Modulus - 1} :
         node = [boot |-> 1, millis |-> ms, armed |-> FALSE, prepared |-> None,
                 nonce |-> 0, recent |-> <<>>]
  BY DEF Init
<1>2. /\ node \in Globals /\ Len(node.recent) <= Capacity /\ node.prepared = None
      /\ node.boot = 1 /\ node.nonce = 0
  <2>1. ms \in Millis /\ 1 \in Boot /\ 0 \in 0 .. MaxChallenge /\ <<>> \in Seq(CommandId)
        /\ Len(<<>>) = 0
    BY DEF Millis, Boot
  <2> QED
    BY <1>1, <2>1 DEF Globals
<1>3. /\ New \in Run /\ New.at = "new" /\ New.cmd = None /\ New.outcome = "none" /\ New.seen = 0
  BY NewRun DEF New
<1>4. /\ host \in [Host -> Run] /\ \A h \in Host : host[h] = New
      /\ \A c \in Command : journal[c] = "absent" /\ durable[c] = "absent"
      /\ now = 0 /\ commands = {} /\ replies = {} /\ emitted = <<>> /\ incidents = 0
      /\ DOMAIN emitted = {}
  BY <1>3 DEF Init
<1>5. TypeOK
  <2>1. "absent" \in File /\ 0 \in Time /\ <<>> \in Seq([cmd : Command, wave : Host])
    BY DEF File, Time
  <2>2. journal \in [Command -> File] /\ durable \in [Command -> File]
    BY <2>1 DEF Init
  <2> QED
    BY <1>2, <1>4, <2>1, <2>2 DEF TypeOK
<1>6. \A h \in Host : ~Emitted(h) /\ ~Sent(h) /\ ~Running(h)
  BY <1>3, <1>4 DEF Emitted, Sent, Running
<1>7. Claims
  BY <1>2, <1>3, <1>4 DEF Claims, Claim
<1>8. Files
  BY <1>4 DEF Files
<1>9. Stages /\ Owners
  BY <1>3, <1>4, <1>6 DEF Stages, StageOf, Owners, Live
<1>10. Booted /\ Packets /\ Once /\ RightWaveform /\ Clocks
  BY <1>2, <1>3, <1>4 DEF Booted, Packets, Once, RightWaveform, Clocks
<1> QED
  BY <1>5, <1>7, <1>8, <1>9, <1>10 DEF IInv

LEMMA InvStep == IInv /\ [Next]_vars => IInv'
<1> SUFFICES ASSUME IInv, [Next]_vars PROVE IInv'
  OBVIOUS
<1>1. CASE Next
  BY <1>1, TypesKept, ClaimsKept, FilesKept, StagesKept, OwnersKept, PacketsKept, OnceKept,
     RightWaveformKept, ClocksKept DEF IInv
<1>2. CASE UNCHANGED vars
  <2>1. /\ UNCHANGED <<now, host, journal, durable, node, commands, replies, emitted, incidents>>
        /\ IInv
    BY <1>2 DEF vars, disk
  <2>2. TypeOK' /\ Booted' /\ Files'
    BY <2>1 DEF IInv, TypeOK, Booted, Files
  <2>3. \A h \in Host : /\ (Emitted(h)' <=> Emitted(h)) /\ (Sent(h)' <=> Sent(h))
                        /\ (Running(h)' <=> Running(h))
    BY <2>1 DEF Emitted, Sent, Running
  <2>4. Stages' /\ Owners'
    BY <2>1, <2>3 DEF IInv, Stages, StageOf, Owners, Live
  <2>5. Claims'
    BY <2>1 DEF IInv, Claims, Claim
  <2>6. Packets' /\ Once' /\ RightWaveform'
    BY <2>1 DEF IInv, Packets, Emitted, Once, RightWaveform
  <2>7. Clocks'
    BY <2>1, ClocksStand DEF IInv, Clocks, HalfTurn, Looked, RunsTimely, CommitsTimely
  <2> QED
    BY <2>2, <2>4, <2>5, <2>6, <2>7 DEF IInv
<1> QED
  BY <1>1, <1>2

LEMMA Invariance == Spec => []IInv
  BY InvInit, InvStep, PTL DEF Spec

-----------------------------------------------------------------------------
(* The theorems *)

\* Every variable keeps its type, and the deduplicator its length.
THEOREM TypeCorrect == Spec => []TypeOK
<1>1. IInv => TypeOK
  BY DEF IInv
<1> QED
  BY <1>1, Invariance, PTL

\* What a commit sends is the waveform of the run that owns its id.
THEOREM OwnWaveform == Spec => []RightWaveform
<1>1. IInv => RightWaveform
  BY DEF IInv
<1> QED
  BY <1>1, Invariance, PTL

\* "ok" means that it was sent, and an error that it was not and never will be.
THEOREM OutcomeTrue == Spec => []OutcomeHonest
<1>1. IInv => OutcomeHonest
  BY DEF IInv, Stages, StageOf, Sent, Emitted, OutcomeHonest
<1> QED
  BY <1>1, Invariance, PTL

\* What is taken was looked at less than Deadline ago.
LEMMA EmitsInTime ==
    ASSUME IInv, NEW m \in commands, Emits(m)
    PROVE  now - host[m.host].seen < Deadline
<1>0. TypeOK /\ Clocks
  BY DEF IInv
<1>1. /\ node.prepared # None /\ node.prepared.challenge = m.challenge /\ m.kind = "commit"
      /\ BeforeDeadline(node.prepared.expires) /\ Remaining(m.deadline) \in 1 .. Lifetime
  BY <1>0, StillPrepared DEF Emits, Takes, Parsed
<1>2. Timely(m.deadline, host[m.host].seen) /\ HalfTurn
  BY <1>0, <1>1 DEF Clocks, CommitsTimely
<1>3. now \in Nat /\ host[m.host].seen \in Nat
  <2>1. m.host \in Host
    BY <1>0, Kinds
  <2>2. host[m.host] \in Run
    BY <1>0, <2>1 DEF TypeOK
  <2> QED
    BY <1>0, <2>2 DEF TypeOK, Run, Time
<1> DEFINE left == Remaining(m.deadline)
           r == Remaining(node.prepared.expires)
<1>4. r \in 1 .. Lifetime
  BY <1>1, <1>2 DEF BeforeDeadline, HalfTurn
<1>5. Age = IF r <= Lifetime THEN Lifetime - r ELSE Lifetime - r + Modulus
  BY <1>0, <1>1, Ages
<1>6. \/ left <= Deadline - (now - host[m.host].seen)
      \/ Modulus - left < Age
  BY <1>2 DEF Timely
<1>7. left \in 1 .. Lifetime
  BY <1>1
<1> HIDE DEF left, r
<1> QED
  BY <1>3, <1>4, <1>5, <1>6, <1>7

\* However late or often a commit arrives, the diode sends within Deadline of
\* the last look at the node's clock, or never: also when millis() wraps.
THEOREM SendsInTime == Spec => NeverStale
<1>1. ASSUME IInv, [Next]_vars, emitted' # emitted
      PROVE  now - host[emitted'[Len(emitted')].wave].seen < Deadline
  <2>1. Next
    BY <1>1 DEF vars
  <2>2. PICK m \in commands : Emits(m)
    BY <1>1, <2>1, EmittedOnly
  <2> QED
    BY <1>1, <2>2, Appended, EmitsInTime
<1>2. IInv /\ [Next]_vars =>
         [emitted' # emitted => now - host[emitted'[Len(emitted')].wave].seen < Deadline]_vars
  BY <1>1
<1> QED
  BY <1>2, Invariance, PTL DEF Spec, NeverStale

-----------------------------------------------------------------------------
(* Refinement of OneShot *)

Consumed == {c \in Command : durable[c] = "consumed"}
Shots == [i \in DOMAIN emitted |-> emitted[i].cmd]

\* PersistIntent uses the id up, and sends nothing.
LEMMA PersistConsumes ==
    ASSUME IInv, NEW h \in Host, PersistIntent(h)
    PROVE  Shot!Next
<1>0. TypeOK /\ StageOf(h)
  BY DEF IInv, Stages
<1>1. /\ host[h].at = "persist" /\ host[h].cmd \in Command /\ durable[host[h].cmd] = "reserved"
      /\ durable' = [durable EXCEPT ![host[h].cmd] = "consumed"] /\ emitted' = emitted
  BY <1>0, PersistIntentStep DEF StageOf, Running, Persist
<1>2. Consumed' = Consumed \cup {host[h].cmd} /\ host[h].cmd \notin Consumed
  BY <1>0, <1>1 DEF Consumed, TypeOK
<1>3. Shots' = Shots
  BY <1>1 DEF Shots
<1> QED
  BY <1>1, <1>2, <1>3 DEF Shot!Next, Shot!Consume, Consumed, Shots

\* A commit that is taken sends an id that is used up and was never sent.
LEMMA CommitEmits ==
    ASSUME IInv, NEW m \in commands, Emits(m)
    PROVE  Shot!Next
<1>0. TypeOK /\ Stages /\ Packets /\ Once
  BY DEF IInv
<1>1. m.kind = "commit" /\ m.id \in Command /\ m.host \in Host
  BY <1>0, Kinds DEF Emits
<1>2. m.id \in Consumed
  BY <1>0, <1>1 DEF Sent, Stages, StageOf, Packets, Consumed
<1>3. \A i \in DOMAIN emitted : emitted[i].cmd # m.id
  BY <1>0, <1>1, StillPrepared DEF Once, Emits, Takes
<1>4. Consumed' = Consumed
  BY DEF Consumed, Emits
<1>5. Shots' = Append(Shots, m.id)
  <2>1. /\ DOMAIN emitted = 1 .. Len(emitted) /\ Len(emitted) \in Nat
        /\ Shots \in Seq(Command) /\ Len(Shots) = Len(emitted)
        /\ \A i \in 1 .. Len(emitted) : Shots[i] = emitted[i].cmd
    <3>1. DOMAIN emitted = 1 .. Len(emitted) /\ Len(emitted) \in Nat
      BY <1>0 DEF TypeOK
    <3>2. \A i \in 1 .. Len(emitted) : emitted[i].cmd \in Command
      BY <1>0, <3>1, EmittedType
    <3> QED
      BY <3>1, <3>2 DEF Shots
  <2>2. /\ DOMAIN emitted' = 1 .. Len(emitted) + 1
        /\ \A i \in 1 .. Len(emitted) : emitted'[i] = emitted[i]
        /\ emitted'[Len(emitted) + 1].cmd = m.id
    BY <2>1, Appended
  <2>3. /\ DOMAIN Append(Shots, m.id) = 1 .. Len(emitted) + 1
        /\ \A i \in 1 .. Len(emitted) : Append(Shots, m.id)[i] = Shots[i]
        /\ Append(Shots, m.id)[Len(emitted) + 1] = m.id
    BY <1>1, <2>1
  <2>4. Append(Shots, m.id) = [i \in 1 .. Len(emitted) + 1 |-> Append(Shots, m.id)[i]]
    BY <1>1, <2>1, <2>3
  <2>5. Shots' = [i \in 1 .. Len(emitted) + 1 |-> emitted'[i].cmd]
    BY <2>2 DEF Shots
  <2>6. \A i \in 1 .. Len(emitted) + 1 : emitted'[i].cmd = Append(Shots, m.id)[i]
    BY <2>1, <2>2, <2>3
  <2> QED
    BY <2>4, <2>5, <2>6
<1>6. \A i \in DOMAIN Shots : Shots[i] # m.id
  BY <1>3 DEF Shots
<1> QED
  BY <1>1, <1>2, <1>4, <1>5, <1>6 DEF Shot!Next, Shot!Emit, Consumed, Shots

\* All other steps change neither which ids are used up nor what was sent.
LEMMA OthersStutter ==
    ASSUME IInv, Next, ~\E m \in commands : Emits(m), ~\E h \in Host : PersistIntent(h)
    PROVE  Consumed' = Consumed /\ Shots' = Shots
<1>0. TypeOK /\ Booted /\ Files /\ Stages
  BY DEF IInv
<1>1. Shots' = Shots
  <2>1. emitted' = emitted
    BY EmittedOnly
  <2> QED
    BY <2>1 DEF Shots
<1>2. ASSUME durable' = durable PROVE Consumed' = Consumed
  BY <1>2 DEF Consumed
<1>3. ASSUME NEW h \in Host, Replay(h) PROVE Consumed' = Consumed
  <2>1. ASSUME AskStatus(h) PROVE Consumed' = Consumed
    <3>1. /\ host[h].at = "reserve" /\ host[h].cmd \in Command
          /\ durable[host[h].cmd] = "absent"
          /\ durable' = [durable EXCEPT ![host[h].cmd] = "reserved"]
      BY <1>0, <2>1, AskStatusStep DEF Stages, StageOf, Running, Persist
    <3> QED
      BY <1>0, <3>1 DEF Consumed, TypeOK
  <2> QED
    BY <1>2, <1>3, <2>1
       DEF Replay, Reserve, Prepare, AskAgain, Recheck, Commit, Acknowledged, GiveUp, Crash, disk
<1>4. ASSUME PowerLoss PROVE Consumed' = Consumed
  <2>1. PICK lost \in SUBSET Command :
           journal' = [c \in Command |-> IF c \in lost THEN durable[c] ELSE journal[c]]
    BY <1>0, <1>4, PowerLossStep
  <2>2. durable' = journal'
    BY <1>0, <1>4, PowerLossStep
  <2>3. \A c \in Command : durable'[c] = "consumed" <=> durable[c] = "consumed"
    BY <1>0, <2>1, <2>2 DEF Files
  <2> QED
    BY <2>3 DEF Consumed
<1> QED
  BY <1>0, <1>1, <1>2, <1>3, <1>4, TickStep, RejectedStep, StatusStep, PreparesStep, EmitsStep,
     OtherStep DEF Next, Node, Quiet, Prepares

\* Whichever runs share an id, whatever is repeated, killed, rebooted or powered
\* off: an id is used up on disk for good before the diode sends it, once.
THEOREM Implementation == Spec => ImplementsOneShot
<1>1. Init => Shot!Init
  <2> SUFFICES ASSUME Init PROVE Shot!Init
    OBVIOUS
  <2>1. Consumed = {}
    BY DEF Init, Consumed
  <2>2. Shots = <<>>
    <3>1. DOMAIN emitted = {} /\ emitted = <<>>
      BY DEF Init
    <3> QED
      BY <3>1 DEF Shots
  <2> QED
    BY <2>1, <2>2 DEF Shot!Init, Consumed, Shots
<1>2. IInv /\ [Next]_vars => [Shot!Next]_<<Consumed, Shots>>
  <2> SUFFICES ASSUME IInv, [Next]_vars PROVE [Shot!Next]_<<Consumed, Shots>>
    OBVIOUS
  <2>1. CASE UNCHANGED vars
    BY <2>1 DEF vars, disk, Consumed, Shots
  <2>2. CASE Next
    BY <2>2, PersistConsumes, CommitEmits, OthersStutter
  <2> QED
    BY <2>1, <2>2
<1> QED
  BY <1>1, <1>2, Invariance, PTL DEF Spec, ImplementsOneShot, Shot!Spec, Consumed, Shots
=============================================================================
