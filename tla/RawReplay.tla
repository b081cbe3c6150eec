----------------------------- MODULE RawReplay -----------------------------
(***************************************************************************)
(* One confirmed infrared replay: replay_once of services/ir_learning      *)
(* against the command handler of node02.  Several host processes replay   *)
(* at once, perhaps with the same command id; each reserves its id in the  *)
(* state directory, prepares a waveform at the node, gets a challenge and  *)
(* commits it once.  Packets are lost, reordered and repeated, processes   *)
(* die, the host loses power, the node reboots, and time passes anywhere.  *)
(***************************************************************************)
EXTENDS Integers, Sequences

CONSTANTS Host,        \* runs of replay_once, one record selected by each
          Command,     \* the command ids the operator may give them
          Modulus,     \* millis() counts modulo 2^32
          Deadline,    \* DEADLINE_MS, 8 seconds
          Lifetime,    \* kReplayLifetimeMs and the limit of a deadline, 10 seconds
          Capacity,    \* kCapacity of the deduplicator, 8
          MaxTime,     \* bound: the clock stops here
          MaxIncident, \* bound: reboots, power failures, commands of other publishers
          MaxChallenge,\* bound: prepares the node accepts
          None

ASSUME ReplayAssumption ==
    /\ Deadline \in Nat \ {0} /\ Lifetime \in Nat /\ Deadline < Lifetime
    /\ Modulus \in Nat /\ Lifetime < Modulus \div 2
    /\ Capacity \in Nat \ {0} /\ MaxTime \in Nat /\ MaxIncident \in Nat
    /\ MaxChallenge \in Nat
    /\ None \notin Host \cup Command /\ Host \cap Command = {}

VARIABLES
    now,      \* real time
    host,     \* host[h]: the local variables of the run
    journal,  \* journal[c]: what replay-<c>.json holds
    durable,  \* durable[c]: what of it survives a power failure
    node,     \* the globals of node02
    commands, \* on the way to the node
    replies,  \* on the way to the hosts
    emitted,  \* history: what the diode sent, [cmd, wave]
    incidents \* reboots, power failures and commands of others so far

disk == <<journal, durable>>
vars == <<now, host, disk, node, commands, replies, emitted, incidents>>

Time == 0 .. MaxTime
Millis == 0 .. Modulus - 1
Boot == 1 .. MaxIncident + 1
File == {"absent", "empty", "reserved", "consumed"}
Stage == {"new", "reserve", "status", "prepare", "recheck", "persist", "publish",
          "commit", "done", "down"}

\* The ids the node tells apart: a prepare's is the host's, a commit's the
\* operator's; those nobody sends twice are None.
CommandId == Host \cup Command \cup {None}

\* The local variables of replay_once and _attempt.
Run == [at : Stage, cmd : Command \cup {None}, boot : Boot,
        uptime : Millis,                          \* uptime of the first status
        start : Time, check : Time, seen : Time,  \* clock anchors
        challenge : Nat, expires : Millis,        \* of the reply
        deadline : Millis, window : 0 .. Deadline,
        outcome : {"none", "refused", "unknown", "ok"}]

\* RawPreparation, and the other globals of the node.
Preparation == [challenge : Nat, wave : Host, expires : Millis]
Globals == [boot : Boot, millis : Millis, armed : BOOLEAN,
            prepared : Preparation \cup {None},
            nonce : 0 .. MaxChallenge,            \* challenges are never repeated
            recent : Seq(CommandId)]              \* the deduplicator's ring

StatusCommand == [kind : {"status"}, host : Host, id : {None}, stage : {"status", "recheck"}]
PrepareCommand == [kind : {"prepare"}, host : Host, id : Host, boot : Boot, deadline : Millis]
CommitCommand == [kind : {"commit"}, host : Host, id : Command, boot : Boot,
                  deadline : Millis, challenge : Nat]
Event == [host : Host, stage : {"status", "recheck", "prepare", "commit"}, boot : Boot,
          millis : Millis, challenge : Nat, expires : Millis]

TypeOK ==
    /\ now \in Time
    /\ host \in [Host -> Run]
    /\ journal \in [Command -> File] /\ durable \in [Command -> File]
    /\ node \in Globals /\ Len(node.recent) <= Capacity
    /\ commands \subseteq StatusCommand \cup PrepareCommand \cup CommitCommand
    /\ replies \subseteq Event
    /\ emitted \in Seq([cmd : Command, wave : Host])
    /\ incidents \in 0 .. MaxIncident

New == [at |-> "new", cmd |-> None, boot |-> 1, uptime |-> 0, start |-> 0, check |-> 0,
        seen |-> 0, challenge |-> 0, expires |-> 0, deadline |-> 0, window |-> 0,
        outcome |-> "none"]

\* millis() may be about to wrap.
Init ==
    /\ now = 0
    /\ host = [h \in Host |-> New]
    /\ journal = [c \in Command |-> "absent"] /\ durable = journal
    /\ \E m \in {0, Modulus - 1} :
          node = [boot |-> 1, millis |-> m, armed |-> FALSE, prepared |-> None,
                  nonce |-> 0, recent |-> <<>>]
    /\ commands = {} /\ replies = {} /\ emitted = <<>> /\ incidents = 0
-----------------------------------------------------------------------------
(* replay_once *)

hostOnly == <<now, node, emitted, incidents>>
Status(h, stage) == [kind |-> "status", host |-> h, id |-> None, stage |-> stage]
Elapsed(anchor, limit) == now - anchor >= limit

\* h leaves its wait; its responses entry is popped, so a later answer is dropped.
Move(h, r) ==
    /\ host' = [host EXCEPT ![h] = r]
    /\ replies' = {e \in replies : e.host # h}

\* Locals of _attempt go out of scope; what is kept says which run it was.
Leave(h, stage, outcome) ==
    Move(h, [New EXCEPT !.at = stage, !.outcome = outcome, !.cmd = host[h].cmd,
                        !.seen = host[h].seen])

\* Bug: the file is opened without O_EXCL.
BugReserveAgain(h, c) ==
    /\ host[h].at = "new"
    /\ Move(h, [host[h] EXCEPT !.at = "reserve", !.cmd = c])
    /\ journal' = [journal EXCEPT ![c] = "empty"]
    /\ UNCHANGED <<hostOnly, durable, commands>>

\* _reserve: the first process to create the file owns the id.
Reserve(h, c) ==
    /\ host[h].at = "new"
    /\ \/ /\ journal[c] = "absent"
          /\ journal' = [journal EXCEPT ![c] = "empty"]
          /\ Move(h, [host[h] EXCEPT !.at = "reserve", !.cmd = c])
       \/ /\ journal[c] # "absent"
          /\ Leave(h, "done", "refused")
          /\ UNCHANGED journal
    /\ UNCHANGED <<hostOnly, durable, commands>>

Persist(c, phase) == /\ journal' = [journal EXCEPT ![c] = phase]
                     /\ durable' = [durable EXCEPT ![c] = phase]

\* The id is on disk as reserved, the transport is ready, _attempt begins.
AskStatus(h) ==
    /\ host[h].at = "reserve"
    /\ Persist(host[h].cmd, "reserved")
    /\ Move(h, [host[h] EXCEPT !.at = "status", !.start = now])
    /\ commands' = commands \cup {Status(h, "status")}
    /\ UNCHANGED hostOnly

NodeDeadline(uptime, window) == (uptime + window) % Modulus

Prepare(h) ==
    /\ host[h].at = "status" /\ ~Elapsed(host[h].start, Deadline)
    /\ \E e \in replies :
          /\ e.host = h /\ e.stage = "status"
          /\ Move(h, [host[h] EXCEPT !.at = "prepare", !.boot = e.boot,
                                     !.uptime = e.millis, !.start = now])
          /\ commands' = commands \cup
                {[kind |-> "prepare", host |-> h, id |-> h, boot |-> e.boot,
                  deadline |-> NodeDeadline(e.millis, Deadline)]}
    /\ UNCHANGED <<hostOnly, disk>>

\* The prepared challenge is there; the node is asked for its time again.
AskAgain(h) ==
    /\ host[h].at = "prepare"
    /\ \E e \in replies :
          /\ e.host = h /\ e.stage = "prepare" /\ e.boot = host[h].boot
          /\ Move(h, [host[h] EXCEPT !.at = "recheck", !.check = now,
                                     !.challenge = e.challenge, !.expires = e.expires])
    /\ commands' = commands \cup {Status(h, "recheck")}
    /\ UNCHANGED <<hostOnly, disk>>

\* Same boot, plausible time, challenge still alive: the window is what is left
\* of it, and _persist truncates the journal file.
Recheck(h) ==
    /\ host[h].at = "recheck" /\ ~Elapsed(host[h].start, Lifetime)
    /\ \E e \in replies :
          LET remaining == (host[h].expires - e.millis) % Modulus
              window == IF Deadline <= remaining THEN Deadline ELSE remaining
          IN  /\ e.host = h /\ e.stage = "recheck" /\ e.boot = host[h].boot
              /\ (e.millis - host[h].uptime) % Modulus <= Lifetime
              /\ remaining \in 1 .. Lifetime
              /\ ~Elapsed(host[h].check, window)
              /\ Move(h, [host[h] EXCEPT !.at = "persist", !.seen = now, !.window = window,
                                         !.deadline = NodeDeadline(e.millis, window)])
    /\ journal' = [journal EXCEPT ![host[h].cmd] = "empty"]
    /\ UNCHANGED <<hostOnly, durable, commands>>

\* Bug: the commit is published before the journal says so.
BugPublishFirst(h) ==
    /\ host[h].at = "persist"
    /\ Move(h, [host[h] EXCEPT !.at = "publish"])
    /\ UNCHANGED <<hostOnly, disk, commands>>

PersistIntent(h) ==
    /\ host[h].at = "persist"
    /\ Persist(host[h].cmd, "consumed")
    /\ Move(h, [host[h] EXCEPT !.at = "publish"])
    /\ UNCHANGED <<hostOnly, commands>>

Commit(h) ==
    /\ host[h].at = "publish"
    /\ ~Elapsed(host[h].start, Lifetime) /\ ~Elapsed(host[h].check, host[h].window)
    /\ Move(h, [New EXCEPT !.at = "commit", !.cmd = host[h].cmd, !.boot = host[h].boot,
                           !.seen = host[h].seen])
    /\ commands' = commands \cup
          {[kind |-> "commit", host |-> h, id |-> host[h].cmd, boot |-> host[h].boot,
            deadline |-> host[h].deadline, challenge |-> host[h].challenge]}
    /\ UNCHANGED <<hostOnly, disk>>

\* Bug: a commit that was handed to the client counts as acknowledged.
BugAckOnPublish(h) ==
    /\ host[h].at = "commit"
    /\ Leave(h, "done", "ok")
    /\ UNCHANGED <<hostOnly, disk, commands>>

Acknowledged(h) ==
    /\ host[h].at = "commit"
    /\ \E e \in replies : e.host = h /\ e.stage = "commit" /\ e.boot = host[h].boot
    /\ Leave(h, "done", "ok")
    /\ UNCHANGED <<hostOnly, disk, commands>>

\* An exception or a timeout: before the commit an error is raised, after it the
\* outcome is unknown_no_retry.
GiveUp(h) ==
    /\ host[h].at \notin {"new", "done", "down"}
    /\ Leave(h, "done", IF host[h].at = "commit" THEN "unknown" ELSE "refused")
    /\ UNCHANGED <<hostOnly, disk, commands>>

Crash(h) ==
    /\ host[h].at \notin {"new", "done", "down"}
    /\ Leave(h, "down", "none")
    /\ UNCHANGED <<hostOnly, disk, commands>>

Incident == incidents < MaxIncident /\ incidents' = incidents + 1

PowerLoss ==
    /\ Incident
    /\ host' = [h \in Host |-> IF host[h].at \in {"new", "done"} THEN host[h] ELSE
                  [New EXCEPT !.at = "down", !.cmd = host[h].cmd, !.seen = host[h].seen]]
    /\ replies' = {}
    /\ \E lost \in SUBSET Command :
          journal' = [c \in Command |-> IF c \in lost THEN durable[c] ELSE journal[c]]
    /\ durable' = journal'
    /\ UNCHANGED <<now, node, commands, emitted>>
-----------------------------------------------------------------------------
(* node02 *)

Remaining(t) == (t - node.millis) % Modulus

\* before_deadline: the signed 32-bit difference is positive.
BeforeDeadline(t) == Remaining(t) \in 1 .. (Modulus \div 2) - 1

\* expire_learning_state drops a preparation that is over.
Prepared == IF node.prepared # None /\ BeforeDeadline(node.prepared.expires)
            THEN node.prepared ELSE None

\* Bug: the deadline of a command is not looked at.
BugNoDeadline(m) == m.kind = "status" \/ m.boot = node.boot

\* CommandParser: this boot, and a deadline at most ten seconds ahead.
Parsed(m) == \/ m.kind = "status"
             \/ m.boot = node.boot /\ Remaining(m.deadline) \in 1 .. Lifetime

\* seen_or_record.
Seen(id) == id # None /\ \E i \in DOMAIN node.recent : node.recent[i] = id
Record(id) == IF Len(node.recent) < Capacity THEN Append(node.recent, id)
              ELSE Append(Tail(node.recent), id)

\* A command arrives; a prepare or a commit may arrive again later.
Arrive(m) ==
    /\ m \in commands
    /\ \/ commands' = commands \ {m}
       \/ m.kind # "status" /\ UNCHANGED commands
    /\ UNCHANGED <<now, host, disk, incidents>>

\* A reply nobody waits for any more is dropped by the transport.
Reply(m, stage, challenge, expires) ==
    replies' = IF host[m.host].at # stage THEN replies
               ELSE replies \cup {[host |-> m.host, stage |-> stage, boot |-> node.boot,
                                   millis |-> node.millis, challenge |-> challenge,
                                   expires |-> expires]}

\* Refused before it is recorded: not for this boot, too late, or seen before.
OnRejected(m) ==
    /\ Arrive(m)
    /\ ~Parsed(m) \/ Seen(m.id)
    /\ node' = [node EXCEPT !.prepared = Prepared]
    /\ UNCHANGED <<replies, emitted>>

OnStatus(m) ==
    /\ m.kind = "status" /\ Arrive(m)
    /\ node' = [node EXCEPT !.prepared = Prepared, !.recent = Record(m.id)]
    /\ Reply(m, m.stage, 0, 0)
    /\ UNCHANGED emitted

\* A later prepare takes the place of an earlier one.
OnPrepare(m) ==
    /\ m.kind = "prepare" /\ Arrive(m)
    /\ Parsed(m) /\ ~Seen(m.id)
    /\ LET expires == (node.millis + Lifetime) % Modulus
           challenge == node.nonce + 1
       IN  \/ /\ ~node.armed /\ challenge <= MaxChallenge
              /\ node' = [node EXCEPT !.recent = Record(m.id), !.nonce = challenge,
                            !.prepared = [challenge |-> challenge, wave |-> m.host,
                                          expires |-> expires]]
              /\ Reply(m, "prepare", challenge, expires)
           \/ /\ node.armed
              /\ node' = [node EXCEPT !.prepared = Prepared, !.recent = Record(m.id)]
              /\ UNCHANGED replies
    /\ UNCHANGED emitted

\* Bug: take() does not compare the challenge.
BugAnyChallenge(m) == ~node.armed /\ Prepared # None

\* take() succeeds: the caller gets the only copy.
Takes(m) == ~node.armed /\ Prepared # None /\ Prepared.challenge = m.challenge

OnCommit(m) ==
    /\ m.kind = "commit" /\ Arrive(m)
    /\ Parsed(m) /\ ~Seen(m.id)
    /\ \/ /\ Takes(m)
          /\ node' = [node EXCEPT !.prepared = None, !.recent = Record(m.id)]
          /\ emitted' = Append(emitted, [cmd |-> m.id, wave |-> Prepared.wave])
          /\ Reply(m, "commit", 0, 0)
       \/ /\ ~Takes(m)
          /\ node' = [node EXCEPT !.prepared = Prepared, !.recent = Record(m.id)]
          /\ UNCHANGED <<emitted, replies>>

\* Another publisher's command: a learning window opens, is cancelled, or an
\* air-conditioner code is sent, and each voids the preparation; a loopback test
\* does not.  What is refused is recorded all the same.
OnOther(action) ==
    /\ Incident
    /\ LET refused == IF action = "cancel" THEN ~node.armed ELSE node.armed
       IN  node' = [node EXCEPT
              !.recent = Record(None),
              !.prepared = IF refused \/ action = "loopback" THEN Prepared ELSE None,
              !.armed = IF refused THEN @ ELSE action = "start"]
    /\ UNCHANGED <<now, host, disk, commands, replies, emitted>>

\* The learning window is consumed by a frame, or expires.
WindowEnds ==
    /\ node.armed
    /\ node' = [node EXCEPT !.armed = FALSE]
    /\ UNCHANGED <<now, host, disk, commands, replies, emitted, incidents>>

\* loop() expires the preparation.
Expire ==
    /\ node.prepared # None /\ Prepared = None
    /\ node' = [node EXCEPT !.prepared = None]
    /\ UNCHANGED <<now, host, disk, commands, replies, emitted, incidents>>

\* init_boot_id does not look at what putUInt returns: a counter that could not
\* be written gives the next boot the same id.
Reboot(saved) ==
    /\ Incident
    /\ node' = [boot |-> IF saved THEN node.boot + 1 ELSE node.boot, millis |-> 0,
                armed |-> FALSE, prepared |-> None, nonce |-> node.nonce, recent |-> <<>>]
    /\ UNCHANGED <<now, host, disk, commands, replies, emitted>>

\* loop() runs, and drops what has expired, at least once in half a turn of the
\* clock: a preparation that is over never looks alive again.
Tick ==
    /\ now < MaxTime
    /\ node.prepared # None => Remaining(node.prepared.expires) # Modulus \div 2
    /\ now' = now + 1
    /\ node' = [node EXCEPT !.millis = (@ + 1) % Modulus]
    /\ UNCHANGED <<host, disk, commands, replies, emitted, incidents>>
-----------------------------------------------------------------------------
Replay(h) ==
    \/ \E c \in Command : Reserve(h, c)
    \/ AskStatus(h) \/ Prepare(h) \/ AskAgain(h) \/ Recheck(h) \/ PersistIntent(h)
    \/ Commit(h) \/ Acknowledged(h) \/ GiveUp(h) \/ Crash(h)

Node ==
    \/ \E m \in commands : OnRejected(m) \/ OnStatus(m) \/ OnPrepare(m) \/ OnCommit(m)
    \/ \E action \in {"start", "cancel", "ac_send", "loopback"} : OnOther(action)
    \/ \E saved \in BOOLEAN : Reboot(saved)
    \/ WindowEnds \/ Expire

Next == (\E h \in Host : Replay(h)) \/ Node \/ PowerLoss \/ Tick

Spec == Init /\ [][Next]_vars
-----------------------------------------------------------------------------
(* Properties *)

Shot == INSTANCE OneShot WITH
    consumed <- {c \in Command : durable[c] = "consumed"},
    emitted <- [i \in DOMAIN emitted |-> emitted[i].cmd]

\* Whichever processes share an id, whatever is repeated, killed, rebooted or
\* powered off: an id reaches the diode only after it is used up on disk for
\* good, and at most once.
ImplementsOneShot == Shot!Spec

\* The node has one place for a waveform and several hosts; what a commit sends
\* is the waveform of the run that owns its command id, never another's.
RightWaveform ==
    \A i \in DOMAIN emitted : host[emitted[i].wave].cmd = emitted[i].cmd

\* A run that says the node acknowledged was sent; one that ended in an error
\* was not and never will be, although its packets may still be under way.
OutcomeHonest ==
    \A h \in Host :
        LET sent == \E i \in DOMAIN emitted : emitted[i].wave = h
        IN  /\ host[h].outcome = "ok" => sent
            /\ host[h].outcome = "refused" => ~sent

\* However long a commit is under way, or how often it arrives: the diode sends
\* within eight seconds of the host's last look at the node's clock, or never.
NeverStale ==
    [][emitted' # emitted =>
          now - host[emitted'[Len(emitted')].wave].seen < Deadline]_vars
=============================================================================
