---------------------------- MODULE SequenceGate ----------------------------
(***************************************************************************)
(* SequenceGate of services/bridge/validator.py: the durable anti-replay   *)
(* gate.  Several instances (one per process) share a directory with two   *)
(* files, sequence.json and its lock, and every call of accept() goes      *)
(* through open, flock, marker, read, compare, replace, fsync.  Processes  *)
(* die between any two of those system calls, the machine loses power and  *)
(* what was not fsynced, and an operator damages and repairs the files.    *)
(***************************************************************************)
EXTENDS Segments, Sequences

CONSTANT Gate   \* the instances; _thread_lock admits one call to each

ASSUME GateAssumption == None \notin Segment /\ None \notin Gate

VARIABLES
    pc,        \* pc[g]: where g's call of _accept_locked is; "down": no process
    candidate, \* candidate[g]: the segment being examined
    created,   \* created[g]: this call made the lock file
    observed,  \* observed[g]: _observed_state, lost with the process
    owner,     \* who holds the flock
    lock,      \* the lock file: "absent", "empty" or "marked"
    state,     \* sequence.json as any process reads it
    diskLock,  \* the part of lock a power failure cannot take back
    diskState, \* the part of state a power failure cannot take back
    accepted   \* history: every sample for which accept() returned True

processes == <<pc, candidate, created, observed, owner>>
files == <<lock, state, diskLock, diskState>>
gateVars == <<processes, files, accepted>>

LockFile == {"absent", "empty", "marked"}
Rank == [f \in LockFile |-> IF f = "absent" THEN 0 ELSE IF f = "empty" THEN 1 ELSE 2]
Critical == {"marker", "syncMarker", "read", "replace", "sync"}
Calling == Critical \cup {"flock"}

GateTypeOK ==
    /\ pc \in [Gate -> Calling \cup {"idle", "down"}]
    /\ candidate \in [Gate -> Segment \cup {None}]
    /\ created \in [Gate -> BOOLEAN]
    /\ observed \in [Gate -> BOOLEAN]
    /\ owner \in Gate \cup {None}
    /\ lock \in LockFile
    /\ state \in Segment \cup {None}
    /\ diskLock \in LockFile
    /\ diskState \in Segment \cup {None}
    /\ accepted \in Seq(Segment)

GateInit ==
    /\ pc = [g \in Gate |-> "down"]
    /\ candidate = [g \in Gate |-> None]
    /\ created = [g \in Gate |-> FALSE]
    /\ observed = [g \in Gate |-> FALSE]
    /\ owner = None
    /\ lock = "absent" /\ diskLock = "absent"
    /\ state = None /\ diskState = None
    /\ accepted = <<>>
-----------------------------------------------------------------------------
(* accept() *)

Goto(g, label) == pc' = [pc EXCEPT ![g] = label]

\* Bug: the descriptor of the lock file leaks, and the flock with it.
BugKeepFlock(g) ==
    /\ Goto(g, "idle")
    /\ candidate' = [candidate EXCEPT ![g] = None]
    /\ created' = [created EXCEPT ![g] = FALSE]
    /\ UNCHANGED owner

\* The finally clause: closing lock_fd gives the flock up.
Return(g) ==
    /\ Goto(g, "idle")
    /\ candidate' = [candidate EXCEPT ![g] = None]
    /\ created' = [created EXCEPT ![g] = FALSE]
    /\ owner' = IF owner = g THEN None ELSE owner

\* Open the lock file, with O_CREAT|O_EXCL first: the kernel lets one creator in.
OpenLock(g, s) ==
    /\ pc[g] = "idle"
    /\ Goto(g, "flock")
    /\ candidate' = [candidate EXCEPT ![g] = s]
    /\ created' = [created EXCEPT ![g] = lock = "absent"]
    /\ lock' = IF lock = "absent" THEN "empty" ELSE lock
    /\ UNCHANGED <<observed, owner, state, diskLock, diskState, accepted>>

Flock(g) ==
    /\ pc[g] = "flock"
    /\ owner = None
    /\ owner' = g
    /\ Goto(g, "marker")
    /\ UNCHANGED <<candidate, created, observed, files, accepted>>

\* The creator writes the marker.
WriteMarker(g) ==
    /\ pc[g] = "marker" /\ created[g]
    /\ lock' = "marked"
    /\ Goto(g, "syncMarker")
    /\ UNCHANGED <<candidate, created, observed, owner,
                   state, diskLock, diskState, accepted>>

\* fsync of the lock file, then of its directory.
SyncMarker(g) ==
    /\ pc[g] = "syncMarker"
    /\ diskLock' = lock
    /\ diskState' = state
    /\ Goto(g, "read")
    /\ UNCHANGED <<candidate, created, observed, owner, lock, state, accepted>>

\* Everybody else must find the marker: STATE_LOCK otherwise.
CheckMarker(g) ==
    /\ pc[g] = "marker" /\ ~created[g]
    /\ \/ /\ lock = "marked"
          /\ Goto(g, "read")
          /\ UNCHANGED <<candidate, created, owner>>
       \/ /\ lock # "marked"
          /\ Return(g)
    /\ UNCHANGED <<observed, files, accepted>>

\* Bug: _observed_state is not consulted.
BugForgetObserved(g) == state = None /\ ~created[g]

\* STATE_MISSING: only the creator of the lock, in a process that has never
\* seen a state, may take the absence of sequence.json for a first use.
StateMissing(g) == state = None /\ (~created[g] \/ observed[g])

\* Bug: < for <=, the very sample of the high-water mark passes again.
BugAcceptEqual(g) == state # None /\ Below(candidate[g], state)

Stale(g) == state # None /\ AtMost(candidate[g], state)

ReadState(g) ==
    /\ pc[g] = "read"
    /\ observed' = [observed EXCEPT ![g] = @ \/ ~StateMissing(g)]
    /\ \/ /\ StateMissing(g) \/ Stale(g)
          /\ Return(g)
       \/ /\ ~(StateMissing(g) \/ Stale(g))
          /\ Goto(g, "replace")
          /\ UNCHANGED <<candidate, created, owner>>
    /\ UNCHANGED <<files, accepted>>

\* _persist: the temporary file is written and fsynced out of everyone's
\* sight, os.replace shows it at once.
Replace(g) ==
    /\ pc[g] = "replace"
    /\ state' = candidate[g]
    /\ Goto(g, "sync")
    /\ UNCHANGED <<candidate, created, observed, owner,
                   lock, diskLock, diskState, accepted>>

\* Bug: accept() returns True without the fsync of the directory.
BugNoDirectorySync(g) ==
    /\ pc[g] = "sync"
    /\ accepted' = Append(accepted, candidate[g])
    /\ Return(g)
    /\ UNCHANGED <<observed, files>>

\* fsync of the directory, after which accept() returns True.  It makes the
\* lock file's name durable too, not its content.
SyncAndAccept(g) ==
    /\ pc[g] = "sync"
    /\ diskState' = state
    /\ diskLock' = IF diskLock = "absent" THEN "empty" ELSE diskLock
    /\ accepted' = Append(accepted, candidate[g])
    /\ Return(g)
    /\ UNCHANGED <<observed, lock, state>>

\* A system call raises: STATE_IO, accept() returns False, what is on disk stays.
Fail(g) ==
    /\ pc[g] \in Calling
    /\ Return(g)
    /\ UNCHANGED <<observed, files, accepted>>
-----------------------------------------------------------------------------
(* Processes, power and the operator *)

\* An empty directory where samples were accepted before: the loss a new
\* process cannot tell from first use.
TotalLoss == lock = "absent" /\ state = None /\ accepted # <<>>

Stop(g) ==
    /\ candidate' = [candidate EXCEPT ![g] = None]
    /\ created' = [created EXCEPT ![g] = FALSE]
    /\ observed' = [observed EXCEPT ![g] = FALSE]

\* Operators must not start a worker on an emptied volume.
Start(g) ==
    /\ pc[g] = "down"
    /\ ~TotalLoss
    /\ Goto(g, "idle")
    /\ UNCHANGED <<candidate, created, observed, owner, files, accepted>>

Crash(g) ==
    /\ pc[g] # "down"
    /\ Goto(g, "down")
    /\ Stop(g)
    /\ owner' = IF owner = g THEN None ELSE owner
    /\ UNCHANGED <<files, accepted>>

\* What was not fsynced may or may not have reached the disk.
PowerLoss ==
    /\ pc' = [g \in Gate |-> "down"]
    /\ candidate' = [g \in Gate |-> None]
    /\ created' = [g \in Gate |-> FALSE]
    /\ observed' = [g \in Gate |-> FALSE]
    /\ owner' = None
    /\ state' \in {state, diskState}
    /\ lock' \in {f \in LockFile : Rank[diskLock] <= Rank[f] /\ Rank[f] <= Rank[lock]}
    /\ diskState' = state'
    /\ diskLock' = lock'
    /\ UNCHANGED accepted

\* No writer runs: the only time the module's docstring lets files be touched.
Quiescent == \A g \in Gate : pc[g] \notin Calling

\* The files are lost, one or both.  Both may go only while every process
\* that is up has seen a state: the case the docstring promises to survive.
LoseFiles(loseLock, loseState) ==
    /\ Quiescent
    /\ loseLock \/ loseState
    /\ lock' = IF loseLock THEN "absent" ELSE lock
    /\ diskLock' = IF loseLock THEN "absent" ELSE diskLock
    /\ state' = IF loseState THEN None ELSE state
    /\ diskState' = IF loseState THEN None ELSE diskState
    /\ UNCHANGED <<processes, accepted>>
    /\ TotalLoss' => \A g \in Gate : pc[g] = "idle" => observed[g]

\* "Restore trusted high-water state": a mark no accepted sample is above.
Restore(s) ==
    /\ Quiescent
    /\ state = None /\ accepted # <<>>
    /\ \A i \in 1 .. Len(accepted) : AtMost(accepted[i], s)
    /\ state' = s
    /\ diskState' = s
    /\ UNCHANGED <<processes, lock, diskLock, accepted>>
-----------------------------------------------------------------------------
Step(g) ==
    \/ Flock(g) \/ WriteMarker(g) \/ SyncMarker(g) \/ CheckMarker(g)
    \/ ReadState(g) \/ Replace(g) \/ SyncAndAccept(g)

\* What goes on once accept() was called, and around it.
Inside ==
    \/ \E g \in Gate : Step(g) \/ Fail(g) \/ Start(g) \/ Crash(g)
    \/ PowerLoss
    \/ \E l, s \in BOOLEAN : LoseFiles(l, s)
    \/ \E s \in Segment : Restore(s)

GateNext == (\E g \in Gate, s \in Segment : OpenLock(g, s)) \/ Inside

GateSpec == GateInit /\ [][GateNext]_gateVars

\* A worker that is up takes its next step; waiters of a flock are queued by
\* the kernel, so one that keeps finding it free gets it in the end.
GateFairness == \A g \in Gate : WF_gateVars(Step(g)) /\ SF_gateVars(Flock(g))
-----------------------------------------------------------------------------
(* Properties *)

Guard == INSTANCE ReplayGuard

\* Every step of the gate, its processes and its files is an acceptance the
\* abstract guard allows, or is invisible to it: across instances, crashes,
\* power failures and repairs no sample is accepted twice or out of order.
ImplementsGuard == Guard!Spec

\* accept() returned True only for samples the high-water mark covers, and a
\* mark that is there, now or after the power fails, still covers all of them.
HighWaterCovers ==
    \A i \in 1 .. Len(accepted) :
        /\ state # None => AtMost(accepted[i], state)
        /\ diskState # None => AtMost(accepted[i], diskState)

\* Once samples were accepted, a missing sequence.json is never started anew by
\* accept(), whichever of the files is gone and whoever made the lock again:
\* only the operator's trusted mark brings it back.
FailsClosed ==
    [][(accepted # <<>> /\ state = None /\ state' # None)
           => \E s \in Segment : Restore(s)]_gateVars

\* No call of accept() hangs: not on another process's flock, not on its own.
CallsReturn == \A g \in Gate : pc[g] \in Calling ~> pc[g] \notin Calling
=============================================================================
