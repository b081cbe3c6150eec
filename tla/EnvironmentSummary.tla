-------------------------- MODULE EnvironmentSummary --------------------------
(***************************************************************************)
(* The archive summary of analytics/src: recorder_report.py reads the rows *)
(* of one physical channel from Home Assistant's recorder, environment.py  *)
(* goes over them in the order in which Home Assistant wrote them.  Rows   *)
(* may be anything: invalid, repeated, of an earlier boot, received in     *)
(* another order than written.  The Kalman filter is reduced to the        *)
(* readings its estimate rests on.                                         *)
(***************************************************************************)
EXTENDS Integers

CONSTANTS Boot,      \* boot ids of node01
          Sequence,  \* sequence numbers a row may carry
          Now,       \* the window is 0 .. Now, WINDOW_SECONDS long
          Freshness, \* FRESHNESS_SECONDS, 35
          Jitter,    \* CLOCK_JITTER_SECONDS, 2
          MaxDelay,  \* MAX_WRITE_DELAY_SECONDS, 35
          MaxRows,   \* MAX_ROWS
          None

ASSUME SummaryAssumption ==
    /\ Sequence \subseteq Nat /\ Now \in Nat /\ Freshness \in Nat \ {0}
    /\ Jitter \in Nat /\ MaxDelay \in Nat /\ MaxRows \in Nat
    /\ None \notin Boot /\ None \notin Int

VARIABLES
    stage,         \* "reading" the rows, or "done", or "failed"
    block,         \* block_current
    written,       \* the write time of the latest ordered row
    rows,          \* how many rows were ordered
    boot,          \* active_boot
    retired,       \* retired_boots
    highwater,     \* highwater[b], None for a boot that is not in the dict
    last_received,
    estimate,      \* the readings the filter has seen since its last reset
    healthy,       \* latest_healthy
    accepted,      \* history: the readings that were counted
    markers        \* history: positions of invalid rows

vars == <<stage, block, written, rows, boot, retired, highwater, last_received,
          estimate, healthy, accepted, markers>>

Time == 0 .. Now
Reading == [boot : Boot, sequence : Sequence, received : Time, at : 1 .. MaxRows]
Blocked == {"unorderable_history", "future_ha_state"}

TypeOK ==
    /\ stage \in {"reading", "done", "failed"}
    /\ block \in Blocked \cup {None}
    /\ written \in Time /\ rows \in 0 .. MaxRows
    /\ boot \in Boot \cup {None} /\ retired \subseteq Boot
    /\ highwater \in [Boot -> Sequence \cup {None}]
    /\ last_received \in Time \cup {None}
    /\ estimate \subseteq Reading /\ accepted \subseteq Reading
    /\ healthy \in BOOLEAN /\ markers \subseteq 1 .. MaxRows

Init ==
    /\ stage = "reading" /\ block = None
    /\ written = 0 /\ rows = 0
    /\ boot = None /\ retired = {} /\ highwater = [b \in Boot |-> None]
    /\ last_received = None /\ estimate = {} /\ healthy = FALSE
    /\ accepted = {} /\ markers = {}

\* Rows that are not ordered: written before the window, which leave nothing, or
\* without a time or after now, which block the current estimate whatever comes.
Unordered(reason) ==
    /\ stage = "reading"
    /\ block' = reason
    /\ UNCHANGED <<stage, written, rows, boot, retired, highwater, last_received, estimate,
                   healthy, accepted, markers>>

\* The next row in the order of its write time, and of the recorder for rows
\* written at the same time.
Take(w) ==
    /\ stage = "reading" /\ rows < MaxRows /\ w >= written
    /\ written' = w /\ rows' = rows + 1
    /\ UNCHANGED <<stage, block>>

\* Bug: an invalid row is passed over.
BugReset == UNCHANGED estimate

Reset == estimate' = {}

\* _metadata or _observation refuses the row: unavailable, simulated, out of
\* range, a unit, a time or attributes that are malformed or too long.
Invalid(w) ==
    /\ Take(w)
    /\ markers' = markers \cup {rows'}
    /\ Reset /\ healthy' = FALSE
    /\ UNCHANGED <<boot, retired, highwater, last_received, accepted>>

\* _metadata: received in the window, and written about when it was received.
Plausible(w, received) ==
    /\ received \in Time
    /\ w - received >= -Jitter /\ w - received <= MaxDelay

\* Bug: a boot is forgotten when another one takes its place.
BugIsNews(b, sequence, received) ==
    /\ boot = b /\ highwater[b] # None => sequence > highwater[b]
    /\ last_received # None => received > last_received

\* Not of a boot that is over, not a number seen before, not received earlier.
IsNews(b, sequence, received) ==
    /\ b \notin retired
    /\ highwater[b] # None => sequence > highwater[b]
    /\ last_received # None => received > last_received

\* A valid row that is no news: counted as rejected, and the filter is left alone.
Rejected(w, b, sequence, received) ==
    /\ Take(w) /\ Plausible(w, received)
    /\ ~IsNews(b, sequence, received)
    /\ healthy' = FALSE
    /\ UNCHANGED <<boot, retired, highwater, last_received, estimate, accepted, markers>>

\* A gap of more than Freshness, or another boot: the filter starts again.
Continues(b, received) ==
    boot = b /\ received - last_received <= Freshness

Accepted(w, b, sequence, received) ==
    /\ Take(w) /\ Plausible(w, received)
    /\ IsNews(b, sequence, received)
    /\ LET reading == [boot |-> b, sequence |-> sequence, received |-> received, at |-> rows']
       IN  /\ estimate' = (IF Continues(b, received) THEN estimate ELSE {}) \cup {reading}
           /\ accepted' = accepted \cup {reading}
    /\ retired' = IF boot \in {None, b} THEN retired ELSE retired \cup {boot}
    /\ boot' = b /\ highwater' = [highwater EXCEPT ![b] = sequence]
    /\ last_received' = received /\ healthy' = TRUE
    /\ UNCHANGED markers

\* All rows are read, or there were too many and there is no summary at all.
Finish ==
    /\ stage = "reading"
    /\ \/ stage' = "done"
       \/ rows = MaxRows /\ stage' = "failed"
    /\ UNCHANGED <<block, written, rows, boot, retired, highwater, last_received, estimate,
                   healthy, accepted, markers>>

Next ==
    \/ \E reason \in Blocked : Unordered(reason)
    \/ \E w \in Time :
          \/ Invalid(w)
          \/ \E b \in Boot, sequence \in Sequence, received \in Time :
                Rejected(w, b, sequence, received) \/ Accepted(w, b, sequence, received)
    \/ Finish

Spec == Init /\ [][Next]_vars
-----------------------------------------------------------------------------
\* The last row is a valid, new reading, and not too old.
IsCurrent == block = None /\ healthy /\ Now - last_received < Freshness

\* current_status; current_estimate is there only when it is "fresh".
Status ==
    IF block # None THEN block
    ELSE IF rows = 0 THEN "no_valid_data"
    ELSE IF ~healthy THEN "latest_ha_state_invalid"
    ELSE IF IsCurrent THEN "fresh" ELSE "stale"
-----------------------------------------------------------------------------
(* Properties *)

\* What is counted is one history of the node: received in the order of its
\* sequence numbers, boot after boot, none of which comes back.
OneHistory ==
    /\ \A a, b \in accepted :
          a.at < b.at => /\ a.received < b.received
                         /\ a.boot = b.boot => a.sequence < b.sequence
    /\ \A a, b, c \in accepted :
          a.at < b.at /\ b.at < c.at /\ a.boot = c.boot => b.boot = a.boot

\* The readings an estimate may rest on, said without the loop: of the latest
\* boot, later than every invalid row, with no gap between them and the latest.
Segment ==
    {a \in accepted :
        /\ a.boot = boot
        /\ \A m \in markers : m < a.at
        /\ \A b \in accepted : a.at < b.at =>
              \E c \in accepted : /\ a.at <= c.at /\ c.at < b.at
                                  /\ b.received - c.received <= Freshness}

\* The filter, reset as the loop goes, has seen exactly those.
EstimateOfSegment == estimate = Segment

\* A current estimate is about now: no row of the archive came after the newest
\* reading in it, which is less than Freshness old, whatever was repeated,
\* reordered or invalid before.
CurrentIsNow ==
    Status = "fresh" =>
        \E a \in estimate : /\ a.at = rows
                            /\ Now - a.received < Freshness
                            /\ \A b \in accepted : b.received <= a.received

\* What the report estimates rests on the latest unbroken part of the history, and
\* it is called fresh only if that reaches up to now.
ReportIsTrue == EstimateOfSegment /\ CurrentIsNow
=============================================================================
