------------------------ MODULE LearningSessionProofs ------------------------
(***************************************************************************)
(* Proofs about LearningSession: for any number of windows, profiles,      *)
(* restarts and any keys, a window gives at most one record and none once  *)
(* it was closed, what the library vouches for is true of the remote, and  *)
(* no record that was saved is lost.                                       *)
(***************************************************************************)
EXTENDS LearningSession, FiniteSetTheorems, TLAPS

USE LearningAssumption, NoneAssumption

-----------------------------------------------------------------------------
(* The inductive invariant *)

\* Profiles are numbered in their order; the one in memory is on disk as well.
Saved ==
    /\ \E k \in 0 .. MaxProfile : \A p \in Profile : files[p] # None <=> p <= k
    /\ \A p \in Profile : files[p] # None => files[p].profile = p
    /\ index # None => files[index] # None
    /\ data # None => index = data.profile /\ files[index] = data

\* A service that is down holds nothing, and a window is opened for a profile.
Threads ==
    /\ http.at = "down" =>
          /\ data = None /\ events = <<>> /\ collector = None
          /\ \A t \in Thread : callback[t] = None
    /\ http.at \notin {"down", "idle"} =>
          data # None /\ http.session # None /\ http.session <= sessions

\* A frame on its way from the node to the profile.
InFlight(f) ==
    \/ \E i \in 1 .. Len(events) : events[i].kind = "capture" /\ events[i].frame = f
    \/ \E t \in Thread : Carries(t, "capture") /\ callback[t].frame = f

\* Nobody speaks of a window before it is opened.
Numbered ==
    /\ window # None => window <= sessions
    /\ \A m \in commands : m.session <= sessions
    /\ \A f \in Frame : InFlight(f) => f.session <= sessions
    /\ \A s \in closed : s <= sessions

Recorded(s) == \E p \in Profile : \E i \in 1 .. Len(Records(p)) :
                  Records(p)[i].of.frame.session = s

\* A window that has been opened and has not given its record, nor been closed.
Unused(s) == s <= sessions /\ s \notin closed /\ ~Recorded(s)

Certain(d) == d.baseline /\ ~d.uncertain

\* The profile in use: one window at most is open or waits for a confirmation.
Held(d) ==
    /\ d.capture # None => d.pending = None /\ Unused(d.capture)
    /\ d.pending # None => /\ Unused(d.pending.frame.session)
                           /\ d.pending.frame.state = d.last
                           /\ d.button = "baseline" => d.last = None
    /\ Len(d.records) <= MaxRecord
    /\ d.capture # None \/ d.pending # None => Len(d.records) < MaxRecord
    /\ d.status \in {"ready", "arming"} => d.capture # None
    /\ d.status = "cancelled" => d.capture = None /\ d.uncertain
    /\ d.capture # None /\ d.button # "baseline" => Certain(d)

\* Each record is of a window of its own.
Ended ==
    /\ \A s \in Session : Recorded(s) => s <= sessions /\ s \notin closed
    /\ \A p \in Profile : \A i, j \in 1 .. Len(Records(p)) :
          i # j => Records(p)[i].of.frame.session # Records(p)[j].of.frame.session

\* While the context is certain the remote is where the last frame left it, up to
\* the one press of a window.
Known ==
    data # None /\ Certain(data) /\ data.last # None /\ (data.capture = None \/ ~pressed)
      => remote = data.last

\* A frame of the window that is open came from that one press.
Frames ==
    data # None => \A f \in Frame : InFlight(f) /\ f.session = data.capture =>
        /\ pressed /\ f.state \in {remote, None}
        /\ data.button # "baseline" /\ data.last # None => f.was = data.last

IInv == TypeOK /\ Saved /\ Threads /\ Numbered /\ (index # None => Held(files[index]))
        /\ Ended /\ Known /\ Frames /\ VerifiedTrue
-----------------------------------------------------------------------------
(* Types *)

LEMMA DataFields ==
    ASSUME NEW d \in Data
    PROVE  /\ d # None /\ d.profile \in Profile /\ d.button \in Button
           /\ d.records \in Seq(Record) /\ d.baseline \in BOOLEAN
           /\ d.last \in State \cup {None} /\ d.capture \in Session \cup {None}
           /\ d.pending \in Observation \cup {None} /\ d.uncertain \in BOOLEAN
  BY DEF Data

LEMMA Numbers ==
    /\ \A s \in Session : s # None /\ s \in Nat
    /\ \A f \in Frame : /\ f.session \in Session /\ f.state \in State \cup {None}
                        /\ f.was \in State /\ f.valid \in BOOLEAN
    /\ \A o \in Observation : /\ o.frame \in Frame /\ o.before \in State \cup {None}
                              /\ o.basis \in Basis
  BY DEF Session, Frame, Observation

LEMMA StateTypes ==
    ASSUME TypeOK
    PROVE  /\ data # None => data \in Data
           /\ \A p \in Profile : files[p] # None => files[p] \in Data
           /\ \A t \in Thread, k \in {"capture"} :
                 Carries(t, k) => callback[t].frame \in Frame
           /\ \A t \in Thread, k \in {"expire"} :
                 Carries(t, k) => callback[t].session \in Session
           /\ index # None => index \in Profile
           /\ http.session \in Session \cup {None}
           /\ sessions \in 0 .. MaxSession
  BY DEF TypeOK, Carries, Carried, Http

\* A profile may change in these ways and stay one.
Shut(d, st, u) == [d EXCEPT !.status = st, !.capture = None, !.uncertain = u]

Dropped(d, st, u) == [d EXCEPT !.status = st, !.capture = None, !.pending = None,
                               !.uncertain = u]

LEMMA Closing ==
    ASSUME NEW d \in Data, NEW st \in {"expired", "rejected", "captured", "cancelled", "idle",
                                       "needs_confirmation", "ready", "arming"},
           NEW u \in BOOLEAN
    PROVE  LET e == Shut(d, st, u)
           IN  /\ e \in Data /\ e.profile = d.profile /\ e.records = d.records
               /\ e.baseline = d.baseline /\ e.button = d.button /\ e.last = d.last
               /\ e.status = st /\ e.capture = None /\ e.pending = d.pending
               /\ e.uncertain = u
  BY DEF Data, Shut

LEMMA Dropping ==
    ASSUME NEW d \in Data, NEW st \in {"expired", "rejected", "captured", "cancelled"},
           NEW u \in BOOLEAN
    PROVE  LET e == Dropped(d, st, u)
           IN  /\ e \in Data /\ e.profile = d.profile /\ e.records = d.records
               /\ e.baseline = d.baseline /\ e.button = d.button /\ e.last = d.last
               /\ e.status = st /\ e.capture = None /\ e.pending = None /\ e.uncertain = u
  BY DEF Data, Dropped

Announced(d, b, s) == [d EXCEPT !.status = "arming", !.button = b, !.pending = None,
                                !.capture = s]

LEMMA Opening ==
    ASSUME NEW d \in Data, NEW b \in Button, NEW s \in Session
    PROVE  LET e == Announced(d, b, s)
           IN  /\ e \in Data /\ e.profile = d.profile /\ e.records = d.records
               /\ e.baseline = d.baseline /\ e.button = b /\ e.last = d.last
               /\ e.status = "arming" /\ e.capture = s /\ e.pending = None
               /\ e.uncertain = d.uncertain
  BY DEF Data, Announced

Waited(d, o, st) == [d EXCEPT !.capture = None, !.last = o.frame.state, !.pending = o,
                              !.status = st]

LEMMA Waiting ==
    ASSUME NEW d \in Data, NEW o \in Observation,
           NEW st \in {"needs_confirmation", "rejected"}
    PROVE  LET e == Waited(d, o, st)
           IN  /\ e \in Data /\ e.profile = d.profile /\ e.records = d.records
               /\ e.baseline = d.baseline /\ e.button = d.button /\ e.last = o.frame.state
               /\ e.status = st /\ e.capture = None /\ e.pending = o
               /\ e.uncertain = d.uncertain
<1> o.frame.state \in State \cup {None}
  BY Numbers
<1> QED
  BY DEF Data, Waited

Added(d, r, l, a, u) ==
    [d EXCEPT !.status = "captured", !.capture = None, !.pending = None, !.last = l,
              !.records = Append(@, r), !.baseline = a, !.uncertain = u]

LEMMA Adding ==
    ASSUME NEW d \in Data, NEW r \in Record, NEW l \in State \cup {None},
           NEW a \in BOOLEAN, NEW u \in BOOLEAN
    PROVE  LET e == Added(d, r, l, a, u)
           IN  /\ e \in Data /\ e.profile = d.profile /\ e.records = Append(d.records, r)
               /\ e.baseline = a /\ e.button = d.button /\ e.last = l
               /\ e.status = "captured" /\ e.capture = None /\ e.pending = None
               /\ e.uncertain = u
<1> Append(d.records, r) \in Seq(Record)
  BY DataFields
<1> QED
  BY DEF Data, Added

LEMMA FreshProfile ==
    ASSUME NewProfile \in Profile
    PROVE  /\ Fresh \in Data /\ Fresh.profile = NewProfile /\ Fresh.records = <<>>
           /\ Fresh.baseline = FALSE /\ Fresh.last = None /\ Fresh.capture = None
           /\ Fresh.pending = None /\ Fresh.uncertain = FALSE /\ Fresh.status = "idle"
<1> DEFINE n == NewProfile
<1> n \in Profile /\ Fresh = [profile |-> n, status |-> "idle", button |-> "baseline",
          records |-> <<>>, baseline |-> FALSE, last |-> None, capture |-> None,
          pending |-> None, uncertain |-> FALSE]
  BY DEF Fresh
<1> HIDE DEF n
<1> <<>> \in Seq(Record)
  OBVIOUS
<1> Fresh \in Data /\ Fresh.profile = n /\ Fresh.records = <<>>
           /\ Fresh.baseline = FALSE /\ Fresh.last = None /\ Fresh.capture = None
           /\ Fresh.pending = None /\ Fresh.uncertain = FALSE /\ Fresh.status = "idle"
  BY DEF Data
<1> QED
  BY DEF n

-----------------------------------------------------------------------------
(* What the steps do to the profile in use *)

Quiet == UNCHANGED <<data, store, sessions, closed>>

\* The profile in use, c, becomes d, in memory and on disk.
Rewrites(c, d) ==
    /\ c \in Data /\ d \in Data /\ index = c.profile /\ files[index] = c
    /\ d.profile = c.profile /\ Save(d) /\ d.button = c.button /\ UNCHANGED sessions

\* A window ends without a frame that counts, or was not open.
Ends(c, d) ==
    /\ Rewrites(c, d) /\ d.records = c.records /\ d.baseline = c.baseline
    /\ d.last = c.last /\ d.capture = None /\ d.status \notin {"ready", "arming"}
    /\ data = c \/ d.uncertain
    /\ d.status = "cancelled" => d.uncertain
    /\ c.uncertain \/ c.capture # None => d.uncertain
    /\ \/ /\ d.pending = None
          /\ closed' \subseteq closed \cup ({c.capture, PendingSession(c)} \ {None})
       \/ /\ d.pending = c.pending /\ closed' \subseteq closed \cup ({c.capture} \ {None})

\* The window is armed.
Readies(c, d) ==
    /\ Rewrites(c, d) /\ data = c /\ c.capture # None /\ UNCHANGED closed
    /\ d.records = c.records /\ d.baseline = c.baseline /\ d.uncertain = c.uncertain
    /\ d.last = c.last /\ d.capture = c.capture /\ d.pending = c.pending
    /\ d.status = "ready"

\* The frame of the window that is open was seen, with what it was taken for.
Sees(c, o) ==
    /\ o \in Observation /\ InFlight(o.frame) /\ c.capture # None
    /\ o.frame.session = c.capture /\ o.before = c.last

\* The frame waits for the user's word.
Waits(c, d, o) ==
    /\ Rewrites(c, d) /\ data = c /\ Sees(c, o) /\ UNCHANGED closed
    /\ d.records = c.records /\ d.baseline = c.baseline /\ d.uncertain = c.uncertain
    /\ d.last = o.frame.state /\ d.capture = None /\ d.pending = o
    /\ d.status \in {"needs_confirmation", "rejected"}
    /\ c.button = "baseline" => o.frame.state = None

\* The record r is added, on the library's word or on the user's.
Adds(c, d, r) ==
    /\ Rewrites(c, d) /\ data = c /\ r \in Record /\ UNCHANGED closed
    /\ d.records = Append(c.records, r) /\ r.button = c.button
    /\ d.baseline <=> c.baseline \/ c.button = "baseline"
    /\ d.uncertain <=> c.uncertain /\ c.button # "baseline"
    /\ d.last = r.of.frame.state /\ d.capture = None /\ d.pending = None
    /\ d.status = "captured"
    /\ \/ /\ Sees(c, r.of)
          /\ r.source = "library" /\ r.button # "baseline" => r.of.before # None
       \/ c.pending # None /\ r.of = c.pending /\ r.source # "library"

\* A window opens for the button b, on the profile in use or on a new one.
Opens(c, d, b) ==
    /\ c \in Data /\ d \in Data /\ b \in Button /\ Save(d)
    /\ d.profile = c.profile /\ d.records = c.records /\ d.baseline = c.baseline
    /\ d.uncertain = c.uncertain /\ d.last = c.last /\ d.button = b /\ d.pending = None
    /\ d.status = "arming" /\ c.capture = None /\ Len(c.records) < MaxRecord
    /\ b = "baseline" \/ Certain(c)
    /\ sessions < MaxSession /\ sessions' = sessions + 1 /\ d.capture = sessions'
    /\ closed' \subseteq closed \cup ({PendingSession(c)} \ {None})
    /\ \/ data = c /\ index = c.profile /\ files[index] = c
       \/ c.profile = NewProfile /\ c.records = <<>> /\ ~c.baseline /\ c.pending = None
    /\ pressed' = FALSE /\ http' = [at |-> "arming", session |-> sessions']

Ending(c) == \E d \in Data : Ends(c, d)

LEMMA InUse ==
    ASSUME TypeOK, Saved, data # None
    PROVE  data \in Data /\ index = data.profile /\ files[index] = data
  BY DEF TypeOK, Saved

LEMMA Closed ==
    ASSUME NEW s, Close(s)
    PROVE  closed' \subseteq closed \cup ({s} \ {None})
  BY DEF Close

LEMMA OpenEffect ==
    ASSUME TypeOK, Saved, NEW c \in Data, NEW b \in Button, Open(c, b),
           \/ data = c /\ index = c.profile /\ files[index] = c
           \/ c.profile = NewProfile /\ c.records = <<>> /\ ~c.baseline /\ c.pending = None
    PROVE  \E d \in Data : Opens(c, d, b)
<1> DEFINE e == Announced(c, b, sessions')
<1>1. /\ sessions' = sessions + 1 /\ sessions < MaxSession /\ MayOpen(c, b)
      /\ Save(e) /\ pressed' = FALSE
      /\ http' = [at |-> "arming", session |-> sessions'] /\ Close(PendingSession(c))
  BY DEF Open, Announced
<1>2. sessions' \in Session
  BY <1>1 DEF TypeOK, Session
<1>3. /\ e \in Data /\ e.profile = c.profile /\ e.records = c.records
      /\ e.baseline = c.baseline /\ e.button = b /\ e.last = c.last
      /\ e.status = "arming" /\ e.capture = sessions' /\ e.pending = None
      /\ e.uncertain = c.uncertain
  <2>1. PICK n \in Session : n = sessions'
    BY <1>2
  <2>2. e = Announced(c, b, n)
    BY <2>1
  <2> HIDE DEF e
  <2> QED
    BY <2>1, <2>2, Opening
<1> HIDE DEF e
<1>4. closed' \subseteq closed \cup ({PendingSession(c)} \ {None})
  BY <1>1, Closed
<1>5. Opens(c, e, b)
  BY <1>1, <1>3, <1>4 DEF Opens, MayOpen, Certain
<1> QED
  BY <1>3, <1>5

LEMMA NextButtonEffect ==
    ASSUME TypeOK, Saved, NEW b \in Button, NextButton(b)
    PROVE  \E c, d \in Data : Opens(c, d, b)
<1>1. data # None
  BY DEF NextButton, Started
<1> QED
  BY <1>1, InUse, OpenEffect DEF NextButton

LEMMA StartEffect ==
    ASSUME TypeOK, Saved, Start
    PROVE  \E c, d \in Data : Opens(c, d, "baseline")
  BY FreshProfile, OpenEffect DEF Start

LEMMA ArmRaisedEffect ==
    ASSUME TypeOK, Saved, Threads, ArmRaised
    PROVE  Quiet \/ Ending(data)
<1>1. data # None /\ http.session # None /\ http.at = "failed" /\ UNCHANGED sessions
  BY DEF ArmRaised, Threads
<1>2. CASE data.capture = http.session
  <2> DEFINE e == Shut(data, "expired", TRUE)
  <2>1. data \in Data /\ index = data.profile /\ files[index] = data
    BY <1>1, InUse
  <2>2. Save(e) /\ Close(http.session)
    BY <1>2 DEF ArmRaised, Shut
  <2>3. /\ e \in Data /\ e.profile = data.profile /\ e.records = data.records
        /\ e.baseline = data.baseline /\ e.button = data.button /\ e.last = data.last
        /\ e.status = "expired" /\ e.capture = None /\ e.pending = data.pending
        /\ e.uncertain = TRUE
    BY <2>1, Closing
  <2> HIDE DEF e
  <2>4. Ends(data, e)
    BY <1>1, <1>2, <2>1, <2>2, <2>3, Closed DEF Ends, Rewrites
  <2> QED
    BY <2>3, <2>4 DEF Ending
<1>3. CASE data.capture # http.session
  BY <1>1, <1>3 DEF ArmRaised, Quiet
<1> QED
  BY <1>2, <1>3

LEMMA ArmReturnedEffect ==
    ASSUME TypeOK, Saved, Threads, ArmReturned
    PROVE  Quiet \/ \E d \in Data : Readies(data, d)
<1>1. data # None /\ http.session # None /\ UNCHANGED <<sessions, closed>>
  BY DEF ArmReturned, Threads
<1>2. CASE data.capture = http.session
  <2> DEFINE e == [data EXCEPT !.status = "ready"]
  <2>1. data \in Data /\ index = data.profile /\ files[index] = data
    BY <1>1, InUse
  <2>2. Save(e)
    BY <1>2 DEF ArmReturned
  <2>3. /\ e \in Data /\ e.profile = data.profile /\ e.records = data.records
        /\ e.baseline = data.baseline /\ e.button = data.button /\ e.last = data.last
        /\ e.status = "ready" /\ e.capture = data.capture /\ e.pending = data.pending
        /\ e.uncertain = data.uncertain
    BY <2>1 DEF Data
  <2> HIDE DEF e
  <2>4. Readies(data, e)
    BY <1>1, <1>2, <2>1, <2>2, <2>3 DEF Readies, Rewrites
  <2> QED
    BY <2>3, <2>4
<1>3. CASE data.capture # http.session
  BY <1>1, <1>3 DEF ArmReturned, Quiet
<1> QED
  BY <1>2, <1>3

LEMMA ExpireEffect ==
    ASSUME TypeOK, Saved, NEW t \in Thread, Expire(t)
    PROVE  Quiet \/ Ending(data)
<1> DEFINE s == callback[t].session
<1>1. s \in Session /\ UNCHANGED sessions
  BY StateTypes DEF Expire, Drop
<1>2. CASE Expected(s) /\ Save([data EXCEPT !.status = "expired", !.capture = None,
                                            !.uncertain = TRUE]) /\ Close(s)
  <2> DEFINE e == Shut(data, "expired", TRUE)
  <2>1. data \in Data /\ index = data.profile /\ files[index] = data /\ data.capture = s
    BY <1>2, InUse DEF Expected
  <2>2. /\ e \in Data /\ e.profile = data.profile /\ e.records = data.records
        /\ e.baseline = data.baseline /\ e.button = data.button /\ e.last = data.last
        /\ e.status = "expired" /\ e.capture = None /\ e.pending = data.pending
        /\ e.uncertain = TRUE
    BY <2>1, Closing
  <2>3. Save(e) /\ Close(s)
    BY <1>2 DEF Shut
  <2> HIDE DEF e
  <2>4. Ends(data, e)
    BY <1>1, <2>1, <2>2, <2>3, Closed DEF Ends, Rewrites
  <2> QED
    BY <2>2, <2>4 DEF Ending
<1>3. CASE UNCHANGED <<data, store, closed>>
  BY <1>1, <1>3 DEF Quiet
<1> QED
  BY <1>2, <1>3 DEF Expire

LEMMA Bases ==
    ASSUME NEW b \in Button, NEW before \in State \cup {None}, NEW after \in State \cup {None}
    PROVE  /\ BasisOf(b, before, after) \in Basis
           /\ BasisOf(b, before, after) \in {"library_baseline", "library_state_transition"}
                /\ b # "baseline" => before # None
           /\ BasisOf(b, before, after)
                 \notin {"library_baseline", "library_state_transition"}
                /\ b = "baseline" => after = None
  BY DEF BasisOf, Basis

LEMMA AcceptEffect ==
    ASSUME TypeOK, Saved, data # None, NEW o \in Observation,
           NEW src \in {"library", "user_report_unverified"},
           Accept(data, o, src), UNCHANGED <<sessions, closed>>,
           \/ /\ Sees(data, o)
              /\ src = "library" /\ data.button # "baseline" => o.before # None
           \/ data.pending # None /\ o = data.pending /\ src # "library"
    PROVE  \E d \in Data, r \in Record : Adds(data, d, r)
<1> DEFINE r == [button |-> data.button, source |-> src, of |-> o]
           a == data.baseline \/ data.button = "baseline"
           u == data.uncertain /\ data.button # "baseline"
           e == Added(data, r, o.frame.state, a, u)
<1>1. data \in Data /\ index = data.profile /\ files[index] = data
  BY InUse
<1>2. data.button \in Button /\ data.baseline \in BOOLEAN /\ data.uncertain \in BOOLEAN
      /\ data.records \in Seq(Record) /\ o.frame.state \in State \cup {None}
  BY <1>1, DataFields, Numbers
<1>3. r \in Record /\ r.button = data.button /\ r.source = src /\ r.of = o
  BY <1>2 DEF Record
<1>4. Save(e)
  BY <1>1, <1>2 DEF Accept, Added, Data
<1>5. a \in BOOLEAN /\ u \in BOOLEAN
  BY <1>2
<1> HIDE DEF r
<1>6. /\ e \in Data /\ e.profile = data.profile /\ e.records = Append(data.records, r)
      /\ e.baseline = a /\ e.button = data.button /\ e.last = o.frame.state
      /\ e.status = "captured" /\ e.capture = None /\ e.pending = None /\ e.uncertain = u
  <2> HIDE DEF a, u
  <2> QED
    BY SMTT(30), <1>1, <1>2, <1>3, <1>5, Adding
<1>7. /\ e.baseline <=> data.baseline \/ data.button = "baseline"
      /\ e.uncertain <=> data.uncertain /\ data.button # "baseline"
  <2> HIDE DEF e
  <2> QED
    BY <1>6
<1> HIDE DEF e, a, u
<1>8. Rewrites(data, e)
  BY <1>1, <1>4, <1>6 DEF Rewrites
<1>9. \/ Sees(data, r.of) /\ (r.source = "library" /\ r.button # "baseline"
                                  => r.of.before # None)
      \/ data.pending # None /\ r.of = data.pending /\ r.source # "library"
  BY <1>3
<1>10. Adds(data, e, r)
  BY <1>3, <1>6, <1>7, <1>8, <1>9 DEF Adds
<1> QED
  BY <1>3, <1>6, <1>10

LEMMA ReceiveEffect ==
    ASSUME TypeOK, Saved, NEW t \in Thread, Receive(t)
    PROVE  \/ Quiet \/ Ending(data)
           \/ \E d \in Data, o \in Observation : Waits(data, d, o)
           \/ \E d \in Data, r \in Record : Adds(data, d, r)
<1> DEFINE f == callback[t].frame
           o == [frame |-> f, before |-> data.last,
                 basis |-> BasisOf(data.button, data.last, f.state)]
<1>0. \/ UNCHANGED <<data, store, closed>>
      \/ /\ Expected(f.session)
         /\ Save([data EXCEPT !.status = "rejected", !.capture = None,
                              !.pending = None, !.uncertain = TRUE])
         /\ Close(f.session)
      \/ /\ Expected(f.session) /\ UNCHANGED closed
         /\ o.basis \in {"library_baseline", "library_state_transition"}
         /\ Accept(data, o, "library")
      \/ /\ Expected(f.session) /\ UNCHANGED closed
         /\ o.basis \notin {"library_baseline", "library_state_transition"}
         /\ \E st \in {"needs_confirmation", "rejected"} : Save(Waited(data, o, st))
  BY DEF Receive, Waited
<1>1. /\ f \in Frame /\ UNCHANGED sessions /\ InFlight(f)
      /\ f.state \in State \cup {None} /\ f.session # None
  BY StateTypes, Numbers DEF Receive, Drop, InFlight
<1>2. CASE UNCHANGED <<data, store, closed>>
  BY <1>1, <1>2 DEF Quiet
<1>3. CASE /\ Expected(f.session)
           /\ Save([data EXCEPT !.status = "rejected", !.capture = None,
                                !.pending = None, !.uncertain = TRUE])
           /\ Close(f.session)
  <2> DEFINE e == Dropped(data, "rejected", TRUE)
  <2>1. data \in Data /\ index = data.profile /\ files[index] = data
        /\ data.capture = f.session
    BY <1>3, InUse DEF Expected
  <2>2. /\ e \in Data /\ e.profile = data.profile /\ e.records = data.records
        /\ e.baseline = data.baseline /\ e.button = data.button /\ e.last = data.last
        /\ e.status = "rejected" /\ e.capture = None /\ e.pending = None
        /\ e.uncertain = TRUE
    BY <2>1, Dropping
  <2>3. Save(e) /\ closed' \subseteq closed \cup ({f.session} \ {None})
    BY <1>3, Closed DEF Dropped
  <2> HIDE DEF e, f
  <2>4. Ends(data, e)
    BY <1>1, <2>1, <2>2, <2>3 DEF Ends, Rewrites
  <2> QED
    BY <2>2, <2>4 DEF Ending
<1>4. CASE /\ Expected(f.session) /\ UNCHANGED closed
           /\ \/ /\ o.basis \in {"library_baseline", "library_state_transition"}
                 /\ Accept(data, o, "library")
              \/ /\ o.basis \notin {"library_baseline", "library_state_transition"}
                 /\ \E st \in {"needs_confirmation", "rejected"} : Save(Waited(data, o, st))
  <2>1. data \in Data /\ index = data.profile /\ files[index] = data
        /\ data.capture = f.session /\ data # None
    BY <1>4, InUse DEF Expected
  <2>2. /\ data.button \in Button /\ data.last \in State \cup {None}
    BY <2>1, DataFields
  <2>3. o \in Observation /\ o.frame = f /\ o.before = data.last
        /\ o.basis = BasisOf(data.button, data.last, f.state)
    BY <1>1, <2>2, Bases DEF Observation
  <2>4. Sees(data, o)
    BY <1>1, <2>1, <2>3 DEF Sees
  <2>5. CASE /\ o.basis \in {"library_baseline", "library_state_transition"}
             /\ Accept(data, o, "library")
    <3>1. data.button # "baseline" => o.before # None
      BY <1>1, <2>2, <2>3, <2>5, Bases
    <3> HIDE DEF o, f
    <3> QED
      BY <1>1, <1>4, <2>1, <2>3, <2>4, <2>5, <3>1, AcceptEffect
  <2>6. ASSUME o.basis \notin {"library_baseline", "library_state_transition"},
               NEW st \in {"needs_confirmation", "rejected"}, Save(Waited(data, o, st))
        PROVE  \E d \in Data : Waits(data, d, o)
    <3> DEFINE e == Waited(data, o, st)
    <3>1. data.button = "baseline" => o.frame.state = None
      BY <1>1, <2>2, <2>3, <2>6, Bases
    <3> HIDE DEF o, f
    <3>2. /\ e \in Data /\ e.profile = data.profile /\ e.records = data.records
          /\ e.baseline = data.baseline /\ e.button = data.button
          /\ e.last = o.frame.state /\ e.status = st /\ e.capture = None
          /\ e.pending = o /\ e.uncertain = data.uncertain
      BY <2>1, <2>3, Waiting
    <3>3. Save(e)
      BY <2>6
    <3> HIDE DEF e
    <3>4. Waits(data, e, o)
      BY <1>1, <1>4, <2>1, <2>4, <3>1, <3>2, <3>3 DEF Waits, Rewrites
    <3> QED
      BY <3>2, <3>4
  <2> HIDE DEF o
  <2> QED
    BY <1>4, <2>3, <2>5, <2>6
<1> HIDE DEF o, f
<1> QED
  BY <1>0, <1>2, <1>3, <1>4

LEMMA ConfirmEffect ==
    ASSUME TypeOK, Saved, Confirm
    PROVE  \E d \in Data, r \in Record : Adds(data, d, r)
<1>1. data # None /\ data.pending # None /\ UNCHANGED <<sessions, closed>>
      /\ Accept(data, data.pending, "user_report_unverified")
  BY DEF Confirm
<1>2. data.pending \in Observation
  BY <1>1, InUse, DataFields
<1> QED
  BY <1>1, <1>2, AcceptEffect

LEMMA AbandonEffect ==
    ASSUME TypeOK, Saved, data # None, NEW st \in {"captured", "cancelled"}, NEW u \in BOOLEAN,
           data.uncertain \/ data.capture # None \/ st = "cancelled" => u,
           Save(Dropped(data, st, u)), UNCHANGED sessions,
           closed' = closed \cup ({data.capture, PendingSession(data)} \ {None})
    PROVE  Ending(data)
<1> DEFINE e == Dropped(data, st, u)
<1>1. data \in Data /\ index = data.profile /\ files[index] = data
  BY InUse
<1>2. /\ e \in Data /\ e.profile = data.profile /\ e.records = data.records
      /\ e.baseline = data.baseline /\ e.button = data.button /\ e.last = data.last
      /\ e.status = st /\ e.capture = None /\ e.pending = None /\ e.uncertain = u
  BY SMTT(30), <1>1, Dropping
<1> HIDE DEF e
<1>3. Ends(data, e)
  BY <1>1, <1>2 DEF e, Ends, Rewrites
<1> QED
  BY <1>2, <1>3 DEF Ending

LEMMA SkipEffect ==
    ASSUME TypeOK, Saved, Skip
    PROVE  Ending(data)
<1> DEFINE u == data.uncertain \/ data.capture # None
<1>1. data # None /\ data \in Data /\ UNCHANGED sessions
      /\ closed' = closed \cup ({data.capture, PendingSession(data)} \ {None})
  BY InUse DEF Skip, Abandon
<1>2. Save(Dropped(data, "captured", u))
  BY <1>1 DEF Skip, Abandon, Dropped, Data
<1>3. u \in BOOLEAN /\ (data.uncertain \/ data.capture # None => u)
  BY <1>1, DataFields
<1> HIDE DEF u
<1> QED
  BY <1>1, <1>2, <1>3, AbandonEffect

LEMMA CancelEffect ==
    ASSUME TypeOK, Saved, Cancel
    PROVE  Ending(data)
<1>1. data # None /\ data \in Data /\ UNCHANGED sessions
      /\ closed' = closed \cup ({data.capture, PendingSession(data)} \ {None})
  BY InUse DEF Cancel, Abandon
<1>2. Save(Dropped(data, "cancelled", TRUE))
  BY <1>1 DEF Cancel, Abandon, Dropped, Data
<1> QED
  BY <1>1, <1>2, AbandonEffect

LEMMA RestartEffect ==
    ASSUME TypeOK, Saved, Held(files[index]) \/ index = None, Restart
    PROVE  Quiet \/ Ending(files[index])
<1>1. UNCHANGED sessions
  BY DEF Restart
<1>2. CASE index = None
  BY <1>1, <1>2 DEF Restart, Quiet
<1>3. CASE index # None
  <2> DEFINE c == files[index]
             st == IF c.capture = None THEN c.status ELSE "expired"
             e == Shut(c, st, TRUE)
  <2>1. index \in Profile /\ c \in Data /\ c.profile = index
    BY <1>3, StateTypes DEF Saved
  <2>2. Save(e) /\ Close(c.capture)
    <3>1. /\ Save([c EXCEPT !.uncertain = TRUE, !.capture = None,
                            !.status = IF c.capture = None THEN @ ELSE "expired"])
          /\ Close(c.capture)
      BY <1>3 DEF Restart
    <3>2. e = [c EXCEPT !.uncertain = TRUE, !.capture = None,
                        !.status = IF c.capture = None THEN @ ELSE "expired"]
      <4> HIDE DEF c
      <4> QED
        BY <2>1 DEF Data, Shut
    <3> HIDE DEF e, c
    <3> QED
      BY <3>1, <3>2
  <2>3. c.status \in {"idle", "arming", "ready", "captured", "expired", "rejected",
                      "needs_confirmation", "cancelled"}
    BY <2>1 DEF Data
  <2>4. st \in {"expired", "rejected", "captured", "cancelled", "idle",
                "needs_confirmation", "ready", "arming"}
    <3> HIDE DEF c
    <3> QED
      BY <2>3
  <2>5. st \notin {"ready", "arming"}
    BY <1>3 DEF Held
  <2> HIDE DEF c, st
  <2>6. /\ e \in Data /\ e.profile = c.profile /\ e.records = c.records
        /\ e.baseline = c.baseline /\ e.button = c.button /\ e.last = c.last
        /\ e.status = st /\ e.capture = None /\ e.pending = c.pending
        /\ e.uncertain = TRUE
    BY ZenonT(60), <2>1, <2>4, Closing
  <2> HIDE DEF e
  <2>7. files[index] = c
    BY DEF c
  <2>8. closed' \subseteq closed \cup ({c.capture} \ {None})
    BY <2>2, Closed
  <2>9. Ends(c, e)
    BY <1>1, <2>1, <2>2, <2>5, <2>6, <2>7, <2>8 DEF Ends, Rewrites
  <2> QED
    BY <2>6, <2>7, <2>9 DEF Ending
<1> QED
  BY <1>2, <1>3

\* The service dies; a new profile may have been written without its index.
Dies == /\ data' = None /\ UNCHANGED <<index, sessions, closed>>
        /\ \/ UNCHANGED files
           \/ NewProfile \in Profile /\ files' = [files EXCEPT ![NewProfile] = Fresh]

Kind == \/ Quiet \/ Dies
        \/ \E c, d \in Data, b \in Button : Opens(c, d, b)
        \/ \E c, d \in Data : Ends(c, d) \/ Readies(c, d)
        \/ \E c, d \in Data, o \in Observation : Waits(c, d, o)
        \/ \E c, d \in Data, r \in Record : Adds(c, d, r)

LEMMA EndsKind ==
    ASSUME NEW c, Ending(c)
    PROVE  Kind
  BY DEF Ending, Kind, Ends, Rewrites

\* Every step is of one of these kinds.
LEMMA Kinds ==
    ASSUME TypeOK, Saved, Threads, Held(files[index]) \/ index = None, [Next]_vars
    PROVE  Kind
<1>1. CASE Request
  <2>1. Start => Kind
    BY StartEffect DEF Kind
  <2>2. StartCut => Kind
    BY DEF StartCut, Down, Kind, Dies
  <2>3. (\E b \in Button : NextButton(b)) => Kind
    BY NextButtonEffect DEF Kind
  <2>4. Confirm => Kind
    BY ConfirmEffect DEF Kind, Adds, Rewrites
  <2>5. Skip \/ Cancel => Kind
    BY SkipEffect, CancelEffect, EndsKind
  <2> QED
    BY <1>1, <2>1, <2>2, <2>3, <2>4, <2>5 DEF Request
<1>2. CASE HttpStep
  <2>1. ArmRaised => Kind
    BY ArmRaisedEffect, EndsKind DEF Kind
  <2>2. ArmReturned => Kind
    BY ArmReturnedEffect DEF Kind, Readies, Rewrites
  <2>3. ArmCollect \/ ArmFails \/ CancelCollect => Kind
    BY DEF ArmCollect, ArmFails, CancelCollect, modelOnly, Kind, Quiet
  <2> QED
    BY <1>2, <2>1, <2>2, <2>3 DEF HttpStep
<1>3. CASE \E t \in Thread : Callback(t)
  <2>1. ASSUME NEW t \in Thread, Receive(t)
        PROVE  Kind
    BY <2>1, ReceiveEffect, EndsKind DEF Kind, Waits, Adds, Rewrites
  <2>2. ASSUME NEW t \in Thread, Expire(t)
        PROVE  Kind
    BY <2>2, ExpireEffect, EndsKind DEF Kind
  <2> QED
    BY <1>3, <2>1, <2>2 DEF Callback
<1>4. Restart => Kind
  BY RestartEffect, EndsKind DEF Kind
<1>5. Crash => Kind
  BY DEF Crash, Down, Kind, Dies, store
<1>6. Watchdog \/ OnMessage \/ OnDisconnect \/ OnConnect => Kind
  BY DEF Watchdog, OnMessage, OnDisconnect, OnConnect, modelOnly, Kind, Quiet
<1>7. (\E m \in commands : OnCommand(m)) \/ WindowExpires \/ Reboot => Kind
  BY DEF OnCommand, WindowExpires, Reboot, hostOnly, Kind, Quiet
<1>8. (\E after \in State : Press(after)) => Kind
  BY DEF Press, hostOnly, Kind, Quiet
<1>9. UNCHANGED vars => Kind
  BY DEF vars, Kind, Quiet
<1> QED
  BY <1>1, <1>2, <1>3, <1>4, <1>5, <1>6, <1>7, <1>8, <1>9 DEF Next

-----------------------------------------------------------------------------
(* Types are kept *)

LEMMA SaveTypes ==
    ASSUME TypeOK, NEW d \in Data, Save(d)
    PROVE  /\ data' = d /\ index' = d.profile /\ index' \in Profile
           /\ files' \in [Profile -> Data \cup {None}] /\ files'[d.profile] = d
           /\ \A p \in Profile : p # d.profile => files'[p] = files[p]
<1> d.profile \in Profile
  BY DataFields
<1> QED
  BY DEF TypeOK, Save

LEMMA WindowsHeld ==
    ASSUME NEW c \in Data
    PROVE  {c.capture, PendingSession(c)} \ {None} \subseteq Session
  BY DataFields, Numbers DEF PendingSession

LEMMA StoreTypes ==
    ASSUME TypeOK, Kind, index # None => Held(files[index])
    PROVE  /\ data' \in Data \cup {None} /\ files' \in [Profile -> Data \cup {None}]
           /\ index' \in Profile \cup {None} /\ sessions' \in 0 .. MaxSession
           /\ closed' \subseteq Session
           /\ data' # None => Len(data'.records) <= MaxRecord
<1>0. closed \subseteq Session
  BY DEF TypeOK
<1>1. CASE Quiet
  BY <1>1 DEF Quiet, store, TypeOK
<1>2. CASE Dies
  <2> DEFINE n == NewProfile
  <2>1. CASE UNCHANGED files
    BY <1>2, <2>1 DEF Dies, TypeOK
  <2>2. CASE n \in Profile /\ files' = [files EXCEPT ![n] = Fresh]
    <3>1. Fresh \in Data
      BY <2>2, FreshProfile
    <3> HIDE DEF n
    <3> QED
      BY <1>2, <2>2, <3>1 DEF Dies, TypeOK
  <2> QED
    BY <1>2, <2>1, <2>2 DEF Dies
<1>3. ASSUME NEW c \in Data, NEW d \in Data, NEW b \in Button, Opens(c, d, b)
      PROVE  /\ Save(d) /\ Len(d.records) <= MaxRecord /\ sessions' \in 0 .. MaxSession
             /\ closed' \subseteq Session
  <2>1. Save(d) /\ Len(d.records) <= MaxRecord
    BY <1>3, DataFields DEF Opens
  <2>2. sessions' \in 0 .. MaxSession
    BY <1>3 DEF Opens, TypeOK
  <2> QED
    BY <1>0, <1>3, <2>1, <2>2, WindowsHeld DEF Opens
<1>4. ASSUME NEW c \in Data, NEW d \in Data, Ends(c, d) \/ Readies(c, d)
      PROVE  /\ Save(d) /\ Len(d.records) <= MaxRecord /\ sessions' \in 0 .. MaxSession
             /\ closed' \subseteq Session
  <2>1. index # None /\ files[index] = c /\ Save(d) /\ d.records = c.records
        /\ UNCHANGED sessions
    BY <1>4, DataFields DEF Ends, Readies, Rewrites, Numbers, Profile
  <2>2. Len(d.records) <= MaxRecord
    BY <2>1 DEF Held
  <2>3. closed' \subseteq Session
    BY <1>0, <1>4, WindowsHeld DEF Ends, Readies
  <2> QED
    BY <2>1, <2>2, <2>3 DEF TypeOK
<1>5. ASSUME NEW c \in Data, NEW d \in Data, NEW o \in Observation, Waits(c, d, o)
      PROVE  /\ Save(d) /\ Len(d.records) <= MaxRecord /\ sessions' \in 0 .. MaxSession
             /\ closed' \subseteq Session
  <2>1. index # None /\ files[index] = c /\ Save(d) /\ d.records = c.records
        /\ UNCHANGED <<sessions, closed>>
    BY <1>5, DataFields DEF Waits, Rewrites, Profile
  <2> QED
    BY <1>0, <2>1 DEF Held, TypeOK
<1>6. ASSUME NEW c \in Data, NEW d \in Data, NEW r \in Record, Adds(c, d, r)
      PROVE  /\ Save(d) /\ Len(d.records) <= MaxRecord /\ sessions' \in 0 .. MaxSession
             /\ closed' \subseteq Session
  <2>1. index # None /\ files[index] = c /\ Save(d) /\ d.records = Append(c.records, r)
        /\ UNCHANGED <<sessions, closed>> /\ (c.capture # None \/ c.pending # None)
    BY <1>6, DataFields DEF Adds, Sees, Rewrites, Profile
  <2>2. Len(d.records) = Len(c.records) + 1 /\ Len(c.records) \in Nat
    BY <2>1, DataFields
  <2> QED
    BY <1>0, <2>1, <2>2 DEF Held, TypeOK
<1>7. \A d \in Data : Save(d) => /\ data' \in Data \cup {None}
                                 /\ files' \in [Profile -> Data \cup {None}]
                                 /\ index' \in Profile \cup {None} /\ data' = d
  BY SaveTypes
<1> QED
  BY <1>1, <1>2, <1>3, <1>4, <1>5, <1>6, <1>7 DEF Kind

\* Constructors of the types, and what their members hold.
LEMMA Messages ==
    /\ \A at \in {"down", "idle", "arming", "waiting", "failed", "ready", "cancelling"},
          s \in Session \cup {None} : [at |-> at, session |-> s] \in Http
    /\ \A h \in Http : h.session \in Session \cup {None}
    /\ \A s \in Session : /\ [kind |-> "expire", session |-> s] \in Carried
                          /\ [kind |-> "ready", session |-> s] \in Event
                          /\ [kind |-> "ended", session |-> s] \in Event
                          /\ [kind |-> "start", session |-> s] \in Command
                          /\ [kind |-> "cancel", session |-> s] \in Command
    /\ \A f \in Frame : [kind |-> "capture", frame |-> f] \in Carried
    /\ \A s \in Session, f \in Frame :
          [kind |-> "capture", session |-> s, frame |-> f] \in Event
    /\ \A e \in Event : e.session \in Session /\ (e.kind = "capture" => e.frame \in Frame)
    /\ \A m \in Command : m.session \in Session
    /\ \A s \in Session, st \in State \cup {None}, w \in State, v \in BOOLEAN :
          [session |-> s, state |-> st, was |-> w, valid |-> v] \in Frame
  BY DEF Http, Carried, Event, Command, Frame

LEMMA NextEvent ==
    ASSUME TypeOK, events # <<>>
    PROVE  /\ Head(events) \in Event /\ Head(events) = events[1] /\ Len(events) >= 1
           /\ Tail(events) \in Seq(Event) /\ Len(Tail(events)) = Len(events) - 1
           /\ \A i \in 1 .. Len(events) - 1 : Tail(events)[i] = events[i + 1]
  BY DEF TypeOK

LEMMA EmitTypes ==
    ASSUME TypeOK, NEW e \in Event, Emit(e)
    PROVE  /\ events' \in Seq(Event)
           /\ UNCHANGED events \/ (/\ Up /\ Len(events') = Len(events) + 1
                                   /\ events'[Len(events) + 1] = e
                                   /\ \A i \in 1 .. Len(events) : events'[i] = events[i])
<1>1. events \in Seq(Event)
  BY DEF TypeOK
<1>2. CASE events' = Append(events, e) /\ Up
  BY <1>1, <1>2
<1>3. CASE UNCHANGED events
  BY <1>1, <1>3
<1> QED
  BY <1>2, <1>3 DEF Emit

\* The types of the transport, the node and the remote.
Outside == /\ http \in Http /\ collector \in Session \cup {None}
           /\ callback \in [Thread -> Carried \cup {None}] /\ link \in BOOLEAN
           /\ commands \subseteq Command /\ events \in Seq(Event)
           /\ window \in Session \cup {None} /\ remote \in State
           /\ pressed \in BOOLEAN /\ heard \in BOOLEAN

LEMMA RequestTypes ==
    ASSUME TypeOK, Saved, Kind, Request
    PROVE  Outside'
<1> <<>> \in Seq(Event)
  OBVIOUS
<1>1. CASE Start \/ \E b \in Button : NextButton(b)
  <2>1. \A d, b : Open(d, b) => Outside'
    <3> SUFFICES ASSUME NEW d, NEW b, Open(d, b) PROVE Outside'
      OBVIOUS
    <3>1. sessions' \in Session
      BY DEF Open, TypeOK, Session
    <3> QED
      BY <3>1, Messages DEF Open, Outside, TypeOK, transport
  <2> QED
    BY <1>1, <2>1 DEF Start, NextButton
<1>2. CASE StartCut
  BY <1>2, Messages DEF StartCut, Down, Outside, TypeOK, user
<1>3. CASE Confirm
  BY <1>3 DEF Confirm, Outside, TypeOK, transport, user
<1>4. CASE Skip \/ Cancel
  <2>1. data # None /\ data.capture \in Session \cup {None}
    BY <1>4, InUse, DataFields DEF Skip, Cancel
  <2>2. \A d : Abandon(d) => Outside'
    BY <2>1, Messages DEF Abandon, Outside, TypeOK, transport, user
  <2> QED
    BY <1>4, <2>2 DEF Skip, Cancel
<1> QED
  BY <1>1, <1>2, <1>3, <1>4 DEF Request

LEMMA HttpTypes ==
    ASSUME TypeOK, Threads, HttpStep
    PROVE  Outside'
<1>0. http.session \in Session \cup {None} /\ http \in Http
  BY Messages DEF TypeOK
<1>1. CASE ArmCollect
  <2>1. http.session \in Session
    BY <1>0, <1>1 DEF ArmCollect, Threads
  <2>2. http' \in Http
    BY <1>0, <1>1 DEF ArmCollect, Http
  <2> QED
    BY <1>1, <2>1, <2>2, Messages DEF ArmCollect, Publish, modelOnly, user, Outside, TypeOK
<1>2. CASE ArmFails
  <2>1. http' \in Http
    BY <1>0, <1>2 DEF ArmFails, Http
  <2> QED
    BY <1>2, <2>1 DEF ArmFails, modelOnly, user, Outside, TypeOK
<1>3. CASE ArmRaised
  BY <1>3, Messages DEF ArmRaised, transport, user, Outside, TypeOK
<1>4. CASE ArmReturned
  BY <1>4, Messages DEF ArmReturned, transport, user, Outside, TypeOK
<1>5. CASE CancelCollect
  <2>1. http.session \in Session
    BY <1>0, <1>5 DEF CancelCollect, Threads
  <2> QED
    BY <1>5, <2>1, Messages DEF CancelCollect, Publish, modelOnly, user, Outside, TypeOK
<1> QED
  BY <1>1, <1>2, <1>3, <1>4, <1>5 DEF HttpStep

LEMMA CallbackTypes ==
    ASSUME TypeOK, NEW t \in Thread, Callback(t)
    PROVE  Outside'
<1>1. Drop(t)
  BY DEF Callback, Receive, Expire
<1>2. heard' \in BOOLEAN
  <2>1. CASE Expire(t)
    BY <2>1 DEF Expire, TypeOK
  <2>2. CASE Receive(t)
    BY <2>2, StateTypes, Numbers DEF Receive, Expected, TypeOK
  <2> QED
    BY <2>1, <2>2 DEF Callback
<1>3. callback' \in [Thread -> Carried \cup {None}]
  BY <1>1 DEF Drop, TypeOK
<1>4. UNCHANGED window
  BY <1>1 DEF Drop
<1> QED
  BY <1>1, <1>2, <1>3, <1>4 DEF Drop, Outside, TypeOK

LEMMA HostTypes ==
    ASSUME TypeOK, Crash \/ Restart \/ OnMessage \/ OnDisconnect \/ OnConnect \/ Watchdog
    PROVE  Outside'
<1> <<>> \in Seq(Event)
  OBVIOUS
<1>1. CASE Crash
  BY <1>1, Messages DEF Crash, Down, Outside, TypeOK, user
<1>2. CASE Restart
  BY <1>2, Messages DEF Restart, Outside, TypeOK
<1>3. ASSUME NEW t \in Thread, collector # None, Collected(t, Expired)
      PROVE  collector' = None /\ callback' \in [Thread -> Carried \cup {None}]
  <2>1. Expired \in Carried
    BY <1>3, Messages DEF Expired, TypeOK
  <2> QED
    BY <1>3, <2>1 DEF Collected, TypeOK
<1>4. CASE OnMessage
  <2> DEFINE e == Head(events)
  <2>1. /\ e \in Event /\ events' \in Seq(Event)
    BY <1>4, NextEvent DEF OnMessage
  <2>2. http' \in Http
    BY <1>4, <2>1, Messages DEF OnMessage, TypeOK, Http
  <2>3. "paho" \in Thread
    BY DEF Thread
  <2>4. CASE UNCHANGED <<collector, callback>>
    BY <1>4, <2>1, <2>2, <2>4 DEF OnMessage, modelOnly, user, Outside, TypeOK
  <2>5. CASE e.session = collector /\ Collected("paho", IF e.kind = "capture"
                             THEN [kind |-> "capture", frame |-> e.frame] ELSE Expired)
    <3>1. (IF e.kind = "capture" THEN [kind |-> "capture", frame |-> e.frame]
           ELSE Expired) \in Carried
      BY <2>1, <2>5, Messages DEF Expired
    <3>2. collector' = None /\ callback' \in [Thread -> Carried \cup {None}]
      BY <2>3, <2>5, <3>1 DEF Collected, TypeOK
    <3> QED
      BY <1>4, <2>1, <2>2, <3>2 DEF OnMessage, modelOnly, user, Outside, TypeOK
  <2> QED
    BY <1>4, <2>4, <2>5 DEF OnMessage
<1>5. CASE OnDisconnect
  BY <1>3, <1>5 DEF OnDisconnect, modelOnly, user, Outside, TypeOK, Thread
<1>6. CASE OnConnect
  BY <1>6 DEF OnConnect, modelOnly, user, Outside, TypeOK
<1>7. CASE Watchdog
  BY <1>3, <1>7 DEF Watchdog, modelOnly, user, Outside, TypeOK, Thread
<1> QED
  BY <1>1, <1>2, <1>4, <1>5, <1>6, <1>7

LEMMA NodeTypes ==
    ASSUME TypeOK, (\E m \in commands : OnCommand(m)) \/ WindowExpires \/ Reboot
    PROVE  Outside'
<1>1. ASSUME NEW m \in commands, OnCommand(m)
      PROVE  Outside'
  <2>1. m.session \in Session
    BY Messages DEF TypeOK
  <2>2. events' \in Seq(Event) /\ window' \in Session \cup {None}
    BY <1>1, <2>1, Messages, EmitTypes DEF OnCommand, TypeOK
  <2> QED
    BY <1>1, <2>2 DEF OnCommand, hostOnly, user, Outside, TypeOK
<1>2. CASE WindowExpires
  <2>1. events' \in Seq(Event)
    BY <1>2, Messages, EmitTypes DEF WindowExpires, TypeOK
  <2> QED
    BY <1>2, <2>1 DEF WindowExpires, hostOnly, user, Outside, TypeOK
<1>3. CASE Reboot
  BY <1>3 DEF Reboot, hostOnly, user, Outside, TypeOK
<1> QED
  BY <1>1, <1>2, <1>3

\* The frame a press of the key may send.
PressFrame(after, state, valid) ==
    [session |-> window, state |-> state, was |-> remote, valid |-> valid]

LEMMA PressFacts ==
    ASSUME TypeOK, NEW after \in State, Press(after)
    PROVE  /\ remote' = after /\ UNCHANGED <<heard, commands>> /\ MayPress
           /\ pressed' = (data # None /\ data.capture # None)
           /\ window' \in {window, None} /\ events' \in Seq(Event)
           /\ \/ UNCHANGED events
              \/ /\ window # None /\ Up /\ Len(events') = Len(events) + 1
                 /\ \A i \in 1 .. Len(events) : events'[i] = events[i]
                 /\ \/ events'[Len(events) + 1] = [kind |-> "ended", session |-> window]
                    \/ \E state \in {after, None}, valid \in BOOLEAN :
                          /\ PressFrame(after, state, valid) \in Frame
                          /\ events'[Len(events) + 1] =
                               [kind |-> "capture", session |-> window,
                                frame |-> PressFrame(after, state, valid)]
<1>1. events \in Seq(Event) /\ window \in Session \cup {None} /\ remote \in State
  BY DEF TypeOK
<1>2. CASE UNCHANGED events
  BY <1>1, <1>2 DEF Press
<1>3. CASE window # None /\ Emit([kind |-> "ended", session |-> window])
  <2>1. [kind |-> "ended", session |-> window] \in Event
    BY <1>1, <1>3, Messages
  <2> QED
    BY <1>1, <1>3, <2>1, EmitTypes DEF Press
<1>4. ASSUME window # None, NEW state \in {after, None}, NEW valid \in BOOLEAN,
             Emit([kind |-> "capture", session |-> window,
                   frame |-> PressFrame(after, state, valid)])
      PROVE  /\ events' \in Seq(Event)
             /\ \/ UNCHANGED events
                \/ /\ Up /\ Len(events') = Len(events) + 1
                   /\ \A i \in 1 .. Len(events) : events'[i] = events[i]
                   /\ PressFrame(after, state, valid) \in Frame
                   /\ events'[Len(events) + 1] =
                        [kind |-> "capture", session |-> window,
                         frame |-> PressFrame(after, state, valid)]
  <2>1. PressFrame(after, state, valid) \in Frame
    BY <1>1, <1>4, Messages DEF PressFrame
  <2>2. [kind |-> "capture", session |-> window,
         frame |-> PressFrame(after, state, valid)] \in Event
    BY <1>1, <1>4, <2>1, Messages
  <2> QED
    BY <1>4, <2>1, <2>2, EmitTypes
<1>5. /\ remote' = after /\ UNCHANGED <<heard, commands>> /\ MayPress
      /\ pressed' = (data # None /\ data.capture # None)
      /\ window' \in {window, None}
  BY DEF Press, hostOnly
<1>6. \/ UNCHANGED events
      \/ window # None /\ Emit([kind |-> "ended", session |-> window])
      \/ /\ window # None
         /\ \E state \in {after, None}, valid \in BOOLEAN :
               Emit([kind |-> "capture", session |-> window,
                     frame |-> PressFrame(after, state, valid)])
  BY DEF Press, PressFrame
<1> QED
  BY <1>2, <1>3, <1>4, <1>5, <1>6

LEMMA PressTypes ==
    ASSUME TypeOK, NEW after \in State, Press(after)
    PROVE  Outside'
<1>1. /\ remote' \in State /\ window' \in Session \cup {None} /\ events' \in Seq(Event)
      /\ pressed' \in BOOLEAN /\ UNCHANGED <<heard, commands>>
  BY PressFacts DEF TypeOK
<1>2. UNCHANGED hostOnly
  BY DEF Press
<1> QED
  BY <1>1, <1>2 DEF hostOnly, Outside, TypeOK

LEMMA TypesKept ==
    ASSUME IInv, [Next]_vars
    PROVE  TypeOK'
<1> USE DEF IInv
<1>1. Kind
  BY Kinds
<1>2. Outside'
  <2>1. UNCHANGED vars => Outside'
    BY DEF vars, user, transport, Outside, TypeOK
  <2> QED
    BY <1>1, <2>1, RequestTypes, HttpTypes, CallbackTypes, HostTypes, NodeTypes, PressTypes
    DEF Next
<1> QED
  BY <1>1, <1>2, StoreTypes DEF Outside, TypeOK

-----------------------------------------------------------------------------
(* Files and records *)

\* The number of a new profile is the next one, and its file is not there yet.
LEMMA NewNumber ==
    ASSUME TypeOK, Saved
    PROVE  /\ NewProfile \in Nat
           /\ \A p \in Profile : files[p] # None <=> p < NewProfile
<1>1. PICK k \in 0 .. MaxProfile : \A p \in Profile : files[p] # None <=> p <= k
  BY DEF Saved
<1>2. {p \in Profile : files[p] # None} = 1 .. k
  BY <1>1 DEF Profile
<1>3. Cardinality(1 .. k) = k
  <2>1. k \in Int /\ 1 \in Int /\ (1 > k => k = 0)
    BY <1>1
  <2> QED
    BY <2>1, FS_Interval
<1>4. NewProfile = k + 1
  BY <1>2, <1>3 DEF NewProfile
<1> QED
  BY <1>1, <1>4 DEF Profile

\* A step writes one file at most: of the profile in use, or a new one.
LEMMA FilesChange ==
    ASSUME TypeOK, Saved, Kind
    PROVE  \/ UNCHANGED files /\ UNCHANGED index
           \/ \E d \in Data :
                 /\ files' = [files EXCEPT ![d.profile] = d]
                 /\ index' \in {index, d.profile}
                 /\ \/ index = d.profile
                    \/ d.profile = NewProfile /\ d.records = <<>>
<1>1. CASE Quiet
  BY <1>1 DEF Quiet, store
<1>2. CASE Dies
  BY <1>2, FreshProfile DEF Dies
<1>3. ASSUME NEW c \in Data, NEW d \in Data, NEW b \in Button, Opens(c, d, b)
      PROVE  Save(d) /\ (index = d.profile \/ (d.profile = NewProfile /\ d.records = <<>>))
  BY <1>3 DEF Opens
<1>4. ASSUME NEW c \in Data, NEW d \in Data, Ends(c, d) \/ Readies(c, d)
      PROVE  Save(d) /\ index = d.profile
  BY <1>4 DEF Ends, Readies, Rewrites
<1>5. ASSUME NEW c \in Data, NEW d \in Data, NEW o \in Observation, Waits(c, d, o)
      PROVE  Save(d) /\ index = d.profile
  BY <1>5 DEF Waits, Rewrites
<1>6. ASSUME NEW c \in Data, NEW d \in Data, NEW r \in Record, Adds(c, d, r)
      PROVE  Save(d) /\ index = d.profile
  BY <1>6 DEF Adds, Rewrites
<1>7. \A d \in Data : Save(d) => /\ files' = [files EXCEPT ![d.profile] = d]
                                 /\ index' = d.profile
  BY DEF Save
<1> QED
  BY <1>1, <1>2, <1>3, <1>4, <1>5, <1>6, <1>7 DEF Kind

LEMMA SavedKept ==
    ASSUME TypeOK, Saved, Kind
    PROVE  Saved'
<1>1. files \in [Profile -> Data \cup {None}] /\ (index # None => index \in Profile)
  BY DEF TypeOK
<1>2. PICK k \in 0 .. MaxProfile : \A p \in Profile : files[p] # None <=> p <= k
  BY DEF Saved
<1>3. data' # None => index' = data'.profile /\ files'[index'] = data'
  <2>1. \A d \in Data : Save(d) => data' = d /\ index' = d.profile /\ files'[d.profile] = d
    BY SaveTypes
  <2>2. Quiet \/ Dies => (data' # None => index' = data'.profile /\ files'[index'] = data')
    BY DEF Quiet, Dies, store, Saved
  <2> QED
    BY <2>1, <2>2 DEF Kind, Opens, Ends, Readies, Waits, Adds, Rewrites
<1>4. CASE UNCHANGED files /\ UNCHANGED index
  BY <1>3, <1>4 DEF Saved
<1>5. ASSUME NEW d \in Data, files' = [files EXCEPT ![d.profile] = d],
             index' \in {index, d.profile},
             index = d.profile \/ d.profile = NewProfile
      PROVE  Saved'
  <2>1. d.profile \in Profile /\ d # None
    BY DataFields
  <2>2. /\ files'[d.profile] = d
        /\ \A p \in Profile : p # d.profile => files'[p] = files[p]
    BY <1>1, <1>5, <2>1
  <2>3. \E n \in 0 .. MaxProfile : \A p \in Profile : files'[p] # None <=> p <= n
    <3>1. CASE files[d.profile] # None
      BY <1>2, <2>1, <2>2, <3>1
    <3>2. CASE files[d.profile] = None
      <4>1. d.profile = NewProfile /\ \A p \in Profile : files[p] # None <=> p < d.profile
        BY <1>5, <2>1, <3>2, NewNumber DEF Saved, Profile, Numbers
      <4> QED
        BY <2>1, <2>2, <4>1 DEF Profile
    <3> QED
      BY <3>1, <3>2
  <2>4. \A p \in Profile : files'[p] # None => files'[p].profile = p
    BY <2>2 DEF Saved
  <2>5. index' # None => files'[index'] # None
    BY <1>1, <1>5, <2>1, <2>2 DEF Saved
  <2> QED
    BY <1>3, <2>3, <2>4, <2>5 DEF Saved
<1> QED
  BY <1>4, <1>5, FilesChange

LEMMA RewrittenRecords ==
    ASSUME TypeOK, NEW c \in Data, NEW d \in Data, Rewrites(c, d)
    PROVE  \E q \in Profile : /\ q = index /\ Records(q) = c.records
                              /\ Records(q)' = d.records
                              /\ \A p \in Profile \ {q} : Records(p)' = Records(p)
<1>1. files \in [Profile -> Data \cup {None}]
  BY DEF TypeOK
<1>2. PICK q \in Profile : q = index
  BY DataFields DEF Rewrites
<1>3. /\ files' = [files EXCEPT ![q] = d] /\ files[q] = c /\ c # None /\ d # None
  BY <1>2, DataFields DEF Rewrites, Save
<1> QED
  BY <1>1, <1>2, <1>3 DEF Records

\* Only a record that is added changes what is saved.
Keeps == \/ Quiet \/ Dies
         \/ \E c, d \in Data, b \in Button : Opens(c, d, b)
         \/ \E c, d \in Data : Ends(c, d) \/ Readies(c, d)
         \/ \E c, d \in Data, o \in Observation : Waits(c, d, o)

LEMMA KeptRecords ==
    ASSUME TypeOK, Saved, Keeps
    PROVE  \A p \in Profile : Records(p)' = Records(p)
<1>1. files \in [Profile -> Data \cup {None}]
  BY DEF TypeOK
<1>3. ASSUME NEW d \in Data, files' = [files EXCEPT ![d.profile] = d],
             d.profile = NewProfile, d.records = <<>>
      PROVE  \A p \in Profile : Records(p)' = Records(p)
  <2>1. d.profile \in Profile /\ d # None
    BY DataFields
  <2>2. files[d.profile] = None
    BY <1>3, <2>1, NewNumber
  <2> QED
    BY <1>1, <1>3, <2>1, <2>2 DEF Records
<1>4. CASE UNCHANGED files
  BY <1>4 DEF Records
<1>5. ASSUME NEW c \in Data, NEW d \in Data, Rewrites(c, d), d.records = c.records
      PROVE  \A p \in Profile : Records(p)' = Records(p)
  BY <1>5, RewrittenRecords
<1>6. CASE Quiet
  BY <1>4, <1>6 DEF Quiet, store
<1>7. CASE Dies
  BY <1>3, <1>4, <1>7, FreshProfile DEF Dies
<1>8. ASSUME NEW c \in Data, NEW d \in Data, NEW b \in Button, Opens(c, d, b)
      PROVE  \A p \in Profile : Records(p)' = Records(p)
  <2>1. files' = [files EXCEPT ![d.profile] = d] /\ d.records = c.records
        /\ d.profile = c.profile
    BY <1>8 DEF Opens, Save
  <2>2. CASE c.profile = NewProfile /\ c.records = <<>>
    BY <1>3, <2>1, <2>2
  <2>3. CASE index = c.profile /\ files[index] = c
    <3>1. c.profile \in Profile /\ c # None /\ d # None
      BY DataFields
    <3> QED
      BY <1>1, <2>1, <2>3, <3>1 DEF Records
  <2> QED
    BY <1>8, <2>2, <2>3 DEF Opens
<1> QED
  BY <1>5, <1>6, <1>7, <1>8 DEF Keeps, Ends, Readies, Waits

\* The records of all profiles but one stay, and that one may gain a record.
LEMMA RecordsChange ==
    ASSUME TypeOK, Saved, Kind
    PROVE  \/ \A p \in Profile : Records(p)' = Records(p)
           \/ \E c, d \in Data, r \in Record, q \in Profile :
                 /\ Adds(c, d, r) /\ q = index /\ Records(q) = c.records
                 /\ Records(q)' = Append(Records(q), r)
                 /\ \A p \in Profile \ {q} : Records(p)' = Records(p)
<1>1. ASSUME NEW c \in Data, NEW d \in Data, NEW r \in Record, Adds(c, d, r)
      PROVE  \E q \in Profile :
                 /\ q = index /\ Records(q) = c.records
                 /\ Records(q)' = Append(Records(q), r)
                 /\ \A p \in Profile \ {q} : Records(p)' = Records(p)
  <2>1. Rewrites(c, d) /\ d.records = Append(c.records, r)
    BY <1>1 DEF Adds
  <2>2. PICK q \in Profile : /\ q = index /\ Records(q) = c.records
                             /\ Records(q)' = d.records
                             /\ \A p \in Profile \ {q} : Records(p)' = Records(p)
    BY <2>1, RewrittenRecords
  <2> QED
    BY <2>1, <2>2
<1> QED
  BY <1>1, KeptRecords DEF Kind, Keeps

-----------------------------------------------------------------------------
(* Frames on their way *)

NoNewFrame == \A f \in Frame : InFlight(f)' => InFlight(f)

LEMMA SameFrames ==
    ASSUME UNCHANGED <<events, callback>>
    PROVE  NoNewFrame
  BY DEF NoNewFrame, InFlight, Carries

LEMMA FramesGone ==
    ASSUME events' = <<>>, \A t \in Thread : callback'[t] = None
    PROVE  NoNewFrame
  BY DEF NoNewFrame, InFlight, Carries

\* A thread took what is no frame, or a frame from the events.
LEMMA FramesCarried ==
    ASSUME TypeOK, NEW t \in Thread, NEW what \in Carried,
           callback' = [callback EXCEPT ![t] = what],
           what.kind = "capture" =>
              \E i \in 1 .. Len(events) : events[i].kind = "capture"
                                          /\ events[i].frame = what.frame,
           \A i \in 1 .. Len(events') :
              \E j \in 1 .. Len(events) : events'[i] = events[j]
    PROVE  NoNewFrame
<1>1. \A u \in Thread : callback'[u] = IF u = t THEN what ELSE callback[u]
  BY DEF TypeOK
<1> SUFFICES ASSUME NEW f \in Frame, InFlight(f)'
             PROVE  InFlight(f)
  BY DEF NoNewFrame
<1>2. CASE \E i \in 1 .. Len(events') : events'[i].kind = "capture" /\ events'[i].frame = f
  BY <1>2 DEF InFlight
<1>3. CASE \E u \in Thread : Carries(u, "capture")' /\ callback'[u].frame = f
  BY <1>1, <1>3 DEF InFlight, Carries
<1> QED
  BY <1>2, <1>3 DEF InFlight

LEMMA FramesEmitted ==
    ASSUME TypeOK, NEW e \in Event, e.kind # "capture", Emit(e), UNCHANGED callback
    PROVE  NoNewFrame
<1>1. events \in Seq(Event)
  BY DEF TypeOK
<1>2. CASE UNCHANGED events
  BY <1>2, SameFrames
<1>3. CASE /\ Len(events') = Len(events) + 1
           /\ events'[Len(events) + 1] = e
           /\ \A i \in 1 .. Len(events) : events'[i] = events[i]
  <2>1. \A i \in 1 .. Len(events') : events'[i].kind = "capture"
                                       => i \in 1 .. Len(events) /\ events'[i] = events[i]
    BY <1>1, <1>3
  <2> QED
    BY <2>1 DEF NoNewFrame, InFlight, Carries
<1> QED
  BY <1>2, <1>3, EmitTypes

\* Only a press makes a frame, and the remote changes.
LEMMA NoPress ==
    ASSUME TypeOK, Next, ~\E after \in State : Press(after)
    PROVE  NoNewFrame /\ UNCHANGED remote
<1>0. events \in Seq(Event) /\ callback \in [Thread -> Carried \cup {None}]
      /\ "paho" \in Thread /\ "watchdog" \in Thread
  BY DEF TypeOK, Thread
<1>a. ASSUME NEW t \in Thread, collector # None, Collected(t, Expired),
             events' = <<>> \/ UNCHANGED events
      PROVE  NoNewFrame
  <2>1. Expired \in Carried /\ Expired.kind = "expire"
    BY <1>a, Messages DEF Expired, TypeOK
  <2>2. \A i \in 1 .. Len(events') : \E j \in 1 .. Len(events) : events'[i] = events[j]
    BY <1>0, <1>a
  <2> QED
    BY <1>a, <2>1, <2>2, FramesCarried DEF Collected
<1>1. CASE Request
  <2>1. \A d, b : Open(d, b) => UNCHANGED <<events, callback, remote>>
    BY DEF Open, transport
  <2>2. \A d : Abandon(d) => UNCHANGED <<events, callback, remote>>
    BY DEF Abandon, transport, user
  <2>3. CASE StartCut
    BY <2>3, FramesGone DEF StartCut, Down, user
  <2>4. CASE Confirm
    BY <2>4, SameFrames DEF Confirm, transport, user
  <2> QED
    BY <1>1, <2>1, <2>2, <2>3, <2>4, SameFrames DEF Request, Start, NextButton, Skip, Cancel
<1>2. CASE HttpStep
  BY <1>2, SameFrames
  DEF HttpStep, ArmCollect, ArmFails, ArmRaised, ArmReturned, CancelCollect, modelOnly,
      transport, user
<1>3. CASE Crash
  BY <1>3, FramesGone DEF Crash, Down, user
<1>4. CASE Restart
  BY <1>4, SameFrames DEF Restart
<1>5. ASSUME NEW t \in Thread, Callback(t)
      PROVE  NoNewFrame /\ UNCHANGED remote
  <2>1. Drop(t)
    BY <1>5 DEF Callback, Receive, Expire
  <2>2. \A u \in Thread : callback'[u] # None => callback'[u] = callback[u]
    BY <1>0, <2>1 DEF Drop
  <2> QED
    BY <2>1, <2>2 DEF Drop, NoNewFrame, InFlight, Carries
<1>6. CASE Watchdog
  BY <1>0, <1>6, <1>a DEF Watchdog, modelOnly, user
<1>7. CASE OnMessage
  <2> DEFINE e == Head(events)
             what == IF e.kind = "capture" THEN [kind |-> "capture", frame |-> e.frame]
                     ELSE Expired
  <2>1. /\ e \in Event /\ e = events[1] /\ 1 \in 1 .. Len(events)
        /\ \A i \in 1 .. Len(events') : \E j \in 1 .. Len(events) : events'[i] = events[j]
    <3>1. events # <<>> /\ events' = Tail(events)
      BY <1>7 DEF OnMessage
    <3>2. /\ e \in Event /\ e = events[1] /\ 1 \in 1 .. Len(events)
          /\ Len(events') = Len(events) - 1
          /\ \A i \in 1 .. Len(events) - 1 : events'[i] = events[i + 1]
      BY <1>0, <3>1, NextEvent
    <3>3. \A i \in 1 .. Len(events') : i + 1 \in 1 .. Len(events) /\ events'[i] = events[i + 1]
      BY <1>0, <3>2
    <3> QED
      BY <3>2, <3>3
  <2>2. CASE UNCHANGED callback
    <3> HIDE DEF e
    <3>1. NoNewFrame
      BY <2>1, <2>2 DEF NoNewFrame, InFlight, Carries
    <3> QED
      BY <1>7, <3>1 DEF OnMessage, modelOnly, user
  <2>3. CASE e.session = collector /\ Collected("paho", what)
    <3>1. what \in Carried /\ (what.kind = "capture" => e.kind = "capture"
                                                        /\ what.frame = e.frame)
      BY <2>1, <2>3, Messages DEF Expired
    <3> HIDE DEF what, e
    <3>2. NoNewFrame
      BY <1>0, <2>1, <2>3, <3>1, FramesCarried DEF Collected
    <3> QED
      BY <1>7, <3>2 DEF OnMessage, modelOnly, user
  <2> QED
    BY <1>7, <2>2, <2>3 DEF OnMessage
<1>8. CASE OnDisconnect
  <2>1. CASE collector = None
    <3>1. events' = <<>> /\ UNCHANGED <<callback, remote>>
      BY <1>8, <2>1 DEF OnDisconnect, modelOnly, user
    <3> QED
      BY <3>1 DEF NoNewFrame, InFlight, Carries
  <2>2. CASE collector # None
    BY <1>0, <1>8, <1>a, <2>2 DEF OnDisconnect, modelOnly, user
  <2> QED
    BY <2>1, <2>2
<1>9. CASE OnConnect
  BY <1>9, SameFrames DEF OnConnect, modelOnly, user
<1>10. ASSUME NEW m \in commands, OnCommand(m)
       PROVE  NoNewFrame /\ UNCHANGED remote
  <2>1. m.session \in Session
    BY Messages DEF TypeOK
  <2>2. UNCHANGED <<callback, remote>>
    BY <1>10 DEF OnCommand, hostOnly, user
  <2>3. CASE UNCHANGED events
    BY <2>2, <2>3, SameFrames
  <2>4. ASSUME NEW k \in {"ready", "ended"}, Emit([kind |-> k, session |-> m.session])
        PROVE  NoNewFrame
    <3>1. /\ [kind |-> k, session |-> m.session] \in Event
          /\ [kind |-> k, session |-> m.session].kind # "capture"
      BY <2>1, Messages
    <3> QED
      BY <2>2, <2>4, <3>1, FramesEmitted
  <2> QED
    BY <1>10, <2>2, <2>3, <2>4 DEF OnCommand
<1>11. CASE WindowExpires
  <2>1. /\ [kind |-> "ended", session |-> window] \in Event
        /\ [kind |-> "ended", session |-> window].kind # "capture"
    BY <1>11, Messages DEF WindowExpires, TypeOK
  <2> QED
    BY <1>11, <2>1, FramesEmitted DEF WindowExpires, hostOnly, user
<1>12. CASE Reboot
  BY <1>12, SameFrames DEF Reboot, hostOnly, user
<1> QED
  BY <1>1, <1>2, <1>3, <1>4, <1>5, <1>6, <1>7, <1>8, <1>9, <1>10, <1>11, <1>12 DEF Next

\* A press makes one frame, of the window the node is armed for.
LEMMA OnePress ==
    ASSUME TypeOK, NEW after \in State, Press(after)
    PROVE  \A f \in Frame : InFlight(f)' =>
              \/ InFlight(f)
              \/ /\ window # None /\ Up /\ f.session = window
                 /\ f.state \in {after, None} /\ f.was = remote
<1> SUFFICES ASSUME NEW f \in Frame, InFlight(f)', ~InFlight(f)
             PROVE  /\ window # None /\ Up /\ f.session = window
                    /\ f.state \in {after, None} /\ f.was = remote
  OBVIOUS
<1>1. UNCHANGED callback /\ events \in Seq(Event)
  BY DEF Press, hostOnly, TypeOK
<1>2. PICK i \in 1 .. Len(events') : events'[i].kind = "capture" /\ events'[i].frame = f
  BY <1>1 DEF InFlight, Carries
<1>3. ~UNCHANGED events /\ i \notin 1 .. Len(events)
  <2>1. ~(i \in 1 .. Len(events) /\ events'[i] = events[i])
    BY <1>2 DEF InFlight
  <2>2. \A j \in 1 .. Len(events) : events'[j] = events[j]
    BY <1>1, PressFacts
  <2> QED
    BY <1>2, <2>1, <2>2
<1>4. window # None /\ Up /\ i = Len(events) + 1
  BY <1>1, <1>2, <1>3, PressFacts
<1>5. PICK state \in {after, None}, valid \in BOOLEAN :
         events'[i] = [kind |-> "capture", session |-> window,
                       frame |-> PressFrame(after, state, valid)]
  BY <1>2, <1>3, <1>4, PressFacts
<1>6. f = PressFrame(after, state, valid)
  BY <1>2, <1>5
<1> QED
  BY <1>4, <1>6 DEF PressFrame

-----------------------------------------------------------------------------
(* The invariant is kept *)

LEMMA MoreSessions ==
    ASSUME TypeOK, Kind
    PROVE  /\ sessions \in Nat /\ sessions' \in Nat /\ sessions' >= sessions
           /\ sessions' # sessions => \E c, d \in Data, b \in Button : Opens(c, d, b)
<1>1. sessions \in Nat
  BY DEF TypeOK
<1> QED
  BY <1>1 DEF Kind, Quiet, Dies, Opens, Ends, Readies, Waits, Adds, Rewrites

LEMMA ThreadsKept ==
    ASSUME IInv, [Next]_vars
    PROVE  Threads'
<1> USE DEF IInv
<1>0. Kind /\ sessions \in Nat /\ sessions' \in Nat /\ sessions' >= sessions
  BY Kinds, MoreSessions
<1>1. CASE Start \/ \E b \in Button : NextButton(b)
  <2>1. PICK c \in Data, d \in Data, b \in Button : Opens(c, d, b)
    BY <1>1, StartEffect, NextButtonEffect
  <2>2. http' = [at |-> "arming", session |-> sessions'] /\ data' = d /\ d # None
        /\ sessions' # None
    BY <1>0, <2>1, DataFields DEF Opens, Save
  <2> QED
    BY <1>0, <2>2 DEF Threads
<1>2. CASE StartCut \/ Crash
  BY <1>2 DEF StartCut, Crash, Down, Threads
<1>3. CASE Confirm
  BY <1>3, ConfirmEffect, DataFields DEF Confirm, Threads
<1>4. CASE Skip \/ Cancel
  <2>1. /\ data \in Data /\ http.at = "idle" /\ index # None /\ files[index] = data
        /\ http' = IF data.capture = None THEN http
                   ELSE [at |-> "cancelling", session |-> data.capture]
    BY <1>4, InUse, DataFields, StateTypes DEF Skip, Cancel, Abandon, Profile
  <2>2. PICK d \in Data : Ends(data, d)
    BY <1>4, SkipEffect, CancelEffect DEF Ending
  <2>3. data' # None
    BY <2>2, DataFields DEF Ends, Rewrites, Save
  <2>4. data.capture # None => data.capture <= sessions'
    <3>1. data.capture # None => data.capture <= sessions /\ data.capture \in Nat
      BY <2>1, DataFields, Numbers DEF Held, Unused
    <3> QED
      BY <1>0, <3>1
  <2>5. data.capture # None => http'.session = data.capture /\ http'.at = "cancelling"
    BY <2>1
  <2>6. data.capture = None => http' = http
    BY <2>1
  <2> QED
    BY <2>1, <2>3, <2>4, <2>5, <2>6 DEF Threads
<1>5. CASE ArmRaised \/ ArmReturned
  BY <1>5 DEF ArmRaised, ArmReturned, Threads
<1>6. CASE ArmCollect \/ ArmFails \/ CancelCollect
  <2>1. UNCHANGED <<data, sessions>>
    BY <1>6 DEF ArmCollect, ArmFails, CancelCollect, modelOnly
  <2>2. \/ http'.at = "idle"
        \/ /\ http.at \notin {"down", "idle"} /\ http'.at \notin {"down", "idle"}
           /\ http'.session = http.session
    BY <1>6 DEF ArmCollect, ArmFails, CancelCollect, TypeOK, Http
  <2> QED
    BY <2>1, <2>2 DEF Threads
<1>7. CASE Restart
  BY <1>7 DEF Restart, Threads
<1>8. ASSUME NEW t \in Thread, Callback(t)
      PROVE  Threads'
  <2>1. UNCHANGED <<http, sessions>> /\ callback[t] # None
    BY <1>8 DEF Callback, Receive, Expire, Drop, Carries
  <2>2. http.at # "down"
    BY <2>1 DEF Threads
  <2>3. data # None => data' # None
    BY <1>8, ReceiveEffect, ExpireEffect, DataFields
    DEF Callback, Quiet, Ending, Ends, Waits, Adds, Rewrites, Save
  <2> QED
    BY <2>1, <2>2, <2>3 DEF Threads
<1>9. CASE Watchdog
  BY <1>9 DEF Watchdog, modelOnly, Threads
<1>10. CASE OnMessage
  <2>1. UNCHANGED <<data, sessions>> /\ http.at # "down"
    BY <1>10 DEF OnMessage, modelOnly, Up
  <2>2. \/ UNCHANGED http
        \/ /\ http.at = "waiting" /\ http'.at = "ready" /\ http'.session = http.session
    BY <1>10 DEF OnMessage, TypeOK, Http
  <2> QED
    BY <2>1, <2>2 DEF Threads
<1>11. CASE OnDisconnect \/ OnConnect
  BY <1>11 DEF OnDisconnect, OnConnect, modelOnly, Up, Threads
<1>12. CASE (\E m \in commands : OnCommand(m)) \/ WindowExpires \/ Reboot
            \/ \E after \in State : Press(after)
  <2>1. UNCHANGED <<data, http, collector, callback, sessions>>
    BY <1>12 DEF OnCommand, WindowExpires, Reboot, Press, hostOnly
  <2>2. http.at = "down" => UNCHANGED events
    BY <1>12 DEF OnCommand, WindowExpires, Reboot, Press, Emit, Up
  <2> QED
    BY <2>1, <2>2 DEF Threads
<1>13. CASE UNCHANGED vars
  BY <1>13 DEF vars, transport, Threads
<1> QED
  BY <1>1, <1>2, <1>3, <1>4, <1>5, <1>6, <1>7, <1>8, <1>9, <1>10, <1>11, <1>12, <1>13
  DEF Next, Request, HttpStep

\* The window a profile has open, and the one that waits, have given no record.
LEMMA HeldFacts ==
    ASSUME IInv, NEW c \in Data, index = c.profile, files[index] = c
    PROVE  /\ index # None /\ Held(c)
           /\ \A s \in {c.capture, PendingSession(c)} \ {None} : s \in Session /\ Unused(s)
<1>1. index # None /\ Held(c)
  BY DataFields, Numbers DEF IInv, Profile
<1>2. {c.capture, PendingSession(c)} \ {None} \subseteq Session
  BY WindowsHeld
<1>3. c.capture # None => Unused(c.capture)
  BY <1>1 DEF Held
<1>4. PendingSession(c) # None => Unused(PendingSession(c))
  BY <1>1 DEF Held, PendingSession
<1> QED
  BY <1>1, <1>2, <1>3, <1>4

\* A window is closed before it gave a record.
LEMMA Closes ==
    ASSUME IInv, Kind
    PROVE  \A s \in closed' : s \in closed \/ Unused(s)
<1> USE DEF IInv
<1>1. ASSUME NEW c \in Data, NEW d \in Data, Ends(c, d)
      PROVE  \A s \in closed' : s \in closed \/ Unused(s)
  BY <1>1, HeldFacts DEF Ends, Rewrites
<1>2. ASSUME NEW c \in Data, NEW d \in Data, NEW b \in Button, Opens(c, d, b)
      PROVE  \A s \in closed' : s \in closed \/ Unused(s)
  <2>1. CASE c.pending = None
    BY <1>2, <2>1 DEF Opens, PendingSession
  <2>2. CASE index = c.profile /\ files[index] = c
    BY <1>2, <2>2, HeldFacts DEF Opens
  <2> QED
    BY <1>2, <2>1, <2>2 DEF Opens
<1>3. UNCHANGED closed => \A s \in closed' : s \in closed \/ Unused(s)
  OBVIOUS
<1> QED
  BY <1>1, <1>2, <1>3 DEF Kind, Quiet, Dies, Readies, Waits, Adds

LEMMA NumberedKept ==
    ASSUME IInv, [Next]_vars
    PROVE  Numbered'
<1> USE DEF IInv
<1>0. /\ Kind /\ sessions \in Nat /\ sessions' \in Nat /\ sessions' >= sessions
      /\ closed \subseteq Session /\ Session \subseteq Nat
  BY Kinds, MoreSessions DEF TypeOK, Session
<1>1. \A s \in closed' : s <= sessions'
  <2>1. \A s \in closed' : s <= sessions
    BY <1>0, Closes DEF Numbered, Unused
  <2>2. closed' \subseteq Nat
    BY <1>0, TypesKept DEF TypeOK
  <2> QED
    BY <1>0, <2>1, <2>2
<1>2. window' # None => window' <= sessions'
  <2>1. window' \in {window, None} \/ \E m \in commands : window' = m.session
    <3>1. (\E m \in commands : OnCommand(m)) =>
             window' \in {window, None} \/ \E m \in commands : window' = m.session
      BY DEF OnCommand
    <3>2. (\E after \in State : Press(after)) => window' \in {window, None}
      BY PressFacts
    <3>3. Request => UNCHANGED window
      <4>1. \A d, b : Open(d, b) => UNCHANGED window
        BY DEF Open
      <4>2. \A d : Abandon(d) => UNCHANGED window
        BY DEF Abandon
      <4> QED
        BY <4>1, <4>2 DEF Request, Start, NextButton, StartCut, Down, Confirm, Skip, Cancel
    <3>4. HttpStep => UNCHANGED window
      BY DEF HttpStep, ArmCollect, ArmFails, ArmRaised, ArmReturned, CancelCollect
    <3>5. (\E t \in Thread : Callback(t)) => UNCHANGED window
      BY DEF Callback, Receive, Expire, Drop
    <3> QED
      BY <3>1, <3>2, <3>3, <3>4, <3>5
      DEF Next, Crash, Down, Restart, Watchdog, OnMessage, OnDisconnect, OnConnect,
          WindowExpires, Reboot, vars
  <2>2. window' \in Session \cup {None}
    BY TypesKept DEF TypeOK
  <2>3. window' # None => window' <= sessions
    BY <2>1 DEF Numbered
  <2> QED
    BY <1>0, <2>2, <2>3
<1>3. \A m \in commands' : m.session <= sessions'
  <2>1. \A m \in commands' : m \in commands \/ (m.session = http.session
                                /\ http.at \notin {"down", "idle"})
    <3>1. Request => UNCHANGED commands
      <4>1. \A d, b : Open(d, b) => UNCHANGED commands
        BY DEF Open, transport
      <4>2. \A d : Abandon(d) => UNCHANGED commands
        BY DEF Abandon, transport
      <4> QED
        BY <4>1, <4>2 DEF Request, Start, NextButton, StartCut, Down, Confirm, Skip, Cancel,
                          transport
    <3>2. ArmRaised \/ ArmReturned \/ ArmFails => UNCHANGED commands
      BY DEF ArmFails, ArmRaised, ArmReturned, transport
    <3>3. (\E t \in Thread : Callback(t)) => UNCHANGED commands
      BY DEF Callback, Receive, Expire, Drop
    <3>4. (\E m \in commands : OnCommand(m)) => commands' \subseteq commands
      BY DEF OnCommand
    <3>5. ArmCollect \/ CancelCollect => \A m \in commands' :
             m \in commands \/ (m.session = http.session /\ http.at \notin {"down", "idle"})
      BY DEF ArmCollect, CancelCollect, Publish
    <3>6. (\E after \in State : Press(after)) => UNCHANGED commands
      BY DEF Press
    <3>7. Crash \/ Restart \/ Watchdog \/ OnMessage \/ OnDisconnect \/ OnConnect
             \/ WindowExpires \/ UNCHANGED vars => UNCHANGED commands
      BY DEF Crash, Down, Restart, Watchdog, OnMessage, OnDisconnect, OnConnect,
             WindowExpires, vars, transport
    <3>8. Reboot => commands' = {}
      BY DEF Reboot
    <3> QED
      BY <3>1, <3>2, <3>3, <3>4, <3>5, <3>6, <3>7, <3>8 DEF Next, HttpStep
  <2>2. \A m \in commands' : m.session <= sessions
    BY <2>1 DEF Numbered, Threads
  <2>3. \A m \in commands' : m.session \in Nat
    BY <1>0, TypesKept, Messages DEF TypeOK
  <2> QED
    BY <1>0, <2>2, <2>3
<1>4. \A f \in Frame : InFlight(f)' => f.session <= sessions'
  <2>1. \A f \in Frame : InFlight(f)' => f.session <= sessions
    <3>1. CASE \E after \in State : Press(after)
      BY <3>1, OnePress DEF Numbered
    <3>2. CASE UNCHANGED vars
      BY <3>2, SameFrames DEF vars, transport, NoNewFrame, Numbered
    <3> QED
      BY <3>1, <3>2, NoPress DEF NoNewFrame, Numbered
  <2> QED
    <3> SUFFICES ASSUME NEW f \in Frame, InFlight(f)'
                 PROVE  f.session <= sessions'
      OBVIOUS
    <3>1. f.session <= sessions /\ f.session \in Nat
      BY <2>1, Numbers
    <3> QED
      BY <1>0, <3>1
<1> QED
  BY <1>1, <1>2, <1>3, <1>4 DEF Numbered

\* The record that is added is the first of its window.
LEMMA AddsFirst ==
    ASSUME IInv, NEW c \in Data, NEW d \in Data, NEW r \in Record, Adds(c, d, r)
    PROVE  /\ r.of.frame.session \in Session /\ Unused(r.of.frame.session)
           /\ r.of \in Observation
<1>1. \/ c.capture # None /\ r.of.frame.session = c.capture
      \/ c.pending # None /\ r.of.frame.session = PendingSession(c)
  BY DEF Adds, Sees, PendingSession
<1>2. r.of \in Observation
  BY DEF Record
<1>3. r.of.frame.session \in Session /\ r.of.frame.session # None
  BY <1>2, Numbers
<1>4. index = c.profile /\ files[index] = c
  BY DEF Adds, Rewrites
<1> QED
  BY <1>1, <1>2, <1>3, <1>4, HeldFacts

LEMMA RecordedThen ==
    ASSUME TypeOK, Saved, Kind, \A p \in Profile : Records(p)' = Records(p)
    PROVE  \A s \in Nat : Recorded(s)' <=> Recorded(s)
  BY DEF Recorded

LEMMA RecordSeq ==
    ASSUME TypeOK, NEW p \in Profile
    PROVE  Records(p) \in Seq(Record)
<1>1. CASE files[p] = None
  BY <1>1 DEF Records
<1>2. CASE files[p] # None
  BY <1>2, StateTypes, DataFields DEF Records
<1> QED
  BY <1>1, <1>2

LEMMA EndedKept ==
    ASSUME IInv, Kind, TypeOK'
    PROVE  Ended'
<1> USE DEF IInv
<1>0. sessions \in Nat /\ sessions' \in Nat /\ sessions' >= sessions /\ Session \subseteq Nat
  BY MoreSessions DEF Session
<1>1. CASE \A p \in Profile : Records(p)' = Records(p)
  <2>1. \A s \in Session : Recorded(s)' => s <= sessions' /\ s \notin closed'
    <3> SUFFICES ASSUME NEW s \in Session, Recorded(s)'
                 PROVE  s <= sessions' /\ s \notin closed'
      OBVIOUS
    <3>1. Recorded(s) /\ s \in Nat
      BY <1>0, <1>1, RecordedThen
    <3>2. s <= sessions /\ s \notin closed
      BY <3>1 DEF Ended
    <3>3. s \notin closed'
      BY <3>1, <3>2, Closes DEF Unused
    <3> QED
      BY <1>0, <3>1, <3>2, <3>3
  <2> QED
    BY <1>1, <2>1 DEF Ended
<1>2. ASSUME NEW c \in Data, NEW d \in Data, NEW r \in Record, NEW q \in Profile,
             Adds(c, d, r), q = index, Records(q)' = Append(Records(q), r),
             \A p \in Profile \ {q} : Records(p)' = Records(p)
      PROVE  Ended'
  <2> DEFINE n == r.of.frame.session
  <2>1. n \in Session /\ n <= sessions /\ n \notin closed /\ ~Recorded(n)
    BY <1>2, AddsFirst DEF Unused
  <2>2. UNCHANGED <<sessions, closed>>
    BY <1>2 DEF Adds, Rewrites
  <2>3. \A p \in Profile : \A i \in 1 .. Len(Records(p)) :
           Records(p)[i].of.frame.session # n
    BY <2>1 DEF Recorded
  <2>4. Records(q) \in Seq(Record)
    BY RecordSeq
  <2> HIDE DEF n
  <2>5. \A i \in 1 .. Len(Records(q)') :
           \/ i \in 1 .. Len(Records(q)) /\ Records(q)'[i] = Records(q)[i]
           \/ i = Len(Records(q)) + 1 /\ Records(q)'[i] = r
    <3> DEFINE R == Records(q)
    <3>1. R \in Seq(Record) /\ Records(q)' = Append(R, r)
      BY <1>2, <2>4
    <3> HIDE DEF R
    <3>2. \A i \in 1 .. Len(Append(R, r)) : \/ i \in 1 .. Len(R) /\ Append(R, r)[i] = R[i]
                                            \/ i = Len(R) + 1 /\ Append(R, r)[i] = r
      BY <3>1
    <3> QED
      BY <3>1, <3>2 DEF R
  <2>6. \A s \in Session : Recorded(s)' => Recorded(s) \/ s = n
    BY <1>2, <2>5 DEF Recorded, n
  <2>7. \A s \in Session : Recorded(s)' => s <= sessions' /\ s \notin closed'
    BY <2>1, <2>2, <2>6 DEF Ended
  <2>8. \A p \in Profile \ {q} : \A i, j \in 1 .. Len(Records(p)') :
           i # j => Records(p)'[i].of.frame.session # Records(p)'[j].of.frame.session
    BY <1>2 DEF Ended
  <2>9. \A i, j \in 1 .. Len(Records(q)') :
           i # j => Records(q)'[i].of.frame.session # Records(q)'[j].of.frame.session
    BY <2>3, <2>5 DEF Ended, n
  <2> QED
    BY <2>7, <2>8, <2>9 DEF Ended
<1> QED
  BY <1>1, <1>2, RecordsChange

\* An unused window stays so unless it is closed or gives its record now.
LEMMA UnusedThen ==
    ASSUME IInv, Kind, NEW n \in Session, Unused(n), n \notin closed',
           \A p \in Profile : Records(p)' = Records(p)
    PROVE  Unused(n)'
<1>1. ~Recorded(n)'
  BY DEF Unused, Recorded
<1>2. n <= sessions'
  BY MoreSessions DEF IInv, Unused, Session
<1> QED
  BY <1>1, <1>2 DEF Unused

\* The same of a profile that comes to be in use.
UnusedNext(n) ==
    n <= sessions' /\ n \notin closed'
      /\ ~\E p \in Profile : \E i \in 1 .. Len(Records(p)') :
            Records(p)'[i].of.frame.session = n

HeldNext(d) ==
    /\ d.capture # None => d.pending = None /\ UnusedNext(d.capture)
    /\ d.pending # None => /\ UnusedNext(d.pending.frame.session)
                           /\ d.pending.frame.state = d.last
                           /\ d.button = "baseline" => d.last = None
    /\ Len(d.records) <= MaxRecord
    /\ d.capture # None \/ d.pending # None => Len(d.records) < MaxRecord
    /\ d.status \in {"ready", "arming"} => d.capture # None
    /\ d.status = "cancelled" => d.capture = None /\ d.uncertain
    /\ d.capture # None /\ d.button # "baseline" => Certain(d)

LEMMA HeldThen ==
    ASSUME index' # None => HeldNext(files'[index'])
    PROVE  (index # None => Held(files[index]))'
  BY DEF Held, HeldNext, Unused, UnusedNext, Recorded, Certain

LEMMA UnusedStays ==
    ASSUME IInv, Kind, NEW n \in Session, Unused(n), n \notin closed',
           \A p \in Profile : Records(p)' = Records(p)
    PROVE  UnusedNext(n)
  BY UnusedThen DEF Unused, UnusedNext, Recorded

\* A profile that keeps its open window, its pending frame and its records.
LEMMA HeldSame ==
    ASSUME IInv, Kind, NEW c \in Data, NEW d \in Data, Held(c), UNCHANGED closed,
           \A p \in Profile : Records(p)' = Records(p),
           d.capture = c.capture, d.pending = c.pending, d.records = c.records,
           d.last = c.last, d.button = c.button, d.baseline = c.baseline,
           d.uncertain = c.uncertain, d.status = c.status \/ d.status = "ready",
           d.status = "ready" => d.capture # None
    PROVE  HeldNext(d)
<1>1. c.capture # None => UnusedNext(c.capture)
  BY UnusedStays, DataFields DEF Held, Unused
<1>2. c.pending # None => UnusedNext(c.pending.frame.session)
  <2>1. c.pending # None => c.pending.frame.session \in Session
    BY DataFields, Numbers
  <2> QED
    BY <2>1, UnusedStays DEF Held, Unused
<1> QED
  BY <1>1, <1>2 DEF Held, HeldNext, Certain

LEMMA HeldOnce ==
    ASSUME IInv, NEW c \in Data, index = c.profile, files[index] = c
    PROVE  /\ Held(c) /\ Len(c.records) \in Nat
           /\ c.capture # None => c.capture \in Session /\ c.pending = None
           /\ c.pending # None => c.pending \in Observation
                                  /\ c.pending.frame.session \in Session
           /\ sessions \in Nat
  BY HeldFacts, DataFields, Numbers DEF Held, IInv, TypeOK

LEMMA HeldKept ==
    ASSUME IInv, Kind, TypeOK'
    PROVE  (index # None => Held(files[index]))'
<1> USE DEF IInv
<1>0. \A d \in Data : Save(d) => files'[index'] = d
  BY SaveTypes
<1>1. CASE Quiet \/ Dies
  <2>1. /\ \A p \in Profile : Records(p)' = Records(p)
        /\ UNCHANGED <<index, closed>>
    BY <1>1, KeptRecords DEF Keeps, Quiet, Dies, store
  <2>2. index # None => files'[index] = files[index]
    <3>1. CASE UNCHANGED files
      BY <3>1
    <3>2. CASE NewProfile \in Profile /\ files' = [files EXCEPT ![NewProfile] = Fresh]
      <4>1. index # None => index \in Profile /\ index # NewProfile
        BY NewNumber DEF TypeOK, Saved
      <4> QED
        BY <3>2, <4>1 DEF TypeOK
    <3> QED
      BY <1>1, <3>1, <3>2 DEF Quiet, Dies, store
  <2>3. ASSUME index # None
        PROVE  HeldNext(files'[index'])
    <3>1. PICK c \in Data : c = files[index] /\ Held(c)
      BY <2>3, StateTypes DEF Saved
    <3>2. HeldNext(c)
      BY <2>1, <3>1, HeldSame DEF Held
    <3> QED
      BY <2>1, <2>2, <2>3, <3>1, <3>2
  <2> QED
    BY <2>1, <2>3, HeldThen
<1>2. ASSUME NEW c \in Data, NEW d \in Data, NEW b \in Button, Opens(c, d, b)
      PROVE  HeldNext(d) /\ Save(d)
  <2>1. \A p \in Profile : Records(p)' = Records(p)
    BY <1>2, KeptRecords DEF Keeps
  <2>2. d.capture = sessions + 1 /\ sessions' = sessions + 1 /\ sessions \in Nat
        /\ d.capture \in Session
    BY <1>2, DataFields, Numbers DEF Opens, TypeOK
  <2>3. d.capture \notin closed'
    <3>1. \A s \in closed' : s <= sessions
      BY Closes DEF Numbered, Unused
    <3> QED
      BY <2>2, <3>1
  <2>4. ~Recorded(d.capture)
    BY <2>2 DEF Ended
  <2>5. UnusedNext(d.capture)
    BY <2>1, <2>2, <2>3, <2>4 DEF UnusedNext, Recorded
  <2> QED
    <3>1. Len(c.records) \in Nat
      BY DataFields
    <3> QED
      BY <1>2, <2>2, <2>5, <3>1, DataFields, Numbers DEF Opens, HeldNext, Certain
<1>3. ASSUME NEW c \in Data, NEW d \in Data, Ends(c, d)
      PROVE  HeldNext(d) /\ Save(d)
  <2>1. /\ \A p \in Profile : Records(p)' = Records(p)
        /\ Save(d) /\ index = c.profile /\ files[index] = c
    BY <1>3, KeptRecords DEF Keeps, Ends, Rewrites
  <2>2. ASSUME d.pending # None
        PROVE  UnusedNext(d.pending.frame.session)
    <3>1. d.pending = c.pending /\ c.capture = None /\ closed' \subseteq closed
      BY <1>3, <2>1, <2>2, HeldOnce DEF Ends
    <3> QED
      BY <2>1, <2>2, <3>1, UnusedStays, HeldOnce DEF Held, Unused
  <2> QED
    BY <1>3, <2>1, <2>2, HeldOnce DEF Ends, Rewrites, Held, HeldNext
<1>4. ASSUME NEW c \in Data, NEW d \in Data, Readies(c, d)
      PROVE  HeldNext(d) /\ Save(d)
  <2>1. /\ \A p \in Profile : Records(p)' = Records(p)
        /\ Save(d) /\ index = c.profile /\ files[index] = c
    BY <1>4, KeptRecords DEF Keeps, Readies, Rewrites
  <2> QED
    BY <1>4, <2>1, HeldSame, HeldOnce DEF Readies, Rewrites
<1>5. ASSUME NEW c \in Data, NEW d \in Data, NEW o \in Observation, Waits(c, d, o)
      PROVE  HeldNext(d) /\ Save(d)
  <2>1. /\ \A p \in Profile : Records(p)' = Records(p)
        /\ Save(d) /\ index = c.profile /\ files[index] = c
    BY <1>5, KeptRecords DEF Keeps, Waits, Rewrites
  <2>2. UnusedNext(o.frame.session)
    BY <1>5, <2>1, UnusedStays, HeldOnce DEF Waits, Sees, Held, Unused
  <2> QED
    BY <1>5, <2>1, <2>2, HeldOnce DEF Waits, Sees, Rewrites, Held, HeldNext
<1>6. ASSUME NEW c \in Data, NEW d \in Data, NEW r \in Record, Adds(c, d, r)
      PROVE  HeldNext(d) /\ Save(d)
  <2>1. Save(d) /\ index = c.profile /\ files[index] = c
    BY <1>6 DEF Adds, Rewrites
  <2>2. Len(c.records) < MaxRecord
    BY <1>6, <2>1, HeldOnce DEF Adds, Sees, Held
  <2>3. Len(d.records) = Len(c.records) + 1
    BY <1>6, DataFields DEF Adds
  <2> QED
    BY <1>6, <2>1, <2>2, <2>3, HeldOnce DEF Adds, HeldNext
<1> QED
  BY <1>0, <1>1, <1>2, <1>3, <1>4, <1>5, <1>6, HeldThen DEF Kind

\* What the library vouches for is true of the remote.
LEMMA AddsTrue ==
    ASSUME IInv, NEW c \in Data, NEW d \in Data, NEW r \in Record, Adds(c, d, r),
           r.source = "library", r.button # "baseline"
    PROVE  r.of.before = r.of.frame.was
<1>1. Sees(c, r.of) /\ r.of.before # None /\ c = data /\ data # None
  BY DataFields DEF Adds
<1>2. r.of.frame \in Frame
  BY Numbers DEF Record
<1>3. data.button # "baseline" /\ data.last # None /\ r.of.before = data.last
      /\ r.of.frame.session = data.capture /\ InFlight(r.of.frame)
  BY <1>1 DEF Adds, Sees
<1> QED
  BY <1>1, <1>2, <1>3 DEF IInv, Frames

LEMMA VerifiedKept ==
    ASSUME IInv, Kind
    PROVE  VerifiedTrue'
<1> USE DEF IInv
<1> DEFINE True(r) == r.source = "library" /\ r.button # "baseline" => r.of.before = r.of.frame.was
<1>1. \A p \in Profile : \A i \in DOMAIN Records(p) : True(Records(p)[i])
  BY DEF VerifiedTrue
<1>2. SUFFICES \A p \in Profile : \A i \in DOMAIN Records(p)' : True(Records(p)'[i])
  BY DEF VerifiedTrue
<1>3. ASSUME NEW c \in Data, NEW d \in Data, NEW r \in Record, Adds(c, d, r)
      PROVE  True(r)
  BY <1>3, AddsTrue
<1> HIDE DEF True
<1>4. CASE \A p \in Profile : Records(p)' = Records(p)
  BY <1>1, <1>4
<1>5. ASSUME NEW c \in Data, NEW d \in Data, NEW r \in Record, NEW q \in Profile,
             Adds(c, d, r), Records(q)' = Append(Records(q), r),
             \A p \in Profile \ {q} : Records(p)' = Records(p)
      PROVE  \A p \in Profile : \A i \in DOMAIN Records(p)' : True(Records(p)'[i])
  <2>1. Records(q) \in Seq(Record)
    BY RecordSeq
  <2>2. \A i \in DOMAIN Append(Records(q), r) : True(Append(Records(q), r)[i])
    <3> DEFINE R == Records(q)
    <3>1. R \in Seq(Record) /\ True(r) /\ \A i \in DOMAIN R : True(R[i])
      BY <1>1, <1>3, <1>5, <2>1
    <3> HIDE DEF R
    <3>2. \A i \in DOMAIN Append(R, r) : True(Append(R, r)[i])
      BY <3>1
    <3> QED
      BY <3>2 DEF R
  <2> QED
    BY <1>1, <1>5, <2>2
<1> QED
  BY <1>4, <1>5, RecordsChange

\* The key of a window that is open is pressed no more than a step says.
LEMMA PressedStays ==
    ASSUME TypeOK, Next, sessions' = sessions, ~\E after \in State : Press(after)
    PROVE  UNCHANGED pressed
<1>1. CASE Request
  <2>1. \A d, b : ~Open(d, b)
    BY DEF Open, TypeOK
  <2>2. \A d : Abandon(d) => UNCHANGED pressed
    BY DEF Abandon, user
  <2> QED
    BY <1>1, <2>1, <2>2 DEF Request, Start, NextButton, StartCut, Down, Confirm, Skip, Cancel,
                            user
<1>2. CASE HttpStep
  BY <1>2 DEF HttpStep, ArmCollect, ArmFails, ArmRaised, ArmReturned, CancelCollect, modelOnly,
              user
<1>3. CASE \E t \in Thread : Callback(t)
  BY <1>3 DEF Callback, Receive, Expire, Drop
<1>4. CASE (\E m \in commands : OnCommand(m)) \/ WindowExpires \/ Reboot
  BY <1>4 DEF OnCommand, WindowExpires, Reboot, user
<1>5. CASE Crash \/ Restart \/ Watchdog \/ OnMessage \/ OnDisconnect \/ OnConnect
  BY <1>5 DEF Crash, Down, Restart, Watchdog, OnMessage, OnDisconnect, OnConnect, modelOnly,
              user
<1> QED
  BY <1>1, <1>2, <1>3, <1>4, <1>5 DEF Next

\* The frame of the window that is open left the remote where it is.
LEMMA SeenState ==
    ASSUME IInv, NEW o \in Observation, data # None, Sees(data, o), o.frame.state # None
    PROVE  o.frame.state = remote
  BY Numbers DEF IInv, Frames, Sees

KnownNext(d) ==
    Certain(d) /\ d.last # None /\ (d.capture = None \/ ~pressed') => remote = d.last

LEMMA KnownKept ==
    ASSUME IInv, [Next]_vars, Kind
    PROVE  Known'
<1> USE DEF IInv
<1>0. \A d \in Data : Save(d) => data' = d
  BY DEF Save
<1>1. ASSUME NEW after \in State, Press(after)
      PROVE  Known'
  <2>1. MayPress /\ UNCHANGED data /\ pressed' = (data # None /\ data.capture # None)
    BY <1>1, PressFacts DEF Press, hostOnly
  <2>2. data # None => /\ Up /\ index # None /\ data = files[index] /\ Held(data)
    BY InUse, HeldFacts DEF Threads, Up
  <2>3. ~(data # None /\ Certain(data) /\ data.capture = None)
    BY <2>1, <2>2 DEF MayPress, Started, Certain, Held
  <2> QED
    BY <2>1, <2>3 DEF Known, Certain
<1>2. CASE UNCHANGED vars
  BY <1>2 DEF Known, Certain, vars, user
<1>3. CASE Next /\ ~\E after \in State : Press(after)
  <2>1. UNCHANGED remote
    BY <1>3, NoPress
  <2>2. sessions' = sessions => UNCHANGED pressed
    BY <1>3, PressedStays
  <2>3. ASSUME NEW d \in Data, KnownNext(d), data' = d
        PROVE  Known'
    BY <2>1, <2>3 DEF KnownNext, Known, Certain
  <2>4. CASE Quiet
    BY <2>1, <2>2, <2>4 DEF Quiet, Known, Certain
  <2>5. CASE Dies
    BY <2>5 DEF Dies, Known
  <2>6. ASSUME NEW c \in Data, NEW d \in Data, NEW b \in Button, Opens(c, d, b)
        PROVE  KnownNext(d) /\ Save(d)
    BY <2>6, DataFields DEF Opens, Known, KnownNext, Certain
  <2>7. ASSUME NEW c \in Data, NEW d \in Data, Ends(c, d)
        PROVE  KnownNext(d) /\ Save(d)
    BY <2>7, DataFields DEF Ends, Rewrites, Known, KnownNext, Certain
  <2>8. ASSUME NEW c \in Data, NEW d \in Data, Readies(c, d)
        PROVE  KnownNext(d) /\ Save(d)
    BY <2>2, <2>8, DataFields DEF Readies, Rewrites, Known, KnownNext, Certain
  <2>9. ASSUME NEW c \in Data, NEW d \in Data, NEW o \in Observation, Waits(c, d, o)
        PROVE  KnownNext(d) /\ Save(d)
    BY <2>9, DataFields, SeenState DEF Waits, Rewrites, KnownNext
  <2>10. ASSUME NEW c \in Data, NEW d \in Data, NEW r \in Record, Adds(c, d, r)
         PROVE  KnownNext(d) /\ Save(d)
    <3>1. /\ Save(d) /\ data = c /\ c # None /\ index = c.profile /\ files[index] = c
          /\ r.of \in Observation /\ d.last = r.of.frame.state
      BY <2>10, DataFields DEF Adds, Rewrites, Record
    <3>2. CASE Sees(c, r.of)
      BY <3>1, <3>2, SeenState DEF KnownNext
    <3>3. CASE c.pending # None /\ r.of = c.pending
      <4>1. c.capture = None /\ d.last = c.last /\ (c.button = "baseline" => c.last = None)
        BY <3>1, <3>3, HeldOnce DEF Held
      <4>2. c.button # "baseline" /\ Certain(d) => Certain(c)
        BY <2>10 DEF Adds, Certain
      <4> QED
        BY <3>1, <4>1, <4>2 DEF KnownNext, Known
    <3> QED
      BY <2>10, <3>1, <3>2, <3>3 DEF Adds
  <2> QED
    BY <1>0, <2>3, <2>4, <2>5, <2>6, <2>7, <2>8, <2>9, <2>10 DEF Kind
<1> QED
  BY <1>1, <1>2, <1>3

LEMMA FramesKept ==
    ASSUME IInv, [Next]_vars, Kind
    PROVE  Frames'
<1> USE DEF IInv
<1>0. \A d \in Data : Save(d) => data' = d
  BY DEF Save
<1>1. ASSUME NEW after \in State, Press(after)
      PROVE  Frames'
  <2>1. /\ MayPress /\ UNCHANGED data /\ remote' = after
        /\ pressed' = (data # None /\ data.capture # None)
    BY <1>1, PressFacts DEF Press, hostOnly
  <2>2. SUFFICES ASSUME data # None, NEW f \in Frame, InFlight(f)', f.session = data.capture
                 PROVE  /\ pressed' /\ f.state \in {remote', None}
                        /\ data.button # "baseline" /\ data.last # None => f.was = data.last
    BY <2>1 DEF Frames
  <2>3. data.capture # None /\ Up /\ Held(data)
    BY <2>2, InUse, HeldFacts, Numbers DEF Threads, Up
  <2>4. ~pressed
    BY <2>1, <2>2, <2>3 DEF MayPress, Started, Held
  <2>5. ~InFlight(f)
    BY <2>2, <2>4 DEF Frames
  <2>6. f.state \in {after, None} /\ f.was = remote
    BY <1>1, <2>2, <2>5, OnePress
  <2>7. data.button # "baseline" /\ data.last # None => remote = data.last
    BY <2>2, <2>3, <2>4 DEF Held, Known
  <2> QED
    BY <2>1, <2>2, <2>3, <2>6, <2>7
<1>2. CASE UNCHANGED vars
  BY <1>2, SameFrames DEF Frames, NoNewFrame, vars, transport, user
<1>3. CASE Next /\ ~\E after \in State : Press(after)
  <2>1. NoNewFrame /\ UNCHANGED remote
    BY <1>3, NoPress
  <2>2. sessions' = sessions => UNCHANGED pressed
    BY <1>3, PressedStays
  <2>3. CASE data' # None => data'.capture = None
    BY <2>3, Numbers DEF Frames
  <2>4. CASE Quiet
    BY <2>1, <2>2, <2>4 DEF Quiet, NoNewFrame, Frames
  <2>5. CASE Dies
    BY <2>5 DEF Dies, Frames
  <2>6. ASSUME NEW c \in Data, NEW d \in Data, NEW b \in Button, Opens(c, d, b)
        PROVE  Frames'
    <3>1. \A f \in Frame : InFlight(f)' => f.session # sessions + 1
      <4>1. sessions \in Nat
        BY DEF TypeOK
      <4> QED
        BY <2>1, <4>1, Numbers DEF NoNewFrame, Numbered
    <3> QED
      BY <1>0, <2>6, <3>1 DEF Opens, Frames
  <2>7. ASSUME NEW c \in Data, NEW d \in Data, Readies(c, d)
        PROVE  Frames'
    <3>1. data = c /\ data # None /\ data' = d /\ UNCHANGED <<remote, pressed>>
      BY <1>0, <2>1, <2>2, <2>7, DataFields DEF Readies, Rewrites
    <3>2. d.capture = c.capture /\ d.last = c.last /\ d.button = c.button
      BY <2>7 DEF Readies, Rewrites
    <3> QED
      BY <2>1, <3>1, <3>2 DEF NoNewFrame, Frames
  <2>8. (\E c, d \in Data : Ends(c, d)) \/ (\E c, d \in Data, o \in Observation : Waits(c, d, o))
          \/ (\E c, d \in Data, r \in Record : Adds(c, d, r)) => data'.capture = None
    BY <1>0 DEF Ends, Waits, Adds, Rewrites
  <2> QED
    BY <2>3, <2>4, <2>5, <2>6, <2>7, <2>8 DEF Kind
<1> QED
  BY <1>1, <1>2, <1>3

-----------------------------------------------------------------------------
(* The theorems *)

LEMMA Initially == Init => IInv
<1> SUFFICES ASSUME Init PROVE IInv
  OBVIOUS
<1>1. TypeOK
  <2>1. [at |-> "idle", session |-> None] \in Http /\ <<>> \in Seq(Event)
    BY Messages
  <2>2. files \in [Profile -> Data \cup {None}] /\ callback \in [Thread -> Carried \cup {None}]
    BY DEF Init
  <2>3. 0 \in 0 .. MaxSession
    OBVIOUS
  <2> QED
    BY <2>1, <2>2, <2>3 DEF Init, TypeOK
<1>2. Saved
  <2>1. 0 \in 0 .. MaxProfile /\ \A p \in Profile : files[p] = None /\ ~(p <= 0)
    BY DEF Init, Profile
  <2> QED
    BY <2>1 DEF Init, Saved
<1>3. Threads
  BY DEF Init, Threads
<1>4. \A f \in Frame : ~InFlight(f)
  BY DEF Init, InFlight, Carries
<1>5. \A p \in Profile : Records(p) = <<>>
  BY DEF Init, Records
<1>6. Ended /\ VerifiedTrue
  BY <1>5 DEF Ended, Recorded, VerifiedTrue
<1> QED
  BY <1>1, <1>2, <1>3, <1>4, <1>6 DEF Init, IInv, Numbered, Known, Frames

LEMMA Invariance == Spec => []IInv
<1>1. IInv /\ [Next]_vars => IInv'
  <2> SUFFICES ASSUME IInv, [Next]_vars
               PROVE  IInv'
    OBVIOUS
  <2>1. Kind /\ TypeOK'
    BY Kinds, TypesKept DEF IInv
  <2>2. Saved'
    BY <2>1, SavedKept DEF IInv
  <2> QED
    BY <2>1, <2>2, ThreadsKept, NumberedKept, HeldKept, EndedKept, KnownKept, FramesKept,
       VerifiedKept DEF IInv
<1> QED
  BY <1>1, Initially, PTL DEF Spec

\* Every variable of the learning service keeps its type, with any number of
\* windows, profiles, crashes and restarts, and no profile holds more records
\* than it may.
THEOREM TypeCorrect == Spec => []TypeOK
<1>1. IInv => TypeOK
  BY DEF IInv
<1> QED
  BY <1>1, Invariance, PTL

\* A window gives one record at most, and none once the service has said that it
\* was skipped, cancelled, expired or rejected, whatever the MQTT thread, the
\* watchdog and the network still carry of it.
THEOREM OneRecordPerWindow == Spec => []ClosedForGood
<1>1. IInv => ClosedForGood
  <2> SUFFICES ASSUME IInv, NEW p \in Profile, NEW i \in DOMAIN Records(p)
               PROVE  LET s == Records(p)[i].of.frame.session
                      IN  /\ s \notin closed
                          /\ \A j \in 1 .. i - 1 : Records(p)[j].of.frame.session # s
    BY DEF ClosedForGood
  <2> DEFINE R == Records(p)
             s == R[i].of.frame.session
  <2>1. R \in Seq(Record) /\ DOMAIN R = 1 .. Len(R) /\ i \in 1 .. Len(R)
    BY RecordSeq DEF IInv
  <2>2. s \in Session /\ Recorded(s)
    <3>1. R[i] \in Record
      BY <2>1
    <3> QED
      BY <2>1, <3>1, Numbers DEF Record, Recorded
  <2>3. s \notin closed
    BY <2>2 DEF IInv, Ended
  <2>4. \A j \in 1 .. i - 1 : j \in 1 .. Len(R) /\ j # i
    BY <2>1
  <2>5. \A j \in 1 .. i - 1 : R[j].of.frame.session # s
    BY <2>1, <2>4 DEF IInv, Ended
  <2> QED
    BY <2>3, <2>5
<1> QED
  BY <1>1, Invariance, PTL

\* A record whose meaning the library vouches for holds the remote's true state
\* before the key, whatever was lost, skipped, missed or restarted in between.
THEOREM TrueToTheRemote == Spec => []VerifiedTrue
<1>1. IInv => VerifiedTrue
  BY DEF IInv
<1> QED
  BY <1>1, Invariance, PTL

\* What was saved stays, in its order, and active.json names a profile that is
\* there, wherever the service died.
THEOREM NothingSavedIsLost == Spec => SavedStays
<1> DEFINE Stay == /\ \A p \in Profile :
                         /\ files[p] # None => files'[p] # None
                         /\ SubSeq(Records(p)', 1, Len(Records(p))) = Records(p)
                   /\ index' # None => files'[index'] # None
<1>1. IInv /\ [Next]_vars => Stay
  <2> SUFFICES ASSUME IInv, [Next]_vars
               PROVE  Stay
    OBVIOUS
  <2> USE DEF IInv
  <2>1. Kind /\ Saved'
    BY Kinds, SavedKept
  <2>2. \A p \in Profile : files[p] # None => files'[p] # None
    <3>1. CASE UNCHANGED files
      BY <3>1
    <3>2. ASSUME NEW d \in Data, files' = [files EXCEPT ![d.profile] = d]
          PROVE  \A p \in Profile : files[p] # None => files'[p] # None
      BY <3>2, DataFields DEF TypeOK
    <3> QED
      BY <2>1, <3>1, <3>2, FilesChange
  <2>3. ASSUME NEW p \in Profile
        PROVE  SubSeq(Records(p)', 1, Len(Records(p))) = Records(p)
    <3>1. Records(p) \in Seq(Record)
      BY RecordSeq
    <3>2. \/ Records(p)' = Records(p)
          \/ \E r \in Record : Records(p)' = Append(Records(p), r)
      BY <2>1, RecordsChange
    <3>3. \A R \in Seq(Record) : /\ SubSeq(R, 1, Len(R)) = R
                                 /\ \A r \in Record : SubSeq(Append(R, r), 1, Len(R)) = R
      OBVIOUS
    <3> QED
      BY <3>1, <3>2, <3>3
  <2> QED
    BY <2>1, <2>2, <2>3 DEF Saved
<1>2. Spec => [][Stay]_vars
  BY <1>1, Invariance, PTL DEF Spec
<1> QED
  BY <1>2, PTL DEF SavedStays
=============================================================================
