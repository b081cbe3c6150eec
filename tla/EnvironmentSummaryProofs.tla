----------------------- MODULE EnvironmentSummaryProofs -----------------------
(***************************************************************************)
(* Proofs about EnvironmentSummary: for any number of rows, boots and any  *)
(* times, what is counted is one history, the estimate rests on its latest *)
(* unbroken part, and a "fresh" estimate is about now.                     *)
(***************************************************************************)
EXTENDS EnvironmentSummary, TLAPS

USE SummaryAssumption

\* The reading that set the loop's variables, if there was one.
Newest(a) ==
    /\ a \in accepted /\ a.boot = boot /\ a.received = last_received
    /\ \A b \in accepted : b.at <= a.at /\ b.received <= a.received
    /\ healthy => a.at = rows /\ a \in estimate

\* What the loop's variables say about the rows so far.
Summarises ==
    /\ accepted = {} => boot = None /\ last_received = None /\ ~healthy
    /\ accepted # {} => \E a \in accepted : Newest(a)
    /\ boot \notin retired
    /\ \A a \in accepted : /\ a.at <= rows
                           /\ a.boot \in retired \cup {boot}
                           /\ highwater[a.boot] # None /\ a.sequence <= highwater[a.boot]
    /\ \A a, b \in accepted : a.at = b.at => a = b
    /\ \A m \in markers : m <= rows

IInv == TypeOK /\ Summarises /\ OneHistory /\ EstimateOfSegment

\* The variables keep their types in every step.
LEMMA TypeStep == TypeOK /\ [Next]_vars => TypeOK'
<1> SUFFICES ASSUME TypeOK, [Next]_vars PROVE TypeOK'
  OBVIOUS
<1> USE DEF TypeOK
<1>1. ASSUME NEW reason \in Blocked, Unordered(reason) PROVE TypeOK'
  BY <1>1 DEF Unordered, Blocked
<1>2. ASSUME NEW w \in Time, Invalid(w) PROVE TypeOK'
  <2>1. rows' \in 1 .. MaxRows
    BY <1>2 DEF Invalid, Take
  <2>2. markers' \subseteq 1 .. MaxRows
    BY <1>2, <2>1 DEF Invalid
  <2>3. rows' \in 0 .. MaxRows
    BY <2>1
  <2> QED
    BY <1>2, <2>2, <2>3 DEF Invalid, Take, Reset
<1>3. ASSUME NEW w \in Time, NEW b \in Boot, NEW sequence \in Sequence, NEW received \in Time,
             Rejected(w, b, sequence, received)
      PROVE  TypeOK'
  <2>1. rows' \in 0 .. MaxRows
    BY <1>3 DEF Rejected, Take
  <2> QED
    BY <1>3, <2>1 DEF Rejected, Take
<1>4. ASSUME NEW w \in Time, NEW b \in Boot, NEW sequence \in Sequence, NEW received \in Time,
             Accepted(w, b, sequence, received)
      PROVE  TypeOK'
  <2> DEFINE reading == [boot |-> b, sequence |-> sequence, received |-> received, at |-> rows']
  <2>1. rows' \in 1 .. MaxRows
    BY <1>4 DEF Accepted, Take
  <2>2. reading \in Reading
    BY <2>1 DEF Reading
  <2>3. estimate' \subseteq Reading /\ accepted' \subseteq Reading
    BY <1>4, <2>2 DEF Accepted
  <2>4. retired' \subseteq Boot
    BY <1>4 DEF Accepted
  <2> QED
    BY <1>4, <2>1, <2>3, <2>4 DEF Accepted, Take
<1>5. CASE Finish
  BY <1>5 DEF Finish
<1>6. CASE UNCHANGED vars
  BY <1>6 DEF vars
<1> QED
  BY <1>1, <1>2, <1>3, <1>4, <1>5, <1>6 DEF Next

\* Nothing the invariant speaks of changes but the counters of rows and blocks.
LEMMA KeepStep ==
    ASSUME IInv, TypeOK',
           UNCHANGED <<boot, retired, highwater, last_received, accepted, markers, estimate>>,
           \/ UNCHANGED <<rows, healthy>>
           \/ rows' = rows + 1 /\ healthy' = FALSE
    PROVE  IInv'
<1> USE DEF IInv
<1>1. Summarises'
  BY DEF Summarises, Newest, TypeOK, Reading
<1>2. OneHistory'
  BY DEF OneHistory
<1>3. EstimateOfSegment'
  BY DEF EstimateOfSegment, Segment
<1> QED
  BY <1>1, <1>2, <1>3

\* An invalid row: nothing is left that an estimate could rest on.
LEMMA InvalidStep ==
    ASSUME IInv, TypeOK', NEW w \in Time, Invalid(w)
    PROVE  IInv'
<1> USE DEF IInv
<1>0. /\ rows' = rows + 1 /\ markers' = markers \cup {rows'}
      /\ estimate' = {} /\ healthy' = FALSE
      /\ UNCHANGED <<boot, retired, highwater, last_received, accepted>>
  BY DEF Invalid, Take, Reset
<1>1. Summarises'
  BY <1>0 DEF Summarises, Newest, TypeOK, Reading
<1>2. OneHistory'
  BY <1>0 DEF OneHistory
<1>3. \A a \in accepted : ~(rows + 1 < a.at)
  BY DEF Summarises, TypeOK, Reading
<1>4. EstimateOfSegment'
  BY <1>0, <1>3 DEF EstimateOfSegment, Segment, Summarises, TypeOK, Reading
<1> QED
  BY <1>1, <1>2, <1>4

\* A reading is counted: it follows all others, and the estimate goes on or
\* starts again with it.
LEMMA AcceptedStep ==
    ASSUME IInv, TypeOK', NEW w \in Time, NEW b \in Boot, NEW sequence \in Sequence,
           NEW received \in Time, Accepted(w, b, sequence, received)
    PROVE  IInv'
<1> USE DEF IInv
<1>p. PICK n : n = [boot |-> b, sequence |-> sequence, received |-> received, at |-> rows + 1]
  OBVIOUS
<1>0. /\ rows' = rows + 1 /\ accepted' = accepted \cup {n}
      /\ estimate' = (IF Continues(b, received) THEN estimate ELSE {}) \cup {n}
      /\ retired' = (IF boot \in {None, b} THEN retired ELSE retired \cup {boot})
      /\ boot' = b /\ highwater' = [highwater EXCEPT ![b] = sequence]
      /\ last_received' = received /\ healthy' = TRUE /\ markers' = markers
  BY <1>p DEF Accepted, Take
<1>1. b \notin retired /\ (highwater[b] # None => sequence > highwater[b])
      /\ (last_received # None => received > last_received)
  BY DEF Accepted, IsNews
<1>n. n.boot = b /\ n.sequence = sequence /\ n.received = received /\ n.at = rows + 1
  BY <1>p
<1>t. /\ rows \in Nat /\ received \in Nat /\ sequence \in Nat /\ Freshness \in Nat
      /\ \A a \in accepted : a.at \in Nat /\ a.received \in Nat /\ a.sequence \in Nat
                             /\ a.boot \in Boot
      /\ \A m \in markers : m \in Nat
  <2>1. rows \in Nat /\ received \in Nat /\ sequence \in Nat /\ Freshness \in Nat
    BY DEF TypeOK, Time
  <2>2. ASSUME NEW a \in accepted
        PROVE  a.at \in Nat /\ a.received \in Nat /\ a.sequence \in Nat /\ a.boot \in Boot
    <3>1. a \in Reading
      BY DEF TypeOK
    <3>2. a.boot \in Boot /\ a.sequence \in Sequence /\ a.received \in Time /\ a.at \in 1 .. MaxRows
      BY <3>1 DEF Reading
    <3>3. a.sequence \in Nat
      BY <3>2 DEF SummaryAssumption
    <3>4. a.at \in Nat /\ a.received \in Nat
      BY <3>2 DEF Time
    <3> QED
      BY <3>2, <3>3, <3>4
  <2>3. \A m \in markers : m \in Nat
    BY DEF TypeOK
  <2> QED
    BY <2>1, <2>2, <2>3
<1>2. \A a \in accepted : /\ a.at < n.at /\ a.received < n.received
                          /\ a.boot = b => a.sequence < n.sequence
  <2> SUFFICES ASSUME NEW a \in accepted
               PROVE  /\ a.at < n.at /\ a.received < n.received
                      /\ a.boot = b => a.sequence < n.sequence
    OBVIOUS
  <2>1. PICK newest \in accepted : Newest(newest)
    BY DEF Summarises
  <2>2. last_received \in Nat /\ a.received <= last_received /\ last_received # None
    BY <2>1, <1>t DEF Newest
  <2>3. a.boot = b => highwater[b] \in Nat /\ a.sequence <= highwater[b] /\ highwater[b] # None
    BY DEF Summarises, TypeOK
  <2> QED
    BY <1>1, <1>n, <1>t, <2>2, <2>3 DEF Summarises
<1>3. Summarises'
  <2>1. Newest(n)'
    <3>1. n \in accepted' /\ n.boot = boot' /\ n.received = last_received'
      BY <1>0, <1>n
    <3>2. \A x \in accepted' : x.at <= n.at /\ x.received <= n.received
      BY <1>0, <1>2, <1>n, <1>t
    <3>3. n.at = rows' /\ n \in estimate'
      BY <1>0, <1>n
    <3> QED
      BY <3>1, <3>2, <3>3 DEF Newest
  <2>2. boot' \notin retired'
    BY <1>0, <1>1
  <2>3. ASSUME NEW a \in accepted'
        PROVE  /\ a.at <= rows' /\ a.boot \in retired' \cup {boot'}
               /\ highwater'[a.boot] # None /\ a.sequence <= highwater'[a.boot]
    <3>1. CASE a = n
      BY <3>1, <1>0, <1>n, <1>t DEF TypeOK
    <3>2. CASE a \in accepted
      <4>1. boot # None
        BY <3>2, <1>t DEF Summarises, Newest
      <4>2. a.boot \in retired' \cup {boot'}
        BY <3>2, <4>1, <1>0 DEF Summarises
      <4>3. highwater'[a.boot] # None /\ a.sequence <= highwater'[a.boot]
        BY <3>2, <1>0, <1>2, <1>n, <1>t DEF Summarises, TypeOK
      <4> QED
        BY <3>2, <4>2, <4>3, <1>0, <1>t DEF Summarises
    <3> QED
      BY <3>1, <3>2, <1>0
  <2>4. \A m \in markers' : m <= rows'
    BY <1>0, <1>t DEF Summarises
  <2>5. \A x, y \in accepted' : x.at = y.at => x = y
    BY <1>0, <1>2, <1>n, <1>t DEF Summarises
  <2>6. accepted' # {} /\ n \in accepted'
    BY <1>0
  <2> QED
    BY <2>1, <2>2, <2>3, <2>4, <2>5, <2>6 DEF Summarises
<1>4. OneHistory'
  <2>1. ASSUME NEW x \in accepted', NEW y \in accepted', x.at < y.at
        PROVE  /\ x.received < y.received
               /\ x.boot = y.boot => x.sequence < y.sequence
    BY <2>1, <1>0, <1>2, <1>n, <1>t DEF OneHistory
  <2>2. ASSUME NEW x \in accepted', NEW y \in accepted', NEW z \in accepted',
               x.at < y.at, y.at < z.at, x.boot = z.boot
        PROVE  y.boot = x.boot
    <3>1. x \in accepted /\ y \in accepted
      BY <2>2, <1>0, <1>2, <1>n, <1>t
    <3>2. CASE z \in accepted
      BY <2>2, <3>1, <3>2 DEF OneHistory
    <3>3. CASE z = n
      <4>1. x.boot = boot
        BY <2>2, <3>1, <3>3, <1>1, <1>n DEF Summarises
      <4>2. PICK newest \in accepted : Newest(newest)
        BY <3>1 DEF Summarises
      <4>3. newest.boot = x.boot /\ y.at <= newest.at
        BY <3>1, <4>1, <4>2 DEF Newest
      <4>4. CASE y.at < newest.at
        BY <2>2, <3>1, <4>3, <4>4 DEF OneHistory
      <4>5. CASE y.at = newest.at
        BY <3>1, <4>2, <4>3, <4>5 DEF Summarises
      <4> QED
        BY <4>3, <4>4, <4>5, <3>1, <4>2, <1>t
    <3> QED
      BY <3>2, <3>3, <1>0
  <2> QED
    BY <2>1, <2>2 DEF OneHistory
<1>5. n \in Segment'
  BY <1>0, <1>2, <1>n, <1>t DEF Segment, Summarises
<1>6. ASSUME NEW a \in accepted, Continues(b, received)
      PROVE  a \in Segment' <=> a \in Segment
  <2>1. PICK newest \in accepted : Newest(newest)
    BY DEF Summarises
  <2>2. /\ a.at <= newest.at /\ newest.at < n.at /\ n.received - newest.received <= Freshness
        /\ boot = b
    BY <1>6, <2>1, <1>2, <1>n DEF Newest, Continues
  <2>3. ASSUME NEW x \in accepted, a.at < x.at
        PROVE  (\E c \in accepted' : /\ a.at <= c.at /\ c.at < x.at
                                     /\ x.received - c.received <= Freshness)
               <=> (\E c \in accepted : /\ a.at <= c.at /\ c.at < x.at
                                        /\ x.received - c.received <= Freshness)
    BY <1>0, <1>2, <1>n, <1>t
  <2>4. \E c \in accepted' : /\ a.at <= c.at /\ c.at < n.at
                              /\ n.received - c.received <= Freshness
    BY <2>1, <2>2, <1>0
  <2>5. (\A x \in accepted' : a.at < x.at =>
              \E c \in accepted' : /\ a.at <= c.at /\ c.at < x.at
                                   /\ x.received - c.received <= Freshness)
        <=> (\A x \in accepted : a.at < x.at =>
              \E c \in accepted : /\ a.at <= c.at /\ c.at < x.at
                                  /\ x.received - c.received <= Freshness)
    BY <2>3, <2>4, <1>0
  <2> QED
    BY <2>2, <2>5, <1>0 DEF Segment
<1>7. ASSUME NEW a \in accepted, ~Continues(b, received)
      PROVE  a \notin Segment'
  <2>1. CASE boot # b
    BY <2>1, <1>0, <1>1 DEF Segment, Summarises
  <2>2. CASE boot = b
    <3>1. PICK newest \in accepted : Newest(newest)
      BY DEF Summarises
    <3>2. last_received \in Nat /\ n.received - last_received > Freshness
      BY <1>7, <2>2, <3>1, <1>n, <1>t DEF Newest, Continues
    <3>3. \A c \in accepted : n.received - c.received > Freshness
      BY <3>1, <3>2, <1>n, <1>t DEF Newest
    <3>4. ~\E c \in accepted' : /\ a.at <= c.at /\ c.at < n.at
                                /\ n.received - c.received <= Freshness
      BY <3>3, <1>0, <1>n, <1>t
    <3> QED
      BY <3>4, <1>0, <1>2 DEF Segment
  <2> QED
    BY <2>1, <2>2
<1>8. EstimateOfSegment'
  <2>1. Segment' \subseteq accepted' /\ Segment \subseteq accepted
    BY DEF Segment
  <2>2. estimate = Segment
    BY DEF EstimateOfSegment
  <2> QED
    BY <1>0, <1>5, <1>6, <1>7, <2>1, <2>2 DEF EstimateOfSegment
<1> QED
  BY <1>3, <1>4, <1>8

\* The invariant is inductive.
LEMMA Inductive == IInv /\ [Next]_vars => IInv'
<1> SUFFICES ASSUME IInv, [Next]_vars PROVE IInv'
  OBVIOUS
<1>0. TypeOK'
  BY TypeStep DEF IInv
<1>1. ASSUME NEW reason \in Blocked, Unordered(reason) PROVE IInv'
  BY <1>0, <1>1, KeepStep DEF Unordered
<1>2. ASSUME NEW w \in Time, Invalid(w) PROVE IInv'
  BY <1>0, <1>2, InvalidStep
<1>3. ASSUME NEW w \in Time, NEW b \in Boot, NEW sequence \in Sequence, NEW received \in Time,
             Rejected(w, b, sequence, received)
      PROVE  IInv'
  BY <1>0, <1>3, KeepStep DEF Rejected, Take
<1>4. ASSUME NEW w \in Time, NEW b \in Boot, NEW sequence \in Sequence, NEW received \in Time,
             Accepted(w, b, sequence, received)
      PROVE  IInv'
  BY <1>0, <1>4, AcceptedStep
<1>5. CASE Finish
  BY <1>0, <1>5, KeepStep DEF Finish
<1>6. CASE UNCHANGED vars
  BY <1>0, <1>6, KeepStep DEF vars
<1> QED
  BY <1>1, <1>2, <1>3, <1>4, <1>5, <1>6 DEF Next

\* Before the first row there is nothing, and so it begins.
LEMMA Initially == Init => IInv
<1> SUFFICES ASSUME Init PROVE IInv
  OBVIOUS
<1>1. TypeOK
  <2>1. 0 \in 0 .. Now /\ 0 \in 0 .. MaxRows
    OBVIOUS
  <2> QED
    BY <2>1 DEF Init, TypeOK, Time
<1>2. Summarises
  BY DEF Init, Summarises
<1>3. OneHistory /\ EstimateOfSegment
  BY DEF Init, OneHistory, EstimateOfSegment, Segment
<1> QED
  BY <1>1, <1>2, <1>3 DEF IInv

\* What the invariant says of every reachable state.
LEMMA Invariance == Spec => []IInv
  BY Initially, Inductive, PTL DEF Spec

\* The loop's variables keep their types, for any rows.
THEOREM TypeCorrect == Spec => []TypeOK
<1>1. IInv => TypeOK
  BY DEF IInv
<1> QED
  BY <1>1, Invariance, PTL

\* The readings that are counted are one history of the node, whatever the rows
\* repeat, reorder or bring back.
THEOREM CountsOneHistory == Spec => []OneHistory
<1>1. IInv => OneHistory
  BY DEF IInv
<1> QED
  BY <1>1, Invariance, PTL

\* The filter has seen exactly the latest unbroken part of that history.
THEOREM EstimateRestsOnSegment == Spec => []EstimateOfSegment
<1>1. IInv => EstimateOfSegment
  BY DEF IInv
<1> QED
  BY <1>1, Invariance, PTL

\* A "fresh" estimate includes the last row of the archive, less than Freshness
\* old.
THEOREM FreshIsNow == Spec => []CurrentIsNow
<1>1. IInv => CurrentIsNow
  <2> SUFFICES ASSUME IInv, Status = "fresh"
               PROVE  \E a \in estimate : /\ a.at = rows
                                          /\ Now - a.received < Freshness
                                          /\ \A b \in accepted : b.received <= a.received
    BY DEF CurrentIsNow
  <2>1. healthy /\ Now - last_received < Freshness
    BY DEF Status, IsCurrent, IInv, TypeOK, Blocked
  <2>2. PICK a \in accepted : Newest(a)
    BY <2>1 DEF IInv, Summarises
  <2> QED
    BY <2>1, <2>2 DEF Newest
<1> QED
  BY <1>1, Invariance, PTL

\* Both at any time: an estimate never mixes readings across a gap, a boot or an
\* invalid row, and an old one is not called fresh.
THEOREM ReportIsSound == Spec => []ReportIsTrue
BY EstimateRestsOnSegment, FreshIsNow, PTL DEF ReportIsTrue
=============================================================================
