----------------------------- MODULE EgressProofs -----------------------------
(***************************************************************************)
(* Proofs about Egress: for any number of connections and slots and any    *)
(* limits of time, slots and sockets are accounted for, each direction of  *)
(* each tunnel is a pipe, and a tunnel is given up only for a cause.       *)
(***************************************************************************)
EXTENDS Egress, FiniteSetTheorems, TLAPS

USE EgressAssumption

\* What holds of one connection by itself: a chunk in hand is one the peer wrote
\* and nobody has passed on, and sockets are open where the stage says so.
Good(k) ==
    /\ k \in Connection
    /\ \A s \in Side : k.given[s] <= k.sent[s] /\ (k.hand = s => k.given[s] < k.sent[s])
    /\ k.stage \in {"idle", "closing"} => k.open = {}
    /\ k.stage \in {"answer", "relay"} => k.open = Side

Held == {c \in Conn : Holding(c)}

IInv == TypeOK /\ (\A c \in Conn : Good(conn[c])) /\ free + Cardinality(Held) = MaxConnections

\* A connection that is over or not made yet is a good one.
LEMMA FreshGood ==
    /\ Good(Fresh) /\ Fresh \in Connection /\ Fresh.stage = "idle" /\ Fresh.hand = None
    /\ Fresh.given = Fresh.sent /\ Fresh.sent = [s \in Side |-> 0]
    /\ \A status \in Status : Good([Fresh EXCEPT !.status = status])
<1>1. [s \in Side |-> 0] \in Count
  BY DEF Count
<1>2. /\ 0 \in 0 .. IoTimeout /\ 0 \in 0 .. IdleTimeout /\ 0 \in 0 .. Lifetime
      /\ "idle" \in Stage /\ 0 \in Status
  BY DEF Stage, Status
<1>3. Fresh \in Connection
  BY <1>1, <1>2 DEF Fresh, Connection
<1>4. /\ Fresh.given = [s \in Side |-> 0] /\ Fresh.sent = [s \in Side |-> 0]
      /\ Fresh.hand = None /\ Fresh.open = {} /\ Fresh.stage = "idle"
  BY DEF Fresh
<1>5. /\ \A s \in Side : [t \in Side |-> 0][s] = 0
      /\ None \notin Side
  BY DEF Side
<1>6. Good(Fresh)
  BY <1>3, <1>4, <1>5 DEF Good
<1>7. ASSUME NEW status \in Status
      PROVE  Good([Fresh EXCEPT !.status = status])
  <2> DEFINE k == [Fresh EXCEPT !.status = status]
  <2>1. k \in Connection
    BY <1>3 DEF Connection
  <2>2. /\ k.given = [s \in Side |-> 0] /\ k.sent = [s \in Side |-> 0] /\ k.hand = None
        /\ k.open = {} /\ k.stage = "idle"
    BY <1>3 DEF Fresh, Connection
  <2> QED
    BY <1>5, <2>1, <2>2 DEF Good
<1> QED
  BY <1>3, <1>4, <1>6, <1>7

\* What becomes of a handler's connection when it ends.
LEMMA ClosedGood ==
    ASSUME NEW k, Good(k), NEW status \in Status
    PROVE  /\ Good([Closed(k) EXCEPT !.stage = "closing", !.status = status])
           /\ [Closed(k) EXCEPT !.stage = "closing", !.status = status].stage = "closing"
<1> DEFINE n == [Closed(k) EXCEPT !.stage = "closing", !.status = status]
<1>1. n \in Connection
  BY DEF Good, Closed, Connection, Stage
<1>2. /\ n.given = k.given /\ n.sent = k.sent /\ n.hand = None /\ n.open = {}
      /\ n.stage = "closing"
  BY DEF Good, Closed, Connection
<1> QED
  BY <1>1, <1>2 DEF Good, Side

-----------------------------------------------------------------------------
(* What a step does to the slots *)

Keeps(c) == /\ UNCHANGED free
            /\ \E k : Good(k) /\ Become(c, k) /\ (k.stage = "idle" <=> conn[c].stage = "idle")

Takes(c) == /\ conn[c].stage = "idle" /\ free > 0 /\ free' = free - 1
            /\ \E k : Good(k) /\ Become(c, k) /\ k.stage # "idle"

Gives(c) == /\ conn[c].stage # "idle" /\ free < MaxConnections /\ free' = free + 1
            /\ \E k : Good(k) /\ Become(c, k) /\ k.stage = "idle"

\* The slots held and the slots free add up after each of the three.
LEMMA Counted ==
    ASSUME IInv, NEW c \in Conn, Keeps(c) \/ Takes(c) \/ Gives(c)
    PROVE  IInv'
<1>1. PICK k : Good(k) /\ Become(c, k) /\ (Keeps(c) \/ Takes(c) \/ Gives(c))
               /\ (free' = free + 1 => Gives(c) /\ k.stage = "idle")
               /\ (free' = free - 1 => Takes(c) /\ k.stage # "idle")
               /\ (free' = free => (k.stage = "idle" <=> conn[c].stage = "idle"))
  BY DEF Keeps, Takes, Gives, IInv, TypeOK
<1>2. conn' = [conn EXCEPT ![c] = k] /\ server' = server /\ k \in Connection
  BY <1>1 DEF Become, Good
<1>3. conn' \in [Conn -> Connection] /\ conn'[c] = k /\ \A d \in Conn \ {c} : conn'[d] = conn[d]
  BY <1>2 DEF IInv, TypeOK
<1>4. \A d \in Conn : Good(conn[d])'
  <2>1. \A d \in Conn : Good(conn'[d])
    BY <1>1, <1>3 DEF IInv
  <2> QED
    BY <2>1 DEF Good
<1>5. free \in 0 .. MaxConnections /\ free' \in 0 .. MaxConnections
  BY <1>1 DEF Keeps, Takes, Gives, IInv, TypeOK
<1>6. IsFiniteSet(Held) /\ Cardinality(Held) \in Nat /\ free + Cardinality(Held) = MaxConnections
  <2>1. Held \subseteq Conn /\ IsFiniteSet(Conn)
    BY DEF Held
  <2> QED
    BY <2>1, FS_Subset, FS_CardinalityType DEF IInv
<1>7. free' + Cardinality(Held') = MaxConnections
  <2>1. CASE free' = free
    <3>1. Held' = Held
      BY <1>1, <1>3, <2>1 DEF Held, Holding
    <3> QED
      BY <2>1, <3>1, <1>6
  <2>2. CASE free' = free - 1
    <3>1. Held' = Held \cup {c} /\ c \notin Held
      BY <1>1, <1>3, <1>5, <2>2 DEF Held, Holding, Takes
    <3>2. Cardinality(Held') = Cardinality(Held) + 1
      BY <3>1, <1>6, FS_AddElement
    <3> QED
      BY <2>2, <3>2, <1>5, <1>6
  <2>3. CASE free' = free + 1
    <3>1. Held' = Held \ {c} /\ c \in Held
      BY <1>1, <1>3, <1>5, <2>3 DEF Held, Holding, Gives
    <3>2. Cardinality(Held') = Cardinality(Held) - 1
      BY <3>1, <1>6, FS_RemoveElement
    <3> QED
      BY <2>3, <3>2, <1>5, <1>6
  <2> QED
    BY <1>1, <2>1, <2>2, <2>3 DEF Keeps, Takes, Gives
<1> QED
  BY <1>2, <1>3, <1>4, <1>5, <1>7 DEF IInv, TypeOK

-----------------------------------------------------------------------------
(* The steps *)

\* The handler of c ends, with any answer.
LEMMA EndKeeps ==
    ASSUME IInv, NEW c \in Conn, conn[c].stage # "idle", NEW status \in Status, End(c, status)
    PROVE  Keeps(c)
<1>1. Good(conn[c])
  BY DEF IInv
<1> QED
  BY <1>1, ClosedGood DEF End, Keeps

LEMMA FailKeeps ==
    ASSUME IInv, NEW c \in Conn, conn[c].stage # "idle", NEW code \in Status, Fail(c, code)
    PROVE  Keeps(c)
<1>1. PICK status \in {0, code} : End(c, status)
  BY DEF Fail
<1>2. status \in Status
  BY <1>1 DEF Status
<1> QED
  BY <1>1, <1>2, EndKeeps

\* The accept loop: a slot is taken, refused, or given back.
LEMMA AcceptLoop ==
    ASSUME IInv, NEW c \in Conn
    PROVE  /\ Admit(c) => Takes(c)
           /\ Refuse(c) => Keeps(c)
           /\ StartFails(c) => Gives(c)
           /\ Release(c) => Gives(c)
<1>0. /\ Good(conn[c]) /\ Good(Fresh) /\ Fresh \in Connection /\ Fresh.stage = "idle"
      /\ Fresh.hand = None
  BY FreshGood DEF IInv
<1>1. ASSUME Admit(c) PROVE Takes(c)
  <2> DEFINE k == [Fresh EXCEPT !.stage = "starting", !.open = {"client"}]
  <2>1. Good(k) /\ k.stage # "idle"
    <3>1. k \in Connection
      BY <1>0 DEF Connection, Stage, Side
    <3> QED
      BY <3>1, <1>0 DEF Good, Connection, Side
  <2> QED
    BY <1>1, <2>1 DEF Admit, Takes
<1>2. ASSUME Refuse(c) PROVE Keeps(c)
  <2>1. PICK status \in {0, 503} : Become(c, [Fresh EXCEPT !.status = status])
    BY <1>2 DEF Refuse
  <2>2. Good([Fresh EXCEPT !.status = status])
    BY FreshGood DEF Status
  <2>3. [Fresh EXCEPT !.status = status].stage = "idle"
    BY <1>0 DEF Connection
  <2> QED
    BY <1>2, <2>1, <2>2, <2>3 DEF Refuse, Keeps
<1>3. ASSUME StartFails(c) PROVE Gives(c)
  BY <1>3, <1>0 DEF StartFails, Gives
<1>4. ASSUME Release(c) PROVE Gives(c)
  <2>1. conn[c].stage = "closing" /\ conn[c].open = {}
    BY <1>4, <1>0 DEF Release, Good
  <2> DEFINE k == [Fresh EXCEPT !.open = {}]
  <2>2. k \in Connection /\ k.stage = "idle" /\ k.open = {} /\ k.hand = None
    BY <1>0 DEF Connection
  <2>3. k.given = Fresh.given /\ k.sent = Fresh.sent
    BY <1>0 DEF Connection
  <2>4. Good(k)
    BY <2>2, <2>3, <1>0 DEF Good, Side
  <2> QED
    BY <1>4, <2>1, <2>2, <2>4 DEF Release, Gives
<1> QED
  BY <1>1, <1>2, <1>3, <1>4

\* The handler before the tunnel.
LEMMA BeforeTunnel ==
    ASSUME IInv, NEW c \in Conn,
           \/ Start(c) \/ ReadRequest(c) \/ BadRequest(c) \/ RequestLate(c)
           \/ ResolveAddresses(c) \/ ResolveDashboard(c)
           \/ ConnectUpstream(c) \/ ConnectDashboard(c) \/ Answer(c)
    PROVE  Keeps(c)
<1>0. Good(conn[c]) /\ conn[c] \in Connection /\ 0 \in 0 .. IoTimeout
  BY DEF IInv, Good
<1>e. ASSUME NEW stage \in Stage \ {"idle", "closing", "answer", "relay"}
      PROVE  Good(Enter(conn[c], stage)) /\ Enter(conn[c], stage).stage = stage
  <2>1. Enter(conn[c], stage) \in Connection
    BY <1>0 DEF Enter, Connection
  <2> QED
    BY <2>1, <1>0 DEF Good, Enter, Connection
<1>1. ASSUME Start(c) PROVE Keeps(c)
  <2>1. conn[c].stage # "idle"
    BY <1>1 DEF Start
  <2>2. PICK stage \in {"request", "resolve"} : Become(c, Enter(conn[c], stage)) /\ UNCHANGED free
    BY <1>1 DEF Start
  <2>3. stage \in Stage \ {"idle", "closing", "answer", "relay"}
    BY DEF Stage
  <2> QED
    BY <2>1, <2>2, <2>3, <1>e DEF Keeps
<1>2. ASSUME ReadRequest(c) PROVE Keeps(c)
  <2>1. "resolve" \in Stage \ {"idle", "closing", "answer", "relay"}
    BY DEF Stage
  <2> QED
    BY <1>2, <2>1, <1>e DEF ReadRequest, Keeps
<1>3. ASSUME BadRequest(c) PROVE Keeps(c)
  BY ZenonT(60), <1>3, FailKeeps DEF BadRequest, Status
<1>4. ASSUME RequestLate(c) PROVE Keeps(c)
  BY <1>4, FailKeeps DEF RequestLate, Status
<1>5. ASSUME NEW acceptable, Resolve(c, acceptable) PROVE Keeps(c)
  <2>1. conn[c].stage = "resolve"
    BY <1>5 DEF Resolve
  <2>2. CASE Fail(c, 502)
    BY <2>1, <2>2, FailKeeps DEF Status
  <2>3. ASSUME NEW answer \in SUBSET Address, UNCHANGED free,
               Become(c, [Enter(conn[c], "connect") EXCEPT !.todo = answer])
        PROVE  Keeps(c)
    <3> DEFINE e == Enter(conn[c], "connect")
               k == [e EXCEPT !.todo = answer]
    <3>1. Good(e) /\ e.stage = "connect"
      BY <1>e DEF Stage
    <3>2. Good(k) /\ k.stage = "connect"
      BY <3>1 DEF Good, Connection
    <3> QED
      BY <2>1, <2>3, <3>2 DEF Keeps
  <2> QED
    BY <1>5, <2>2, <2>3 DEF Resolve
<1>6. ASSUME NEW then \in {"answer", "relay"}, Connect(c, then) PROVE Keeps(c)
  <2>1. conn[c].stage = "connect"
    BY <1>6 DEF Connect
  <2>2. CASE Fail(c, 502)
    BY <2>1, <2>2, FailKeeps DEF Status
  <2>3. ASSUME NEW a, UNCHANGED free, Become(c, [conn[c] EXCEPT !.todo = @ \ {a}])
        PROVE  Keeps(c)
    <3> DEFINE k == [conn[c] EXCEPT !.todo = @ \ {a}]
    <3>1. Good(k) /\ k.stage = "connect"
      BY <1>0, <2>1 DEF Good, Connection
    <3> QED
      BY <2>1, <2>3, <3>1 DEF Keeps
  <2>4. ASSUME UNCHANGED free, Become(c, [Enter(conn[c], then) EXCEPT !.open = Side])
        PROVE  Keeps(c)
    <3> DEFINE k == [Enter(conn[c], then) EXCEPT !.open = Side]
    <3>1. k \in Connection
      BY <1>0 DEF Enter, Connection, Stage
    <3>2. Good(k) /\ k.stage = then
      BY <1>0, <3>1 DEF Good, Enter, Connection
    <3> QED
      BY <2>1, <2>4, <3>2 DEF Keeps
  <2> QED
    BY <1>6, <2>2, <2>3, <2>4 DEF Connect
<1>7. ASSUME Answer(c) PROVE Keeps(c)
  <2>1. conn[c].stage = "answer"
    BY <1>7 DEF Answer
  <2>2. ASSUME NEW status \in {0, 200}, End(c, status) PROVE Keeps(c)
    BY <2>1, <2>2, EndKeeps DEF Status
  <2>3. ASSUME UNCHANGED free, Become(c, [Enter(conn[c], "relay") EXCEPT !.status = 200])
        PROVE  Keeps(c)
    <3> DEFINE k == [Enter(conn[c], "relay") EXCEPT !.status = 200]
    <3>0. "relay" \in Stage /\ 200 \in Status
      BY DEF Stage, Status
    <3>1. k \in Connection
      BY <1>0, <3>0 DEF Enter, Connection
    <3>2. Good(k) /\ k.stage = "relay"
      BY <1>0, <2>1, <3>1 DEF Good, Enter, Connection
    <3> QED
      BY <2>1, <2>3, <3>2 DEF Keeps
  <2> QED
    BY <1>7, <2>2, <2>3 DEF Answer
<1> QED
  BY <1>1, <1>2, <1>3, <1>4, <1>5, <1>6, <1>7
     DEF ResolveAddresses, ResolveDashboard, ConnectUpstream, ConnectDashboard

\* The tunnel, and its peers.
LEMMA Tunnel ==
    ASSUME IInv, NEW c \in Conn
    PROVE  /\ \A s \in Side : Receive(c, s) \/ PassEnd(c, s) => Keeps(c)
           /\ Send(c) \/ Abandon(c) \/ Peer(c) => Keeps(c)
<1>0. /\ Good(conn[c]) /\ conn[c] \in Connection /\ 0 \in 0 .. IoTimeout /\ 0 \in 0 .. IdleTimeout
      /\ conn[c].given \in Count /\ conn[c].sent \in Count /\ conn[c].read \in Count
  BY DEF IInv, Good, Connection
<1>1. ASSUME NEW s \in Side, Receive(c, s) PROVE Keeps(c)
  <2> DEFINE k == [conn[c] EXCEPT !.hand = s, !.wait = 0]
  <2>1. k \in Connection /\ k.given = conn[c].given /\ k.sent = conn[c].sent
        /\ k.hand = s /\ k.stage = conn[c].stage /\ k.open = conn[c].open
    BY <1>0 DEF Connection
  <2>2. Good(k)
    BY <1>0, <1>1, <2>1 DEF Good, Receive
  <2> QED
    BY <1>1, <2>1, <2>2 DEF Receive, Keeps
<1>2. ASSUME NEW s \in Side, PassEnd(c, s) PROVE Keeps(c)
  <2> DEFINE shut == conn[c].shut \cup {s}
             k == [conn[c] EXCEPT !.shut = shut]
             n == [Closed(k) EXCEPT !.stage = "closing"]
  <2>1. conn[c].stage = "relay"
    BY <1>2 DEF PassEnd, Relaying
  <2>2. k \in Connection /\ k.given = conn[c].given /\ k.sent = conn[c].sent
        /\ k.hand = conn[c].hand /\ k.stage = conn[c].stage /\ k.open = conn[c].open
    BY <1>0 DEF Connection
  <2>3. Good(k)
    BY <1>0, <2>2 DEF Good
  <2>4. n \in Connection /\ n.given = k.given /\ n.sent = k.sent /\ n.hand = None
        /\ n.open = {} /\ n.stage = "closing"
    BY <2>2 DEF Closed, Connection, Stage
  <2>5. Good(n)
    BY <2>3, <2>4 DEF Good, Side
  <2>6. UNCHANGED free /\ (Become(c, n) \/ Become(c, k))
    BY <1>2 DEF PassEnd
  <2> QED
    BY <2>1, <2>2, <2>3, <2>4, <2>5, <2>6 DEF Keeps
<1>3. ASSUME Send(c) PROVE Keeps(c)
  <2> DEFINE s == conn[c].hand
             k == [conn[c] EXCEPT !.given[s] = @ + 1, !.hand = None, !.idle = 0]
  <2>1. s \in Side /\ conn[c].given[s] < conn[c].sent[s]
    BY <1>0, <1>3 DEF Send, Good, Connection
  <2>2. [conn[c].given EXCEPT ![s] = @ + 1] \in Count
    BY <1>0, <2>1 DEF Count
  <2>3. k \in Connection /\ k.given = [conn[c].given EXCEPT ![s] = @ + 1]
        /\ k.sent = conn[c].sent /\ k.hand = None /\ k.stage = conn[c].stage
        /\ k.open = conn[c].open
    BY <1>0, <2>2 DEF Connection
  <2>4. Good(k)
    BY <1>0, <2>1, <2>3 DEF Good, Count, Side
  <2> QED
    BY <1>3, <2>3, <2>4 DEF Send, Keeps
<1>4. ASSUME Abandon(c) PROVE Keeps(c)
  <2>1. conn[c].status \in Status /\ conn[c].stage # "idle" /\ End(c, conn[c].status)
    BY <1>0, <1>4 DEF Abandon, Connection
  <2> QED
    BY <2>1, EndKeeps
<1>5. ASSUME NEW s \in Side, PeerWrites(c, s) PROVE Keeps(c)
  <2> DEFINE k == [conn[c] EXCEPT !.sent[s] = @ + 1, !.news = TRUE]
  <2>1. conn[c].sent[s] < MaxChunks
    BY <1>0, <1>5 DEF PeerWrites, Count, Side, Other
  <2>2. [conn[c].sent EXCEPT ![s] = @ + 1] \in Count
    BY <1>0, <2>1 DEF Count
  <2>3. k \in Connection /\ k.given = conn[c].given /\ k.hand = conn[c].hand
        /\ k.sent = [conn[c].sent EXCEPT ![s] = @ + 1]
        /\ k.stage = conn[c].stage /\ k.open = conn[c].open
    BY <1>0, <2>2 DEF Connection
  <2>4. Good(k)
    BY <1>0, <2>3 DEF Good, Count, Side
  <2> QED
    BY <1>5, <2>3, <2>4 DEF PeerWrites, Keeps
<1>6. ASSUME NEW s \in Side, PeerEnds(c, s) PROVE Keeps(c)
  <2> DEFINE k == [conn[c] EXCEPT !.fin = @ \cup {s}]
  <2>1. k \in Connection /\ k.given = conn[c].given /\ k.sent = conn[c].sent
        /\ k.hand = conn[c].hand /\ k.stage = conn[c].stage /\ k.open = conn[c].open
    BY <1>0 DEF Connection
  <2>2. Good(k)
    BY <1>0, <2>1 DEF Good
  <2> QED
    BY <1>6, <2>1, <2>2 DEF PeerEnds, Keeps
<1>7. ASSUME NEW s \in Side, PeerReads(c, s) PROVE Keeps(c)
  <2> DEFINE k == [conn[c] EXCEPT !.read[s] = @ + 1]
  <2>1. [conn[c].read EXCEPT ![s] = @ + 1] \in Count
    BY <1>0, <1>7 DEF Count, PeerReads
  <2>2. k \in Connection /\ k.given = conn[c].given /\ k.sent = conn[c].sent
        /\ k.hand = conn[c].hand /\ k.stage = conn[c].stage /\ k.open = conn[c].open
    BY <1>0, <2>1 DEF Connection
  <2>3. Good(k)
    BY <1>0, <2>2 DEF Good
  <2> QED
    BY <1>7, <2>2, <2>3 DEF PeerReads, Keeps
<1>8. ASSUME NEW s \in Side, PeerBreaks(c, s) PROVE Keeps(c)
  <2> DEFINE k == [conn[c] EXCEPT !.broken = @ \cup {s}]
  <2>1. k \in Connection /\ k.given = conn[c].given /\ k.sent = conn[c].sent
        /\ k.hand = conn[c].hand /\ k.stage = conn[c].stage /\ k.open = conn[c].open
    BY <1>0 DEF Connection
  <2>2. Good(k)
    BY <1>0, <2>1 DEF Good
  <2> QED
    BY <1>8, <2>1, <2>2 DEF PeerBreaks, Keeps
<1> QED
  BY <1>1, <1>2, <1>3, <1>4, <1>5, <1>6, <1>7, <1>8 DEF Peer

\* Time passes for all connections and touches neither slots nor sockets.
LEMMA TickStep == IInv /\ Tick => IInv'
<1> SUFFICES ASSUME IInv, Tick PROVE IInv'
  OBVIOUS
<1>1. ASSUME NEW k, Good(k)
      PROVE  Good(Aged(k)) /\ Aged(k).stage = k.stage
  <2>0. k \in Connection
    BY <1>1 DEF Good
  <2>1. /\ \A age \in 0 .. IoTimeout : Older(age, IoTimeout) \in 0 .. IoTimeout
        /\ \A age \in 0 .. IdleTimeout : Older(age, IdleTimeout) \in 0 .. IdleTimeout
        /\ \A age \in 0 .. Lifetime : Older(age, Lifetime) \in 0 .. Lifetime
        /\ 0 \in 0 .. IdleTimeout
    BY DEF Older
  <2>2. /\ Aged(k) \in Connection /\ Aged(k).given = k.given /\ Aged(k).sent = k.sent
        /\ Aged(k).hand = k.hand /\ Aged(k).stage = k.stage /\ Aged(k).open = k.open
    <3>1. CASE k.stage = "idle"
      BY <2>0, <3>1 DEF Aged
    <3>2. CASE k.stage = "relay"
      <4> DEFINE q == Older(IF k.news THEN 0 ELSE k.quiet, IdleTimeout)
                 a == [k EXCEPT !.wait = Older(@, IoTimeout), !.idle = Older(@, IdleTimeout),
                                !.life = Older(@, Lifetime), !.news = FALSE, !.quiet = q]
      <4>1. q \in 0 .. IdleTimeout
        BY <2>0, <2>1 DEF Connection
      <4>2. Aged(k) = a
        BY <3>2 DEF Aged
      <4>3. a \in Connection /\ a.given = k.given /\ a.sent = k.sent
            /\ a.hand = k.hand /\ a.stage = k.stage /\ a.open = k.open
        <5> HIDE DEF q
        <5> QED
          BY <2>0, <2>1, <4>1 DEF Connection
      <4> QED
        BY <4>2, <4>3
    <3>3. CASE k.stage \notin {"idle", "relay"}
      <4> DEFINE a == [k EXCEPT !.wait = Older(@, IoTimeout), !.news = FALSE]
      <4>1. Aged(k) = a
        BY <3>3 DEF Aged
      <4>2. a \in Connection /\ a.given = k.given /\ a.sent = k.sent
            /\ a.hand = k.hand /\ a.stage = k.stage /\ a.open = k.open
        BY <2>0, <2>1 DEF Connection
      <4> QED
        BY <4>1, <4>2
    <3> QED
      BY <3>1, <3>2, <3>3
  <2> QED
    BY <1>1, <2>2 DEF Good
<1>2. /\ conn' = [c \in Conn |-> Aged(conn[c])] /\ free' = free /\ server' = server
  BY DEF Tick
<1>3. \A c \in Conn : Good(conn'[c]) /\ conn'[c].stage = conn[c].stage
  BY <1>1, <1>2 DEF IInv
<1>4. conn' \in [Conn -> Connection] /\ \A c \in Conn : Good(conn[c])'
  BY <1>2, <1>3 DEF Good
<1>5. Held' = Held
  BY <1>3 DEF Held, Holding
<1> QED
  BY <1>2, <1>4, <1>5 DEF IInv, TypeOK
-----------------------------------------------------------------------------
\* At the start all slots are free.
LEMMA InitInv == Init => IInv
<1> SUFFICES ASSUME Init PROVE IInv
  OBVIOUS
<1>1. conn = [c \in Conn |-> Fresh] /\ Good(Fresh) /\ Fresh \in Connection /\ Fresh.stage = "idle"
  BY FreshGood DEF Init
<1>2. Held = {}
  BY <1>1 DEF Held, Holding
<1>3. Cardinality(Held) = 0
  BY <1>2, FS_EmptySet
<1> QED
  BY <1>1, <1>3 DEF Init, IInv, TypeOK

LEMMA NextInv == IInv /\ [Next]_vars => IInv'
<1> SUFFICES ASSUME IInv, [Next]_vars PROVE IInv'
  OBVIOUS
<1>1. CASE Tick
  BY <1>1, TickStep
<1>2. ASSUME NEW c \in Conn, Admit(c) \/ Refuse(c) \/ StartFails(c) \/ Handle(c) \/ Peer(c)
      PROVE  IInv'
  <2>1. Keeps(c) \/ Takes(c) \/ Gives(c)
    BY <1>2, AcceptLoop, BeforeTunnel, Tunnel DEF Handle
  <2> QED
    BY <2>1, Counted
<1>3. CASE UNCHANGED vars
  <2>1. \A c \in Conn : Good(conn[c])'
    BY <1>3 DEF IInv, Good, vars
  <2>2. Held' = Held
    BY <1>3 DEF Held, Holding, vars
  <2> QED
    BY <1>3, <2>1, <2>2 DEF IInv, TypeOK, vars
<1> QED
  BY <1>1, <1>2, <1>3 DEF Next

\* The proxies' variables keep their types, for any number of connections, slots
\* and chunks: in particular no byte is handed on that was not received.
THEOREM TypeCorrect == Spec => []TypeOK
<1>1. IInv => TypeOK
  BY DEF IInv
<1> QED
  BY <1>1, InitInv, NextInv, PTL DEF Spec

\* process_request and process_request_thread, whatever the handler in between
\* does: a slot is never lost or given back twice, and leaves no socket behind.
THEOREM SlotsAddUp == Spec => []SlotsBalance
<1>1. IInv => SlotsBalance
  BY DEF IInv, SlotsBalance, Held, Good
<1> QED
  BY <1>1, InitInv, NextInv, PTL DEF Spec
-----------------------------------------------------------------------------
(* Pipes and causes: what a step does to one connection *)

Zero == [s \in Side |-> 0]

\* Nothing is passed on before the tunnel, and nothing is written before the
\* thread runs; an end that was passed on had nothing left ahead of it.
Piped(k) ==
    /\ k.stage \notin {"relay", "closing"} => k.shut = {} /\ k.given = Zero
    /\ k.stage \in {"idle", "starting"} => k.sent = Zero /\ k.fin = {}
    /\ \A s \in k.shut : s \in k.fin /\ k.given[s] = k.sent[s]
    /\ k.shut = Side => k.stage = "closing"

\* last_activity is no older than the last chunk of a peer, but for a chunk that
\* came in this instant and is not passed on, or that waits to be written.
Timed(k) ==
    /\ k.stage \notin {"relay", "closing"} => k.idle = 0
    /\ k.stage = "relay" =>
          /\ k.news => k.idle = 0 \/ \E s \in Side : k.given[s] < k.sent[s]
          /\ k.idle <= k.quiet \/ (k.hand # None /\ k.wait > 0)

Fit(k) == Good(k) /\ Piped(k) /\ Timed(k)

Fits == IInv /\ \A c \in Conn : Piped(conn[c]) /\ Timed(conn[c])

\* The refinement mapping, for one connection.
Pipe(k, s) ==
    [sent |-> k.sent[s], fin |-> s \in k.fin, given |-> k.given[s],
     end |-> IF s \in k.shut THEN "complete"
             ELSE IF k.stage = "closing" THEN "cut" ELSE "open"]

Flows(k, n) ==
    \A s \in Side : Pipe(n, s) = Pipe(k, s) \/ Pipes!Step(Pipe(k, s), Pipe(n, s))

Cause(k, n) ==
    k.stage = "relay" /\ n.stage = "closing" =>
        \/ n.shut = Side \/ k.broken # {}
        \/ k.hand # None /\ k.wait > 0
        \/ k.life = Lifetime \/ k.quiet = IdleTimeout

Legal(k, n) == Piped(n) /\ Timed(n) /\ Flows(k, n) /\ Cause(k, n)

\* A step that neither moves a chunk nor ends a stream nor closes a tunnel.
LEMMA Same ==
    ASSUME NEW k, NEW n, n.sent = k.sent, n.given = k.given, n.fin = k.fin, n.shut = k.shut,
           k.stage = "closing" <=> n.stage = "closing"
    PROVE  Flows(k, n) /\ Cause(k, n)
<1>1. Cause(k, n)
  BY DEF Cause
<1>2. \A s \in Side : Pipe(n, s) = Pipe(k, s)
  BY DEF Pipe
<1> QED
  BY <1>1, <1>2 DEF Flows

\* The handler closes the sockets: directions that did not end are cut.
LEMMA Cuts ==
    ASSUME NEW k, NEW n, Fit(k), k.stage \notin {"idle", "closing"}, n.stage = "closing",
           n.sent = k.sent, n.given = k.given, n.fin = k.fin, n.shut = k.shut, Cause(k, n)
    PROVE  Legal(k, n)
<1>1. Piped(n)
  BY DEF Piped, Fit
<1>2. Timed(n)
  BY DEF Timed
<1>3. ASSUME NEW s \in Side
      PROVE  Pipe(n, s) = Pipe(k, s) \/ Pipes!Step(Pipe(k, s), Pipe(n, s))
  <2>1. CASE s \in k.shut
    <3>1. Pipe(n, s) = Pipe(k, s)
      BY <2>1 DEF Pipe
    <3> QED
      BY <3>1
  <2>2. CASE s \notin k.shut
    <3>1. Pipe(k, s).end = "open"
      BY <2>2 DEF Pipe
    <3>2. Pipe(n, s) = [Pipe(k, s) EXCEPT !.end = "cut"]
      BY <2>2 DEF Pipe
    <3> QED
      BY <3>1, <3>2 DEF Pipes!Step, Pipes!Cut, Pipes!Open
  <2> QED
    BY <2>1, <2>2
<1> QED
  BY <1>1, <1>2, <1>3 DEF Legal, Flows

\* A connection that is not there has new pipes; one that was there is replaced.
LEMMA Renews ==
    ASSUME NEW k, NEW n, Fit(k), k.stage \in {"idle", "starting", "closing"},
           n.stage \in {"idle", "starting"}, n.sent = Zero, n.given = Zero, n.fin = {},
           n.shut = {}, n.idle = 0
    PROVE  Legal(k, n)
<1>1. Piped(n) /\ Timed(n) /\ Cause(k, n)
  BY DEF Piped, Timed, Cause, Side
<1>2. ASSUME NEW s \in Side
      PROVE  Pipe(n, s) = Pipe(k, s) \/ Pipes!Step(Pipe(k, s), Pipe(n, s))
  <2>1. Pipe(n, s) = Pipes!New
    <3>1. n.sent[s] = 0 /\ n.given[s] = 0 /\ (s \in n.fin) = FALSE /\ s \notin n.shut
          /\ n.stage # "closing"
      BY DEF Zero
    <3>2. Pipe(n, s) = [sent |-> 0, fin |-> FALSE, given |-> 0, end |-> "open"]
      BY <3>1, Zenon DEF Pipe
    <3> QED
      BY <3>2 DEF Pipes!New
  <2>2. CASE k.stage = "closing"
    <3>1. Pipe(k, s).end # "open"
      BY <2>2 DEF Pipe
    <3> QED
      BY <2>1, <3>1 DEF Pipes!Step, Pipes!Renew, Pipes!Open
  <2>3. CASE k.stage \in {"idle", "starting"}
    <3>1. Pipe(k, s) = Pipes!New
      <4>1. k.sent[s] = 0 /\ k.given[s] = 0 /\ (s \in k.fin) = FALSE /\ s \notin k.shut
            /\ k.stage # "closing"
        BY <2>3 DEF Zero, Fit, Piped
      <4>2. Pipe(k, s) = [sent |-> 0, fin |-> FALSE, given |-> 0, end |-> "open"]
        BY <4>1, Zenon DEF Pipe
      <4> QED
        BY <4>2 DEF Pipes!New
    <3> QED
      BY <2>1, <3>1
  <2> QED
    BY <2>2, <2>3
<1> QED
  BY <1>1, <1>2 DEF Legal, Flows
-----------------------------------------------------------------------------
(* One lemma for each operation that moves something *)

Taken(k, s) == [k EXCEPT !.hand = s, !.wait = 0]
Passed(k, s) == [k EXCEPT !.given[s] = @ + 1, !.hand = None, !.idle = 0]
Written(k, s) == [k EXCEPT !.sent[s] = @ + 1, !.news = TRUE]

\* A flag that is set in a record.
LEMMA Finished ==
    ASSUME NEW p, NEW q, NEW a, NEW b,
           p = [sent |-> a, fin |-> FALSE, given |-> b, end |-> "open"],
           q = [sent |-> a, fin |-> TRUE, given |-> b, end |-> "open"]
    PROVE  q = [p EXCEPT !.fin = TRUE]
<1>1. PICK f, t : f = FALSE /\ t = TRUE
  BY Zenon
<1>2. /\ p = [sent |-> a, fin |-> f, given |-> b, end |-> "open"]
      /\ q = [sent |-> a, fin |-> t, given |-> b, end |-> "open"]
  BY <1>1, Zenon
<1>3. [p EXCEPT !.fin = t] = q
  BY ONLY <1>2
<1>4. [p EXCEPT !.fin = t] = [p EXCEPT !.fin = TRUE]
  BY <1>1, Zenon
<1> QED
  BY <1>3, <1>4, Zenon

\* A chunk is taken in hand.
LEMMA ReceiveLegal ==
    ASSUME NEW k, Fit(k), k.stage = "relay", k.hand = None, NEW s \in Side
    PROVE  Legal(k, Taken(k, s))
<1> DEFINE n == Taken(k, s)
<1>0. k \in Connection
  BY DEF Fit, Good
<1>1. /\ n.sent = k.sent /\ n.given = k.given /\ n.fin = k.fin /\ n.shut = k.shut
      /\ n.stage = k.stage /\ n.idle = k.idle /\ n.news = k.news /\ n.quiet = k.quiet
  BY <1>0 DEF Connection, Taken
<1> HIDE DEF n
<1>2. Piped(n) /\ Timed(n)
  BY <1>1 DEF Fit, Piped, Timed
<1>3. Legal(k, n)
  BY <1>1, <1>2, Same DEF Legal
<1> QED
  BY <1>3 DEF n

\* The chunk in hand is passed on; last_activity is now.
LEMMA SendLegal ==
    ASSUME NEW k, Fit(k), k.stage = "relay", NEW s \in Side, k.hand = s
    PROVE  Legal(k, Passed(k, s))
<1> DEFINE n == Passed(k, s)
<1>0. /\ k \in Connection /\ k.given \in Count /\ k.sent \in Count
      /\ k.given[s] < k.sent[s] /\ k.quiet \in 0 .. IdleTimeout
  BY DEF Fit, Good, Connection
<1>1. /\ n.sent = k.sent /\ n.given = [k.given EXCEPT ![s] = @ + 1] /\ n.fin = k.fin
      /\ n.shut = k.shut /\ n.stage = k.stage /\ n.idle = 0 /\ n.quiet = k.quiet
  BY <1>0 DEF Connection, Passed
<1>2. n.given[s] = k.given[s] + 1 /\ \A r \in Side \ {s} : n.given[r] = k.given[r]
  BY <1>0, <1>1 DEF Count
<1>3. s \notin k.shut /\ k.shut \subseteq Side
  BY <1>0 DEF Fit, Piped, Connection, Count
<1> HIDE DEF n
<1>4. Piped(n)
  BY <1>1, <1>2, <1>3 DEF Fit, Piped
<1>5. Timed(n)
  BY <1>0, <1>1 DEF Timed
<1>6. Cause(k, n)
  BY <1>1 DEF Cause
<1>7. ASSUME NEW r \in Side
      PROVE  Pipe(n, r) = Pipe(k, r) \/ Pipes!Step(Pipe(k, r), Pipe(n, r))
  <2>1. CASE r = s
    <3>1. /\ Pipe(k, s).end = "open" /\ Pipe(k, s).given = k.given[s]
          /\ Pipe(k, s).sent = k.sent[s]
      BY <1>3 DEF Pipe
    <3>2. Pipe(n, s) = [Pipe(k, s) EXCEPT !.given = @ + 1]
      BY <1>1, <1>2 DEF Pipe
    <3> QED
      BY <2>1, <3>1, <3>2, <1>0 DEF Pipes!Step, Pipes!HandOn, Pipes!Open
  <2>2. CASE r # s
    <3>1. Pipe(n, r) = Pipe(k, r)
      BY <1>1, <1>2, <2>2 DEF Pipe
    <3> QED
      BY <3>1
  <2> QED
    BY <2>1, <2>2
<1>8. Legal(k, n)
  BY <1>4, <1>5, <1>6, <1>7 DEF Legal, Flows
<1> QED
  BY <1>8 DEF n

\* The end of a stream is passed on: all of it was, and the pipe is complete.
LEMMA PassEndLegal ==
    ASSUME NEW k, Fit(k), k.stage = "relay", NEW s \in Side, s \notin k.shut,
           s \in k.fin, k.given[s] = k.sent[s], NEW n,
           n.sent = k.sent, n.given = k.given, n.fin = k.fin, n.shut = k.shut \cup {s},
           \/ n.shut = Side /\ n.stage = "closing"
           \/ /\ n.shut # Side /\ n.stage = "relay" /\ n.idle = k.idle /\ n.quiet = k.quiet
              /\ n.news = k.news /\ n.hand = k.hand /\ n.wait = k.wait
    PROVE  Legal(k, n)
<1>1. Piped(n)
  BY DEF Fit, Piped
<1>2. Timed(n)
  BY DEF Fit, Timed
<1>3. Cause(k, n)
  BY DEF Cause
<1>4. ASSUME NEW r \in Side
      PROVE  Pipe(n, r) = Pipe(k, r) \/ Pipes!Step(Pipe(k, r), Pipe(n, r))
  <2>1. CASE r = s
    <3>1. /\ Pipe(k, s).end = "open" /\ Pipe(k, s).given = Pipe(k, s).sent
          /\ Pipe(k, s).fin = (s \in k.fin)
      BY DEF Pipe
    <3>2. Pipe(n, s) = [Pipe(k, s) EXCEPT !.end = "complete"]
      BY DEF Pipe
    <3>3. Pipe(k, s).fin
      BY <3>1
    <3> QED
      BY <2>1, <3>1, <3>2, <3>3 DEF Pipes!Step, Pipes!Complete, Pipes!Open
  <2>2. CASE r # s /\ r \in k.shut
    <3>1. Pipe(n, r) = Pipe(k, r)
      BY <2>2 DEF Pipe
    <3> QED
      BY <3>1
  <2>3. CASE r # s /\ r \notin k.shut
    <3>1. n.shut # Side /\ r \notin n.shut
      BY <2>3
    <3>2. Pipe(n, r) = Pipe(k, r)
      BY <2>3, <3>1 DEF Pipe
    <3> QED
      BY <3>2
  <2> QED
    BY <2>1, <2>2, <2>3
<1> QED
  BY <1>1, <1>2, <1>3, <1>4 DEF Legal, Flows
\* A peer writes a chunk, before the tunnel or in it.
LEMMA WriteLegal ==
    ASSUME NEW k, Fit(k), k.stage \notin {"idle", "starting", "closing"}, NEW s \in Side,
           s \notin k.fin, k.sent[s] + k.sent[Other(s)] < MaxChunks
    PROVE  Legal(k, Written(k, s))
<1> DEFINE n == Written(k, s)
<1>0. /\ k \in Connection /\ k.given \in Count /\ k.sent \in Count
      /\ k.given[s] <= k.sent[s]
  BY DEF Fit, Good, Connection
<1>1. /\ n.given = k.given /\ n.sent = [k.sent EXCEPT ![s] = @ + 1] /\ n.fin = k.fin
      /\ n.shut = k.shut /\ n.stage = k.stage /\ n.idle = k.idle /\ n.quiet = k.quiet
      /\ n.hand = k.hand /\ n.wait = k.wait
  BY <1>0 DEF Connection, Written
<1>2. n.sent[s] = k.sent[s] + 1 /\ \A r \in Side \ {s} : n.sent[r] = k.sent[r]
  BY <1>0, <1>1 DEF Count
<1>3. s \notin k.shut /\ k.shut \subseteq Side /\ n.given[s] < n.sent[s]
  BY <1>0, <1>1, <1>2 DEF Fit, Piped, Connection, Count
<1> HIDE DEF n
<1>4. Piped(n)
  BY <1>1, <1>2, <1>3 DEF Fit, Piped
<1>5. Timed(n)
  BY <1>1, <1>3 DEF Fit, Timed
<1>6. Cause(k, n)
  BY <1>1 DEF Cause
<1>7. ASSUME NEW r \in Side
      PROVE  Pipe(n, r) = Pipe(k, r) \/ Pipes!Step(Pipe(k, r), Pipe(n, r))
  <2>1. CASE r = s
    <3>1. /\ Pipe(k, s).end = "open" /\ Pipe(k, s).fin = (s \in k.fin)
      BY <1>3 DEF Pipe
    <3>2. Pipe(n, s) = [Pipe(k, s) EXCEPT !.sent = @ + 1]
      BY <1>1, <1>2 DEF Pipe
    <3>3. ~Pipe(k, s).fin
      BY <3>1
    <3> QED
      BY <2>1, <3>1, <3>2, <3>3 DEF Pipes!Step, Pipes!Write, Pipes!Open
  <2>2. CASE r # s
    <3>1. Pipe(n, r) = Pipe(k, r)
      BY <1>1, <1>2, <2>2 DEF Pipe
    <3> QED
      BY <3>1
  <2> QED
    BY <2>1, <2>2
<1>8. Legal(k, n)
  BY <1>4, <1>5, <1>6, <1>7 DEF Legal, Flows
<1> QED
  BY <1>8 DEF n

\* A peer says that it has written everything.
LEMMA FinishLegal ==
    ASSUME NEW k, Fit(k), k.stage \notin {"idle", "starting", "closing"}, NEW s \in Side,
           s \notin k.fin
    PROVE  Legal(k, [k EXCEPT !.fin = @ \cup {s}])
<1> DEFINE n == [k EXCEPT !.fin = @ \cup {s}]
<1>0. k \in Connection
  BY DEF Fit, Good
<1>1. /\ n.given = k.given /\ n.sent = k.sent /\ n.fin = k.fin \cup {s}
      /\ n.shut = k.shut /\ n.stage = k.stage /\ n.idle = k.idle /\ n.quiet = k.quiet
      /\ n.hand = k.hand /\ n.wait = k.wait /\ n.news = k.news
  BY <1>0 DEF Connection
<1>2. s \notin k.shut
  BY DEF Fit, Piped
<1> HIDE DEF n
<1>3. Piped(n)
  BY <1>1 DEF Fit, Piped
<1>4. Timed(n)
  BY <1>1 DEF Fit, Timed
<1>5. Cause(k, n)
  BY <1>1 DEF Cause
<1>6. ASSUME NEW r \in Side
      PROVE  Pipe(n, r) = Pipe(k, r) \/ Pipes!Step(Pipe(k, r), Pipe(n, r))
  <2>1. CASE r = s
    <3>1. Pipe(k, s).end = "open"
      BY <1>2 DEF Pipe
    <3>2. (s \in n.fin) = TRUE
      BY <1>1
    <3>3. Pipe(n, s) = [Pipe(k, s) EXCEPT !.fin = TRUE]
      <4>1. Pipe(n, s) = [sent |-> k.sent[s], fin |-> TRUE, given |-> k.given[s],
                          end |-> "open"]
        <5>1. n.stage # "closing" /\ s \notin n.shut
          BY <1>1, <1>2
        <5> QED
          BY <1>1, <3>2, <5>1, Zenon DEF Pipe
      <4>2. Pipe(k, s) = [sent |-> k.sent[s], fin |-> FALSE, given |-> k.given[s],
                          end |-> "open"]
        <5>1. (s \in k.fin) = FALSE
          OBVIOUS
        <5> QED
          BY <1>2, <5>1, Zenon DEF Pipe
      <4> QED
        BY <4>1, <4>2, Finished
    <3> QED
      BY <2>1, <3>1, <3>3 DEF Pipes!Step, Pipes!Finish, Pipes!Open
  <2>2. CASE r # s
    <3>1. (r \in n.fin) = (r \in k.fin)
      BY <1>1, <2>2
    <3>2. Pipe(n, r) = Pipe(k, r)
      BY <1>1, <3>1 DEF Pipe
    <3> QED
      BY <3>2
  <2> QED
    BY <2>1, <2>2
<1>7. Legal(k, n)
  BY <1>3, <1>4, <1>5, <1>6 DEF Legal, Flows
<1> QED
  BY <1>7 DEF n

\* A peer reads, or breaks off.
LEMMA ReadLegal ==
    ASSUME NEW k, Fit(k), NEW s \in Side
    PROVE  /\ Legal(k, [k EXCEPT !.read[s] = @ + 1])
           /\ Legal(k, [k EXCEPT !.broken = @ \cup {s}])
<1>1. ASSUME NEW n, n.given = k.given, n.sent = k.sent, n.fin = k.fin,
             n.shut = k.shut, n.stage = k.stage, n.idle = k.idle, n.quiet = k.quiet,
             n.hand = k.hand, n.wait = k.wait, n.news = k.news
      PROVE  Legal(k, n)
  <2>1. Piped(n) /\ Timed(n)
    BY <1>1 DEF Fit, Piped, Timed
  <2> QED
    BY <1>1, <2>1, Same DEF Legal
<1>2. k \in Connection
  BY DEF Fit, Good
<1>3. Legal(k, [k EXCEPT !.read[s] = @ + 1])
  BY <1>1, <1>2 DEF Connection
<1>4. Legal(k, [k EXCEPT !.broken = @ \cup {s}])
  BY <1>1, <1>2 DEF Connection
<1> QED
  BY <1>3, <1>4

\* Before the tunnel only the stage moves on.
LEMMA EnterLegal ==
    ASSUME NEW k, Fit(k), k.stage \notin {"relay", "closing"}, NEW n,
           n.given = k.given, n.sent = k.sent, n.fin = k.fin, n.shut = k.shut, n.idle = k.idle,
           n.quiet = k.quiet, n.stage \notin {"idle", "starting", "closing"}
    PROVE  Legal(k, n)
<1>0. k.quiet \in Nat
  BY DEF Fit, Good, Connection
<1>1. n.shut = {} /\ n.shut # Side
  BY DEF Fit, Piped, Side
<1>2. Piped(n)
  BY <1>1 DEF Fit, Piped
<1>3. n.idle = 0 /\ n.quiet \in Nat
  BY <1>0 DEF Fit, Timed
<1>4. Timed(n)
  BY <1>3 DEF Timed
<1>5. k.stage = "closing" <=> n.stage = "closing"
  OBVIOUS
<1> QED
  BY <1>2, <1>4, <1>5, Same DEF Legal

\* Time passes.  Where the thread has nothing to do, what was written in this
\* instant was passed on in it, or waits.
Quick(k) ==
    \/ k.broken # {} \/ ~InTime(k) \/ Stuck(k)
    \/ k.hand = None /\ \E s \in Side \ k.shut : k.given[s] < k.sent[s]

LEMMA AgedLegal ==
    ASSUME NEW k, Fit(k), k.stage \notin {"starting", "answer", "closing"},
           k.stage = "relay" => ~Quick(k)
    PROVE  Legal(k, Aged(k))
<1>0. /\ k \in Connection /\ k.given \in Count /\ k.sent \in Count
      /\ k.wait \in 0 .. IoTimeout /\ k.idle \in 0 .. IdleTimeout /\ k.quiet \in 0 .. IdleTimeout
      /\ k.news \in BOOLEAN
  BY DEF Fit, Good, Connection
<1>1. CASE k.stage = "idle"
  <2>1. Aged(k) = k
    BY <1>1 DEF Aged
  <2> QED
    BY <2>1, Same DEF Fit, Legal
<1>2. CASE k.stage \notin {"idle", "relay"}
  <2> DEFINE n == [k EXCEPT !.wait = Older(@, IoTimeout), !.news = FALSE]
  <2>1. Aged(k) = n
    BY <1>2 DEF Aged
  <2>2. /\ n.given = k.given /\ n.sent = k.sent /\ n.fin = k.fin /\ n.shut = k.shut
        /\ n.idle = k.idle /\ n.quiet = k.quiet /\ n.stage = k.stage
    BY <1>0 DEF Connection
  <2> HIDE DEF n
  <2> QED
    BY <1>2, <2>1, <2>2, EnterLegal
<1>3. CASE k.stage = "relay"
  <2> DEFINE q == Older(IF k.news THEN 0 ELSE k.quiet, IdleTimeout)
             n == [k EXCEPT !.wait = Older(@, IoTimeout), !.idle = Older(@, IdleTimeout),
                            !.life = Older(@, Lifetime), !.news = FALSE, !.quiet = q]
  <2>1. Aged(k) = n
    BY <1>3 DEF Aged
  <2>2. /\ n.given = k.given /\ n.sent = k.sent /\ n.fin = k.fin /\ n.shut = k.shut
        /\ n.stage = "relay" /\ n.hand = k.hand /\ n.wait = Older(k.wait, IoTimeout)
        /\ n.idle = Older(k.idle, IdleTimeout) /\ n.news = FALSE /\ n.quiet = q
    <3> HIDE DEF q
    <3> QED
      BY <1>0, <1>3 DEF Connection
  <2> HIDE DEF n
  <2>3. Piped(n)
    BY <1>3, <2>2 DEF Fit, Piped
  <2>4. n.idle <= n.quiet \/ (n.hand # None /\ n.wait > 0)
    <3>1. CASE k.hand # None
      <4>1. n.wait > 0
        BY <1>0, <2>2 DEF Older
      <4> QED
        BY <3>1, <4>1, <2>2
    <3>2. CASE k.hand = None /\ k.news
      <4>1. \A s \in Side : k.given[s] = k.sent[s]
        BY <1>0, <1>3, <3>2 DEF Quick, Fit, Good, Piped, Count
      <4>2. k.idle = 0
        BY <1>0, <1>3, <3>2, <4>1 DEF Fit, Timed, Count
      <4>3. q = Older(0, IdleTimeout)
        BY <3>2
      <4> QED
        BY <2>2, <4>2, <4>3 DEF Older
    <3>3. CASE k.hand = None /\ ~k.news
      <4>1. k.idle <= k.quiet
        BY <1>3, <3>3 DEF Fit, Timed
      <4>2. q = Older(k.quiet, IdleTimeout)
        BY <3>3
      <4> QED
        BY <1>0, <2>2, <4>1, <4>2 DEF Older
    <3> QED
      BY <3>1, <3>2, <3>3, <1>0
  <2>5. Timed(n)
    BY <2>2, <2>4 DEF Timed
  <2>6. k.stage = "closing" <=> n.stage = "closing"
    BY <1>3, <2>2
  <2> QED
    BY <2>1, <2>2, <2>3, <2>5, <2>6, Same DEF Legal
<1> QED
  BY <1>1, <1>2, <1>3
-----------------------------------------------------------------------------
(* The steps of the specification *)

\* The accept loop replaces a connection that is over or has not begun.
LEMMA AcceptLegal ==
    ASSUME NEW c \in Conn, Fit(conn[c]), conn \in [Conn -> Connection],
           Admit(c) \/ Refuse(c) \/ StartFails(c) \/ Release(c)
    PROVE  Legal(conn[c], conn'[c])
<1>0. Fresh \in Connection /\ Fresh.sent = Zero /\ Fresh.given = Zero /\ Fresh.fin = {}
      /\ Fresh.shut = {} /\ Fresh.idle = 0 /\ Fresh.stage = "idle"
  BY FreshGood DEF Fresh, Zero
<1>1. ASSUME NEW n, Become(c, n) PROVE conn'[c] = n
  BY <1>1 DEF Become
<1>2. CASE Admit(c)
  <2> DEFINE n == [Fresh EXCEPT !.stage = "starting", !.open = {"client"}]
  <2>1. n.sent = Zero /\ n.given = Zero /\ n.fin = {} /\ n.shut = {} /\ n.idle = 0
        /\ n.stage = "starting"
    BY <1>0 DEF Connection
  <2>2. conn[c].stage = "idle" /\ conn'[c] = n
    BY <1>1, <1>2 DEF Admit
  <2> HIDE DEF n
  <2> QED
    BY <2>1, <2>2, Renews
<1>3. CASE Refuse(c)
  <2>1. PICK status : Become(c, [Fresh EXCEPT !.status = status])
    BY <1>3 DEF Refuse
  <2> DEFINE n == [Fresh EXCEPT !.status = status]
  <2>2. n.sent = Zero /\ n.given = Zero /\ n.fin = {} /\ n.shut = {} /\ n.idle = 0
        /\ n.stage = "idle"
    BY <1>0 DEF Connection
  <2>3. conn[c].stage = "idle" /\ conn'[c] = n
    BY <1>1, <1>3, <2>1 DEF Refuse
  <2> HIDE DEF n
  <2> QED
    BY <2>2, <2>3, Renews
<1>4. CASE StartFails(c)
  <2>1. conn[c].stage = "starting" /\ conn'[c] = Fresh
    BY <1>1, <1>4 DEF StartFails
  <2> QED
    BY <1>0, <2>1, Renews
<1>5. CASE Release(c)
  <2> DEFINE n == [Fresh EXCEPT !.open = conn[c].open]
  <2>1. n.sent = Zero /\ n.given = Zero /\ n.fin = {} /\ n.shut = {} /\ n.idle = 0
        /\ n.stage = "idle"
    BY <1>0 DEF Connection
  <2>2. conn[c].stage = "closing" /\ conn'[c] = n
    BY <1>1, <1>5 DEF Release
  <2> HIDE DEF n
  <2> QED
    BY <2>1, <2>2, Renews
<1> QED
  BY <1>2, <1>3, <1>4, <1>5

\* The handler ends: for a cause, if it had a tunnel.
LEMMA EndLegal ==
    ASSUME NEW c \in Conn, Fit(conn[c]), conn \in [Conn -> Connection],
           conn[c].stage \notin {"idle", "closing"}, NEW status, End(c, status),
           Cause(conn[c], conn'[c])
    PROVE  Legal(conn[c], conn'[c])
<1> DEFINE n == [Closed(conn[c]) EXCEPT !.stage = "closing", !.status = status]
<1>1. conn'[c] = n /\ conn[c] \in Connection
  BY DEF End, Become
<1>2. n.stage = "closing" /\ n.sent = conn[c].sent /\ n.given = conn[c].given
      /\ n.fin = conn[c].fin /\ n.shut = conn[c].shut
  BY <1>1 DEF Closed, Connection
<1> HIDE DEF n
<1> QED
  BY <1>1, <1>2, Cuts

\* The handler before the tunnel: nothing is passed on.
LEMMA BeforeLegal ==
    ASSUME NEW c \in Conn, Fit(conn[c]), conn \in [Conn -> Connection],
           \/ Start(c) \/ ReadRequest(c) \/ BadRequest(c) \/ RequestLate(c)
           \/ ResolveAddresses(c) \/ ResolveDashboard(c)
           \/ ConnectUpstream(c) \/ ConnectDashboard(c) \/ Answer(c)
    PROVE  Legal(conn[c], conn'[c])
<1>0. conn[c] \in Connection
  OBVIOUS
<1>e. ASSUME NEW n, Become(c, n), conn[c].stage \notin {"idle", "relay", "closing"},
             n.given = conn[c].given, n.sent = conn[c].sent, n.fin = conn[c].fin,
             n.shut = conn[c].shut, n.idle = conn[c].idle, n.quiet = conn[c].quiet,
             n.stage \notin {"idle", "starting", "closing"}
      PROVE  Legal(conn[c], conn'[c])
  <2>1. conn'[c] = n
    BY <1>e DEF Become
  <2> QED
    BY <1>e, <2>1, EnterLegal
<1>s. ASSUME NEW stage
      PROVE  LET n == Enter(conn[c], stage) IN
             /\ n.given = conn[c].given /\ n.sent = conn[c].sent /\ n.fin = conn[c].fin
             /\ n.shut = conn[c].shut /\ n.idle = conn[c].idle /\ n.quiet = conn[c].quiet
             /\ n.stage = stage
  BY <1>0 DEF Enter, Connection
<1>f. ASSUME NEW code, Fail(c, code), conn[c].stage \notin {"idle", "relay", "closing"}
      PROVE  Legal(conn[c], conn'[c])
  <2>1. PICK status : End(c, status)
    BY <1>f DEF Fail
  <2> QED
    BY <1>f, <2>1, EndLegal DEF Cause
<1>1. ASSUME Start(c) PROVE Legal(conn[c], conn'[c])
  <2>1. PICK stage \in {"request", "resolve"} : Become(c, Enter(conn[c], stage))
    BY <1>1 DEF Start
  <2>2. conn[c].stage = "starting"
    BY <1>1 DEF Start
  <2> QED
    BY <1>e, <1>s, <2>1, <2>2
<1>2. ASSUME ReadRequest(c) PROVE Legal(conn[c], conn'[c])
  BY <1>2, <1>e, <1>s DEF ReadRequest
<1>3. ASSUME BadRequest(c) PROVE Legal(conn[c], conn'[c])
  BY <1>3, <1>f DEF BadRequest
<1>4. ASSUME RequestLate(c) PROVE Legal(conn[c], conn'[c])
  BY <1>4, <1>f DEF RequestLate
<1>5. ASSUME NEW acceptable, Resolve(c, acceptable) PROVE Legal(conn[c], conn'[c])
  <2>1. conn[c].stage = "resolve"
    BY <1>5 DEF Resolve
  <2>2. ASSUME NEW answer, Become(c, [Enter(conn[c], "connect") EXCEPT !.todo = answer])
        PROVE  Legal(conn[c], conn'[c])
    <3> DEFINE n == [Enter(conn[c], "connect") EXCEPT !.todo = answer]
    <3>1. /\ n.given = conn[c].given /\ n.sent = conn[c].sent /\ n.fin = conn[c].fin
          /\ n.shut = conn[c].shut /\ n.idle = conn[c].idle /\ n.quiet = conn[c].quiet
          /\ n.stage = "connect"
      BY <1>0 DEF Enter, Connection
    <3> QED
      BY <1>e, <2>1, <2>2, <3>1
  <2> QED
    BY <1>5, <1>f, <2>1, <2>2 DEF Resolve
<1>6. ASSUME NEW then \in {"answer", "relay"}, Connect(c, then) PROVE Legal(conn[c], conn'[c])
  <2>1. conn[c].stage = "connect"
    BY <1>6 DEF Connect
  <2>2. ASSUME NEW a, Become(c, [conn[c] EXCEPT !.todo = @ \ {a}])
        PROVE  Legal(conn[c], conn'[c])
    <3> DEFINE n == [conn[c] EXCEPT !.todo = @ \ {a}]
    <3>1. /\ n.given = conn[c].given /\ n.sent = conn[c].sent /\ n.fin = conn[c].fin
          /\ n.shut = conn[c].shut /\ n.idle = conn[c].idle /\ n.quiet = conn[c].quiet
          /\ n.stage = "connect"
      BY <1>0, <2>1 DEF Connection
    <3> QED
      BY <1>e, <2>1, <2>2, <3>1
  <2>3. ASSUME Become(c, [Enter(conn[c], then) EXCEPT !.open = Side])
        PROVE  Legal(conn[c], conn'[c])
    <3> DEFINE n == [Enter(conn[c], then) EXCEPT !.open = Side]
    <3>1. /\ n.given = conn[c].given /\ n.sent = conn[c].sent /\ n.fin = conn[c].fin
          /\ n.shut = conn[c].shut /\ n.idle = conn[c].idle /\ n.quiet = conn[c].quiet
          /\ n.stage = then
      BY <1>0 DEF Enter, Connection
    <3> QED
      BY <1>e, <2>1, <2>3, <3>1
  <2> QED
    BY <1>6, <1>f, <2>1, <2>2, <2>3 DEF Connect
<1>7. ASSUME Answer(c) PROVE Legal(conn[c], conn'[c])
  <2>1. conn[c].stage = "answer"
    BY <1>7 DEF Answer
  <2>2. ASSUME NEW status, End(c, status) PROVE Legal(conn[c], conn'[c])
    BY <2>1, <2>2, EndLegal DEF Cause
  <2>3. ASSUME Become(c, [Enter(conn[c], "relay") EXCEPT !.status = 200])
        PROVE  Legal(conn[c], conn'[c])
    <3> DEFINE n == [Enter(conn[c], "relay") EXCEPT !.status = 200]
    <3>1. /\ n.given = conn[c].given /\ n.sent = conn[c].sent /\ n.fin = conn[c].fin
          /\ n.shut = conn[c].shut /\ n.idle = conn[c].idle /\ n.quiet = conn[c].quiet
          /\ n.stage = "relay"
      BY <1>0 DEF Enter, Connection
    <3> QED
      BY <1>e, <2>1, <2>3, <3>1
  <2> QED
    BY <1>7, <2>2, <2>3 DEF Answer
<1> QED
  BY <1>1, <1>2, <1>3, <1>4, <1>5, <1>6, <1>7
     DEF ResolveAddresses, ResolveDashboard, ConnectUpstream, ConnectDashboard
\* The tunnel and its peers.
LEMMA TunnelLegal ==
    ASSUME NEW c \in Conn, Fit(conn[c]), conn \in [Conn -> Connection]
    PROVE  /\ \A s \in Side : Receive(c, s) \/ PassEnd(c, s) => Legal(conn[c], conn'[c])
           /\ Send(c) \/ Abandon(c) \/ Peer(c) => Legal(conn[c], conn'[c])
<1>0. /\ conn[c] \in Connection /\ None \notin Side
      /\ conn[c].hand \in Side \cup {None}
  BY DEF Connection, Side
<1>b. ASSUME NEW n, Become(c, n) PROVE conn'[c] = n
  BY <1>b DEF Become
<1>1. ASSUME NEW s \in Side, Receive(c, s) PROVE Legal(conn[c], conn'[c])
  <2>1. /\ conn[c].stage = "relay" /\ conn[c].hand = None
        /\ Become(c, Taken(conn[c], s))
    BY <1>1, Zenon DEF Receive, Relaying, Taken
  <2> QED
    BY <1>b, <2>1, ReceiveLegal
<1>2. ASSUME NEW s \in Side, PassEnd(c, s) PROVE Legal(conn[c], conn'[c])
  <2> DEFINE k == [conn[c] EXCEPT !.shut = conn[c].shut \cup {s}]
             n == [Closed(k) EXCEPT !.stage = "closing"]
  <2>1. /\ conn[c].stage = "relay" /\ s \notin conn[c].shut /\ s \in conn[c].fin
        /\ conn[c].given[s] = conn[c].sent[s]
    BY <1>2 DEF PassEnd, Relaying, SourceEnded
  <2>2. /\ k \in Connection /\ k.sent = conn[c].sent /\ k.given = conn[c].given
        /\ k.fin = conn[c].fin /\ k.shut = conn[c].shut \cup {s} /\ k.stage = "relay"
        /\ k.idle = conn[c].idle /\ k.quiet = conn[c].quiet /\ k.news = conn[c].news
        /\ k.hand = conn[c].hand /\ k.wait = conn[c].wait
    BY <1>0, <2>1 DEF Connection
  <2>3. CASE k.shut = Side
    <3>1. conn'[c] = n
      BY <1>2, <1>b, <2>2, <2>3 DEF PassEnd
    <3>2. n.sent = k.sent /\ n.given = k.given /\ n.fin = k.fin /\ n.shut = k.shut
          /\ n.stage = "closing"
      BY <2>2 DEF Closed, Connection
    <3> HIDE DEF k, n
    <3>3. /\ n.sent = conn[c].sent /\ n.given = conn[c].given /\ n.fin = conn[c].fin
          /\ n.shut = conn[c].shut \cup {s} /\ n.shut = Side
      BY <2>2, <2>3, <3>2
    <3> QED
      BY <2>1, <3>1, <3>2, <3>3, PassEndLegal
  <2>4. CASE k.shut # Side
    <3>1. conn'[c] = k
      BY <1>2, <1>b, <2>2, <2>4 DEF PassEnd
    <3> HIDE DEF k
    <3> QED
      BY <2>1, <2>2, <2>4, <3>1, PassEndLegal
  <2> QED
    BY <2>3, <2>4
<1>3. ASSUME Send(c) PROVE Legal(conn[c], conn'[c])
  <2>1. conn[c].hand \in Side /\ conn[c].stage = "relay"
    BY <1>0, <1>3 DEF Send, Relaying
  <2>2. Become(c, Passed(conn[c], conn[c].hand))
    BY <1>3, Zenon DEF Send, Passed
  <2> QED
    BY <1>b, <2>1, <2>2, SendLegal
<1>4. ASSUME Abandon(c) PROVE Legal(conn[c], conn'[c])
  <2>1. conn[c].stage = "relay" /\ End(c, conn[c].status)
    BY <1>4 DEF Abandon
  <2>2. /\ conn[c].wait \in 0 .. IoTimeout /\ conn[c].idle \in 0 .. IdleTimeout
        /\ conn[c].life \in 0 .. Lifetime /\ conn[c].quiet \in 0 .. IdleTimeout
    BY <1>0 DEF Connection
  <2>3. \/ conn[c].broken # {} \/ conn[c].life = Lifetime \/ conn[c].idle = IdleTimeout
        \/ conn[c].hand # None /\ conn[c].wait > 0
    BY <1>4, <2>2 DEF Abandon, InTime, Stuck
  <2>4. conn[c].idle <= conn[c].quiet \/ (conn[c].hand # None /\ conn[c].wait > 0)
    BY <2>1 DEF Fit, Timed
  <2>5. Cause(conn[c], conn'[c])
    BY <2>2, <2>3, <2>4 DEF Cause
  <2> QED
    BY <2>1, <2>5, EndLegal
<1>5. ASSUME NEW s \in Side, Linked(c, s)
      PROVE  conn[c].stage \notin {"idle", "starting", "closing"}
  BY <1>5 DEF Linked, Fit, Good
<1>6. ASSUME NEW s \in Side, PeerWrites(c, s) PROVE Legal(conn[c], conn'[c])
  <2>1. /\ conn[c].stage \notin {"idle", "starting", "closing"} /\ s \notin conn[c].fin
        /\ conn[c].sent[s] + conn[c].sent[Other(s)] < MaxChunks
        /\ Become(c, Written(conn[c], s))
    BY <1>5, <1>6, Zenon DEF PeerWrites, Written
  <2> QED
    BY <1>b, <2>1, WriteLegal
<1>7. ASSUME NEW s \in Side, PeerEnds(c, s) PROVE Legal(conn[c], conn'[c])
  BY <1>5, <1>7, <1>b, FinishLegal DEF PeerEnds
<1>8. ASSUME NEW s \in Side, PeerReads(c, s) \/ PeerBreaks(c, s)
      PROVE  Legal(conn[c], conn'[c])
  BY <1>8, <1>b, ReadLegal DEF PeerReads, PeerBreaks
<1> QED
  BY <1>1, <1>2, <1>3, <1>4, <1>6, <1>7, <1>8 DEF Peer

\* Every step is legal for every connection.
LEMMA StepLegal ==
    ASSUME Fits, [Next]_vars, NEW d \in Conn
    PROVE  Legal(conn[d], conn'[d])
<1>0. conn \in [Conn -> Connection] /\ Fit(conn[d]) /\ \A c \in Conn : Fit(conn[c])
  BY DEF Fits, IInv, TypeOK, Fit
<1>s. Legal(conn[d], conn[d])
  BY <1>0, Same DEF Fit, Legal
<1>1. CASE Tick
  <2>1. conn'[d] = Aged(conn[d]) /\ ~Busy(d)
    BY <1>1 DEF Tick
  <2>2. conn[d].stage \notin {"starting", "answer", "closing"}
    BY <2>1 DEF Busy
  <2>3. conn[d].stage = "relay" => ~Quick(conn[d])
    BY <2>1 DEF Busy, Quick
  <2> QED
    BY <1>0, <2>1, <2>2, <2>3, AgedLegal
<1>2. ASSUME NEW c \in Conn, Admit(c) \/ Refuse(c) \/ StartFails(c) \/ Handle(c) \/ Peer(c)
      PROVE  Legal(conn[d], conn'[d])
  <2>1. CASE c = d
    BY <1>0, <1>2, <2>1, AcceptLegal, BeforeLegal, TunnelLegal DEF Handle
  <2>2. CASE c # d
    <3>1. IInv /\ (Keeps(c) \/ Takes(c) \/ Gives(c))
      BY <1>2, AcceptLoop, BeforeTunnel, Tunnel DEF Handle, Fits
    <3>2. PICK n : Become(c, n)
      BY <3>1 DEF Keeps, Takes, Gives
    <3>3. conn'[d] = conn[d]
      BY <1>0, <2>2, <3>2 DEF Become
    <3> QED
      BY <1>s, <3>3
  <2> QED
    BY <2>1, <2>2
<1>3. CASE UNCHANGED vars
  BY <1>3, <1>s DEF vars
<1> QED
  BY <1>1, <1>2, <1>3 DEF Next

LEMMA InitFits == Init => Fits
<1> SUFFICES ASSUME Init PROVE Fits
  OBVIOUS
<1>1. IInv /\ conn = [c \in Conn |-> Fresh]
  BY InitInv DEF Init
<1>2. Piped(Fresh) /\ Timed(Fresh)
  BY DEF Piped, Timed, Fresh, Zero, Side
<1> QED
  BY <1>1, <1>2 DEF Fits

LEMMA NextFits == Fits /\ [Next]_vars => Fits'
<1> SUFFICES ASSUME Fits, [Next]_vars PROVE Fits'
  OBVIOUS
<1>1. IInv'
  BY NextInv DEF Fits
<1>2. \A d \in Conn : Piped(conn'[d]) /\ Timed(conn'[d])
  BY StepLegal DEF Legal
<1>3. \A d \in Conn : Piped(conn[d])' /\ Timed(conn[d])'
  BY <1>2 DEF Piped, Timed
<1> QED
  BY <1>1, <1>3 DEF Fits

\* The mapped pipes of all connections.
Mapped == [w \in Conn \X Side |-> Pipe(conn[w[1]], w[2])]

\* relay_tunnel, with half-closes, blocked writes, time limits and bytes sent
\* ahead of the answer: each direction is a pipe that hands on what came, in
\* order, and ends only after all of it; what is cut leaves a prefix.
THEOREM Implementation == Spec => ImplementsPipes
<1>1. Init => Pipes!Init
  <2> SUFFICES ASSUME Init PROVE Pipes!Init
    OBVIOUS
  <2>1. \A s \in Side : Pipe(Fresh, s) = Pipes!New
    <3> SUFFICES ASSUME NEW s \in Side PROVE Pipe(Fresh, s) = Pipes!New
      OBVIOUS
    <3>1. Fresh.sent[s] = 0 /\ Fresh.given[s] = 0 /\ (s \in Fresh.fin) = FALSE
          /\ s \notin Fresh.shut /\ Fresh.stage # "closing"
      BY DEF Fresh
    <3>2. Pipe(Fresh, s) = [sent |-> 0, fin |-> FALSE, given |-> 0, end |-> "open"]
      BY <3>1, Zenon DEF Pipe
    <3> QED
      BY <3>2 DEF Pipes!New
  <2>2. \A c \in Conn : conn[c] = Fresh
    BY DEF Init
  <2> QED
    BY <2>1, <2>2 DEF Pipes!Init, Pipe
<1>2. Fits /\ [Next]_vars => [Pipes!Next]_Mapped
  <2> SUFFICES ASSUME Fits, [Next]_vars PROVE Pipes!Next
    OBVIOUS
  <2>1. \A c \in Conn, s \in Side :
           Pipe(conn'[c], s) = Pipe(conn[c], s) \/ Pipes!Step(Pipe(conn[c], s), Pipe(conn'[c], s))
    BY StepLegal DEF Legal, Flows
  <2> QED
    BY <2>1 DEF Pipes!Next, Pipe
<1> QED
  BY <1>1, <1>2, InitFits, NextFits, PTL DEF Spec, ImplementsPipes, Pipes!Spec, Mapped, Pipe

\* relay_tunnel gives a tunnel up for a cause; while bytes come it never does.
THEOREM CausedEnd == Spec => GivenUpForCause
<1>1. Fits /\ [Next]_vars =>
        [\A c \in Conn : LET k == conn[c] IN
          k.stage = "relay" /\ conn'[c].stage = "closing" =>
             \/ conn'[c].shut = Side \/ k.broken # {}
             \/ k.hand # None /\ k.wait > 0
             \/ k.life = Lifetime \/ k.quiet = IdleTimeout]_vars
  BY StepLegal DEF Legal, Cause
<1> QED
  BY <1>1, InitFits, NextFits, PTL DEF Spec, GivenUpForCause
=============================================================================
