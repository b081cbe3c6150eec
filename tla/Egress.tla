------------------------------- MODULE Egress -------------------------------
(***************************************************************************)
(* The two proxies of services/bridge: inference_egress.py, which reads a  *)
(* CONNECT request and answers it, and dashboard_ingress.py, which does    *)
(* neither; both admit a bounded number of connections, one thread each,   *)
(* and relay bytes in both directions.  The two peers of a tunnel write,   *)
(* read, half-close, stop reading or break the connection at any time.     *)
(***************************************************************************)
EXTENDS Integers, FiniteSets

CONSTANTS Conn,            \* connections that may be there at once
          MaxConnections,  \* MAX_CONNECTIONS, 16
          Address,         \* what DNS may say: some addresses
          Public, Private, Native, \* are public, in a private network, IPv4
          IoTimeout, IdleTimeout, Lifetime,  \* 5, 120 and 900 seconds
          Window,          \* chunks a peer's socket takes before it is read
          MaxChunks,       \* bound: chunks the two peers write
          None

ASSUME EgressAssumption ==
    /\ IsFiniteSet(Conn) /\ MaxConnections \in Nat \ {0}
    /\ Public \cup Private \cup Native \subseteq Address /\ Public \cap Private = {}
    /\ IoTimeout \in Nat \ {0} /\ IdleTimeout \in Nat \ {0} /\ Lifetime \in Nat \ {0}
    /\ Window \in Nat \ {0} /\ MaxChunks \in Nat
    /\ None \notin {"client", "upstream"}

VARIABLES server,  \* which of the two programs this is
          free,    \* the semaphore _slots
          conn     \* conn[c]: locals of c's handler, its sockets and its peers

vars == <<server, free, conn>>

Side == {"client", "upstream"}
Other(s) == IF s = "client" THEN "upstream" ELSE "client"

\* A connection nobody has made yet, or that is over: stage "idle".  wait, idle
\* and life are the ages of the present wait, of last_activity and of started.
\* sent[s] is what peer s wrote, given[s] what of it was passed to the other peer
\* and read[s] what that one has read; hand is the side whose chunk was received
\* and not yet passed on.  news and quiet are history: whether a peer wrote in
\* this very instant, and for how long none did before it.
Fresh == [stage |-> "idle", status |-> 0, todo |-> {}, open |-> {},
          wait |-> 0, idle |-> 0, life |-> 0, hand |-> None, broken |-> {}, fin |-> {},
          shut |-> {}, sent |-> [s \in Side |-> 0], given |-> [s \in Side |-> 0],
          read |-> [s \in Side |-> 0], news |-> FALSE, quiet |-> 0]

Stage == {"idle", "starting", "request", "resolve", "connect", "answer", "relay", "closing"}
Refusal == {400, 403, 405, 431}
Status == {0, 200, 408, 502, 503} \cup Refusal
Count == [Side -> 0 .. MaxChunks]
Connection ==
    [stage : Stage, status : Status, todo : SUBSET Address, open : SUBSET Side,
     wait : 0 .. IoTimeout, idle : 0 .. IdleTimeout, life : 0 .. Lifetime,
     hand : Side \cup {None}, broken : SUBSET Side, fin : SUBSET Side, shut : SUBSET Side,
     sent : Count, given : Count, read : Count, news : BOOLEAN,
     quiet : 0 .. IdleTimeout]

TypeOK == /\ server \in {"egress", "dashboard"}
          /\ free \in 0 .. MaxConnections
          /\ conn \in [Conn -> Connection]

Init == /\ server \in {"egress", "dashboard"}
        /\ free = MaxConnections
        /\ conn = [c \in Conn |-> Fresh]

Become(c, k) == conn' = [conn EXCEPT ![c] = k] /\ UNCHANGED server
-----------------------------------------------------------------------------
(* EgressServer: the accept loop *)

Holding(c) == conn[c].stage # "idle"

\* process_request takes a slot; the loop has one connection at a time in hand.
Admit(c) ==
    /\ conn[c].stage = "idle" /\ \A d \in Conn : conn[d].stage # "starting"
    /\ free > 0 /\ free' = free - 1
    /\ Become(c, [Fresh EXCEPT !.stage = "starting", !.open = {"client"}])

\* No slot: 503, which may not get through, and the socket is closed.
Refuse(c) ==
    /\ conn[c].stage = "idle" /\ \A d \in Conn : conn[d].stage # "starting"
    /\ free = 0 /\ UNCHANGED free
    /\ \E status \in {0, 503} : Become(c, [Fresh EXCEPT !.status = status])

Enter(k, stage) == [k EXCEPT !.stage = stage, !.wait = 0]

\* The thread starts.
Start(c) ==
    /\ conn[c].stage = "starting"
    /\ Become(c, Enter(conn[c], IF server = "egress" THEN "request" ELSE "resolve"))
    /\ UNCHANGED free

\* The handler's sockets are closed; a direction that did not end is cut off.
Closed(k) == [k EXCEPT !.open = {}, !.hand = None]

\* Bug: the slot of a thread that did not start is not given back.
BugStartFails(c) ==
    /\ conn[c].stage = "starting"
    /\ Become(c, Fresh)
    /\ UNCHANGED free

\* No thread can be made: the slot is given back and the exception goes on, to
\* socketserver, which closes the socket.
StartFails(c) ==
    /\ conn[c].stage = "starting" /\ free < MaxConnections
    /\ free' = free + 1
    /\ Become(c, Fresh)

\* process_request_thread's finally, after the handler has returned.
Release(c) ==
    /\ conn[c].stage = "closing" /\ free < MaxConnections
    /\ free' = free + 1
    /\ Become(c, [Fresh EXCEPT !.open = conn[c].open])
-----------------------------------------------------------------------------
(* EgressHandler and DashboardHandler up to the tunnel *)

\* The handler's finally.
End(c, status) ==
    /\ Become(c, [Closed(conn[c]) EXCEPT !.stage = "closing", !.status = status])
    /\ UNCHANGED free

\* An error before the tunnel: the egress answers, if it can; the ingress never does.
Fail(c, code) == \E status \in {0, code} : (server = "egress" \/ status = 0) /\ End(c, status)

\* read_connect_request takes the header byte by byte and nothing that follows it.
ReadRequest(c) ==
    /\ conn[c].stage = "request" /\ conn[c].wait < IoTimeout
    /\ Become(c, Enter(conn[c], "resolve")) /\ UNCHANGED free

BadRequest(c) ==
    /\ conn[c].stage = "request" /\ conn[c].wait < IoTimeout
    /\ \E code \in Refusal : Fail(c, code)

\* Bug: the five seconds start again with every byte.
BugNoDeadline(c) == FALSE /\ conn[c].stage = "request" /\ Fail(c, 408)

RequestLate(c) ==
    /\ conn[c].stage = "request" /\ conn[c].wait = IoTimeout
    /\ Fail(c, 408)

\* One address that is not acceptable spoils the whole answer.
Resolve(c, acceptable) ==
    /\ conn[c].stage = "resolve"
    /\ \E answer \in SUBSET Address :
          \/ /\ answer # {} /\ answer \subseteq acceptable
             /\ Become(c, [Enter(conn[c], "connect") EXCEPT !.todo = answer])
             /\ UNCHANGED free
          \/ /\ answer = {} \/ ~(answer \subseteq acceptable)
             /\ Fail(c, 502)

ResolveAddresses(c) == server = "egress" /\ Resolve(c, Public)
ResolveDashboard(c) == server = "dashboard" /\ Resolve(c, Private)

\* Addresses in the order in which they are tried.
First(todo) == IF todo \cap Native # {} THEN todo \cap Native ELSE todo

\* One address is tried, and the socket of a failed attempt is closed; in the end
\* none is left, or no time.
Connect(c, then) ==
    /\ conn[c].stage = "connect"
    /\ \/ /\ conn[c].wait < IoTimeout /\ UNCHANGED free
          /\ \E a \in First(conn[c].todo) :
                \/ Become(c, [conn[c] EXCEPT !.todo = @ \ {a}])
                \/ Become(c, [Enter(conn[c], then) EXCEPT !.open = Side])
       \/ /\ conn[c].todo = {} \/ conn[c].wait = IoTimeout
          /\ Fail(c, 502)

ConnectUpstream(c) == server = "egress" /\ Connect(c, "answer")
ConnectDashboard(c) == server = "dashboard" /\ Connect(c, "relay")

\* 200: from here on nothing but the peer's bytes may follow, also after an error.
Answer(c) ==
    /\ conn[c].stage = "answer"
    /\ \/ Become(c, [Enter(conn[c], "relay") EXCEPT !.status = 200]) /\ UNCHANGED free
       \/ \E status \in {0, 200} : End(c, status)
-----------------------------------------------------------------------------
(* relay_tunnel *)

\* budget() is positive.
InTime(k) == k.life < Lifetime /\ k.idle < IdleTimeout

Relaying(c) == conn[c].stage = "relay" /\ conn[c].broken = {} /\ InTime(conn[c])

\* A chunk of s is there, which is still read.
Receive(c, s) ==
    /\ Relaying(c) /\ conn[c].hand = None /\ s \notin conn[c].shut
    /\ conn[c].given[s] < conn[c].sent[s]
    /\ Become(c, [conn[c] EXCEPT !.hand = s, !.wait = 0]) /\ UNCHANGED free

Room(k, s) == k.given[s] - k.read[s] < Window

\* Bug: sending a chunk does not count as activity.
BugSend(c) ==
    LET s == conn[c].hand IN
    /\ Relaying(c) /\ s # None /\ Room(conn[c], s)
    /\ Become(c, [conn[c] EXCEPT !.given[s] = @ + 1, !.hand = None]) /\ UNCHANGED free

\* sendall returns.
Send(c) ==
    LET s == conn[c].hand IN
    /\ Relaying(c) /\ s # None /\ Room(conn[c], s)
    /\ Become(c, [conn[c] EXCEPT !.given[s] = @ + 1, !.hand = None, !.idle = 0])
    /\ UNCHANGED free

\* Bug: a half-close is noticed before what was sent ahead of it.
BugSourceEnded(k, s) == s \in k.fin

\* recv returns nothing.
SourceEnded(k, s) == s \in k.fin /\ k.given[s] = k.sent[s]

\* The end of one stream is passed on; with the second the tunnel is over.
PassEnd(c, s) ==
    /\ Relaying(c) /\ conn[c].hand = None /\ s \notin conn[c].shut
    /\ SourceEnded(conn[c], s)
    /\ LET shut == conn[c].shut \cup {s}
           k == [conn[c] EXCEPT !.shut = shut]
       IN  Become(c, IF shut = Side THEN [Closed(k) EXCEPT !.stage = "closing"] ELSE k)
    /\ UNCHANGED free

Stuck(k) == k.hand # None /\ k.wait = IoTimeout

\* A budget is used up, a write takes too long or a peer has broken off.
Abandon(c) ==
    /\ conn[c].stage = "relay"
    /\ conn[c].broken # {} \/ ~InTime(conn[c]) \/ Stuck(conn[c])
    /\ End(c, conn[c].status)
-----------------------------------------------------------------------------
(* The two peers, and time *)

\* A peer may write before it is answered; a tunnel with a broken end is given up.
\* What is written before the thread runs is as if it were written then.
Linked(c, s) == /\ conn[c].stage # "starting"
                /\ s \in conn[c].open /\ conn[c].broken = {}

PeerWrites(c, s) ==
    /\ Linked(c, s) /\ s \notin conn[c].fin /\ conn[c].sent[s] + conn[c].sent[Other(s)] < MaxChunks
    /\ Become(c, [conn[c] EXCEPT !.sent[s] = @ + 1, !.news = TRUE]) /\ UNCHANGED free

PeerEnds(c, s) ==
    /\ Linked(c, s) /\ s \notin conn[c].fin
    /\ Become(c, [conn[c] EXCEPT !.fin = @ \cup {s}]) /\ UNCHANGED free

PeerReads(c, s) ==
    /\ Linked(c, Other(s)) /\ conn[c].read[s] < conn[c].given[s]
    /\ Become(c, [conn[c] EXCEPT !.read[s] = @ + 1]) /\ UNCHANGED free

PeerBreaks(c, s) ==
    /\ Linked(c, s) /\ conn[c].stage \in {"answer", "relay"}
    /\ Become(c, [conn[c] EXCEPT !.broken = @ \cup {s}]) /\ UNCHANGED free

\* The thread of c has something to do that takes no time.
Busy(c) ==
    LET k == conn[c] IN
    \/ k.stage \in {"starting", "answer", "closing"}
    \/ /\ k.stage = "relay"
       /\ \/ k.broken # {} \/ ~InTime(k) \/ Stuck(k)
          \/ k.hand # None /\ Room(k, k.hand)
          \/ k.hand = None /\ \E s \in Side \ k.shut :
                k.given[s] < k.sent[s] \/ SourceEnded(k, s)

Older(age, limit) == IF age < limit THEN age + 1 ELSE limit

Aged(k) ==
    CASE k.stage = "idle" -> k
      [] k.stage = "relay" -> [k EXCEPT !.wait = Older(@, IoTimeout), !.idle = Older(@, IdleTimeout),
                                 !.life = Older(@, Lifetime), !.news = FALSE,
                                 !.quiet = Older(IF k.news THEN 0 ELSE @, IdleTimeout)]
      [] OTHER -> [k EXCEPT !.wait = Older(@, IoTimeout), !.news = FALSE]

Tick ==
    /\ \A c \in Conn : ~Busy(c)
    /\ \E c \in Conn : Aged(conn[c]) # conn[c]
    /\ conn' = [c \in Conn |-> Aged(conn[c])]
    /\ UNCHANGED <<server, free>>
-----------------------------------------------------------------------------
Handle(c) ==
    \/ Start(c) \/ ReadRequest(c) \/ BadRequest(c) \/ RequestLate(c)
    \/ ResolveAddresses(c) \/ ResolveDashboard(c)
    \/ ConnectUpstream(c) \/ ConnectDashboard(c) \/ Answer(c)
    \/ (\E s \in Side : Receive(c, s) \/ PassEnd(c, s)) \/ Send(c) \/ Abandon(c) \/ Release(c)

Peer(c) == \E s \in Side :
    PeerWrites(c, s) \/ PeerEnds(c, s) \/ PeerReads(c, s) \/ PeerBreaks(c, s)

Next == Tick \/ \E c \in Conn : Admit(c) \/ Refuse(c) \/ StartFails(c) \/ Handle(c) \/ Peer(c)

Spec == Init /\ [][Next]_vars

\* What a handler waits for is a client, the resolver or a peer; all but the
\* resolver are bounded by time, which passes, and the resolver answers.
Fairness ==
    /\ WF_vars(Tick)
    /\ \A c \in Conn :
          /\ WF_vars(Start(c)) /\ WF_vars(RequestLate(c))
          /\ WF_vars(ResolveAddresses(c)) /\ WF_vars(ResolveDashboard(c))
          /\ WF_vars(ConnectUpstream(c)) /\ WF_vars(ConnectDashboard(c)) /\ WF_vars(Answer(c))
          /\ WF_vars(Release(c)) /\ WF_vars(Abandon(c)) /\ WF_vars(Send(c))
          /\ \A s \in Side : WF_vars(Receive(c, s)) /\ WF_vars(PassEnd(c, s))

FairSpec == Spec /\ Fairness
-----------------------------------------------------------------------------
(* Properties *)

\* Whichever way a handler ends, and also when its thread never starts: free
\* slots and connections under way add up, so none is lost or given out twice,
\* and a slot that was given back has left no socket behind.
SlotsBalance ==
    /\ free + Cardinality({c \in Conn : Holding(c)}) = MaxConnections
    /\ \A c \in Conn :
          /\ conn[c].stage \in {"idle", "closing"} => conn[c].open = {}
          /\ conn[c].stage = "relay" => conn[c].open = Side

Pipes == INSTANCE BytePipes WITH
    Way <- Conn \X Side,
    pipe <- [w \in Conn \X Side |->
        LET k == conn[w[1]]
            s == w[2]
        IN  [sent |-> k.sent[s], fin |-> s \in k.fin, given |-> k.given[s],
             end |-> IF s \in k.shut THEN "complete"
                     ELSE IF k.stage = "closing" THEN "cut" ELSE "open"]]

\* Half-closes, blocked writes, timeouts and bytes sent ahead of the answer: each
\* direction passes on what came, in order, and ends only after all of it.
ImplementsPipes == Pipes!Spec

\* A tunnel is given up only if a peer broke off or let a write wait, fifteen
\* minutes are over or for two no peer wrote anything: never while bytes come.
GivenUpForCause ==
    [][\A c \in Conn : LET k == conn[c] IN
          k.stage = "relay" /\ conn'[c].stage = "closing" =>
             \/ conn'[c].shut = Side \/ k.broken # {}
             \/ k.hand # None /\ k.wait > 0
             \/ k.life = Lifetime \/ k.quiet = IdleTimeout]_vars

\* Whatever client and peer do or leave undone, a slot that was taken comes back.
SlotComesBack == \A c \in Conn : Holding(c) ~> ~Holding(c)
=============================================================================
