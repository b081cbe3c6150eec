----------------------------- MODULE BytePipes -----------------------------
(***************************************************************************)
(* What every direction of every tunnel promises: chunks come out in the   *)
(* order in which they went in, none twice and none invented, and the end  *)
(* of the stream is passed on only after the last of them.  A pipe may be  *)
(* cut; then its reader has a prefix.  The next connection has new ones.   *)
(***************************************************************************)
EXTENDS Naturals

CONSTANT Way

\* pipe[w]: chunks put in, whether the writer said that there are no more,
\* chunks handed on, and whether the pipe is "open", "complete" or "cut".
VARIABLE pipe

New == [sent |-> 0, fin |-> FALSE, given |-> 0, end |-> "open"]

Open(p) == p.end = "open"
Write(p, q)    == Open(p) /\ ~p.fin /\ q = [p EXCEPT !.sent = @ + 1]
Finish(p, q)   == Open(p) /\ q = [p EXCEPT !.fin = TRUE]
HandOn(p, q)   == Open(p) /\ p.given < p.sent /\ q = [p EXCEPT !.given = @ + 1]
Complete(p, q) == Open(p) /\ p.fin /\ p.given = p.sent /\ q = [p EXCEPT !.end = "complete"]
Cut(p, q)      == Open(p) /\ q = [p EXCEPT !.end = "cut"]
Renew(p, q)    == ~Open(p) /\ q = New

Step(p, q) == Write(p, q) \/ Finish(p, q) \/ HandOn(p, q) \/ Complete(p, q)
              \/ Cut(p, q) \/ Renew(p, q)

Init == pipe = [w \in Way |-> New]

Next == /\ DOMAIN pipe' = Way
        /\ \A w \in Way : pipe'[w] = pipe[w] \/ Step(pipe[w], pipe'[w])

Spec == Init /\ [][Next]_pipe
=============================================================================
