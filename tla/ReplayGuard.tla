---------------------------- MODULE ReplayGuard ----------------------------
(***************************************************************************)
(* What the anti-replay gate promises, with no files, locks or crashes:    *)
(* the samples it lets through, over the whole life of the deployment, are *)
(* strictly increasing, so none of them is ever let through twice.         *)
(***************************************************************************)
EXTENDS Segments, Sequences

VARIABLE accepted    \* every sample for which accept() returned True, in order

Init == accepted = <<>>

Accept(s) ==
    /\ \A i \in 1 .. Len(accepted) : Below(accepted[i], s)
    /\ accepted' = Append(accepted, s)

Next == \E s \in Segment : Accept(s)

Spec == Init /\ [][Next]_accepted

StrictlyIncreasing ==
    \A i, j \in 1 .. Len(accepted) : i < j => Below(accepted[i], accepted[j])
=============================================================================
