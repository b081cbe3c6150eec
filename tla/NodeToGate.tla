----------------------------- MODULE NodeToGate -----------------------------
(***************************************************************************)
(* A sample's way from node01 to the anti-replay gate: the samples the     *)
(* broker sent out are what accept() is called with, and power, sessions,  *)
(* processes and files fail on both sides.  A message may come late, to    *)
(* any of the validators, or again: the promise does not lean on what QoS  *)
(* 0 and the order of one connection give.                                 *)
(***************************************************************************)
EXTENDS Node01, SequenceGate

pathVars == <<vars, gateVars>>

PathInit == Init /\ GateInit

\* on_message of a validator whose gate is free: what node01 sent and the broker
\* passed on.
Deliver ==
    /\ \E g \in Gate, i \in 1 .. Len(raw) : OpenLock(g, raw[i])
    /\ UNCHANGED vars

PathNext ==
    \/ Next /\ UNCHANGED gateVars
    \/ Deliver
    \/ Inside /\ UNCHANGED vars

PathSpec == PathInit /\ [][PathNext]_pathVars

FairPath == PathSpec /\ GateFairness
-----------------------------------------------------------------------------
(* Properties *)

\* The gate accepts node01's samples as they were taken: each is one that node01
\* generated, the later one was taken later, and none is accepted twice, whatever
\* power, files, sessions and messages do.
AcceptedAsTaken ==
    \A i, j \in 1 .. Len(accepted) : i <= j =>
        \E k, l \in 1 .. Len(sampled) :
            /\ accepted[i] = sampled[k] /\ accepted[j] = sampled[l]
            /\ i < j => k < l
=============================================================================
