---------------------------- MODULE MCNodeToGate ----------------------------
EXTENDS NodeToGate

\* No validator has been started.
Untouched == lock = "absent" /\ accepted = <<>> /\ \A g \in Gate : pc[g] = "down"

\* node01 has taken and sent two samples of one boot and one of the next, and is off; the mark is one
\* of them.
Through ==
    /\ phase = "off" /\ session = None /\ raw = sampled
    /\ sampled = <<<<1, 0>>, <<1, 1>>, <<2, 0>>>>
    /\ eeprom = next /\ written = 3
    /\ {state, diskState} \subseteq {None, sampled[1], sampled[2], sampled[3]}

\* Bound: deliveries wait until node01 is through, since Deliver takes whatever
\* was sent so far.
NodeFirst == Len(sampled) <= 3 /\ (Untouched \/ Through)
=============================================================================
