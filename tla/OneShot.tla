------------------------------ MODULE OneShot ------------------------------
(***************************************************************************)
(* What a raw infrared replay promises, with no network, clock or crash:   *)
(* a command id is used up first, durably and for ever, and only an id     *)
(* that is used up is ever sent by the infrared diode, at most once.       *)
(***************************************************************************)
EXTENDS Sequences

CONSTANT Command

VARIABLES consumed,   \* the command ids that can never be used again
          emitted     \* the command ids the diode sent, in order

Init == consumed = {} /\ emitted = <<>>

Consume(c) ==
    /\ c \notin consumed
    /\ consumed' = consumed \cup {c}
    /\ UNCHANGED emitted

Emit(c) ==
    /\ c \in consumed
    /\ \A i \in DOMAIN emitted : emitted[i] # c
    /\ emitted' = Append(emitted, c)
    /\ UNCHANGED consumed

Next == \E c \in Command : Consume(c) \/ Emit(c)

Spec == Init /\ [][Next]_<<consumed, emitted>>
=============================================================================
