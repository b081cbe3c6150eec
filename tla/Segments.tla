------------------------------ MODULE Segments ------------------------------
(***************************************************************************)
(* The position of a node01 sample: <<boot_count, sequence>>.  _segment    *)
(* reads it from a payload, Python compares the two tuples                 *)
(* lexicographically, and the durable high-water mark is one of them.      *)
(***************************************************************************)
EXTENDS Integers

CONSTANTS MaxUint32,  \* MAX_UINT32 of the validator and of the firmware
          None        \* no segment, and no file, owner or session

ASSUME MaxUint32Assumption == MaxUint32 \in Nat \ {0}

\* What _segment lets through: boot counts start at 1, sequences at 0.
Segment == (1 .. MaxUint32) \X (0 .. MaxUint32)

\* Tuple order: a higher boot count wins whatever its sequence number.
Below(a, b) == \/ a[1] < b[1]
               \/ a[1] = b[1] /\ a[2] < b[2]

AtMost(a, b) == a = b \/ Below(a, b)
=============================================================================
