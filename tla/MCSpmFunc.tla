------------------------------ MODULE MCSpmFunc ------------------------------
(* An instance of SpmFunc with two secure partitions.                       *)
EXTENDS SpmFunc

CONSTANTS i1, i2, i3, t1, t2, t3

\* Partition 2 calls 3.
MCCallees == [p \in Secure |-> IF p = 2 THEN {3} ELSE {}]

\* Partition 2 has the least and the most urgent line, 3 the one in between.
MCIrqPart == (i1 :> 2) @@ (i2 :> 3) @@ (i3 :> 2)
MCIrqPrio == (i1 :> 1) @@ (i2 :> 2) @@ (i3 :> 3)

MCFails == {3}

\* The threads are interchangeable.
MCSymmetry == Permutations(Threads)
=============================================================================
