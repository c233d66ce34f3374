----------------------------- MODULE MCSegment -----------------------------
(* Instances of Segment for TLC.                                           *)
EXTENDS Segment, TLC

CONSTANTS r1, k1, k2, k3, k4, va, vb, vc, s1, s2

\* Every key on one counter, and k1 on a counter of its own.
OneSlot == [k \in Key |-> s1]
TwoSlots == [k \in Key |-> IF k = k1 THEN s1 ELSE s2]

\* Every window starts at cell 0; the windows of a cluster in the middle of the
\* index; and those of a cluster that wraps round its end.
SameHome == [k \in Key |-> 0]
MidHome  == [k \in Key |-> IF k = k1 THEN 0 ELSE 1]
WrapHome == [k \in Key |-> IF k \in {k1, k2} THEN 3 ELSE 2]

Keys  == Permutations(Key)
Twins == Permutations({va, vb})

\* Values of one length, and with one that is longer.
SameLen == [v \in Val |-> 1]
OneLong == [v \in Val |-> IF v = vc THEN 2 ELSE 1]
=============================================================================
