------------------------------ MODULE MCStore ------------------------------
(* Instances of Store for TLC.                                             *)
EXTENDS Store, TLC

CONSTANTS p1, p2, k1, k2, va, vb, vc, s1

\* Every key on the one counter.
OneSlot == [k \in Key |-> s1]

\* va and vb have the same length, vc another.
Lengths == [v \in Val |-> IF v = vc THEN 2 ELSE 1]

Processes == Permutations(Proc)
=============================================================================
