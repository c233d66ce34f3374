----------------------------- MODULE MCBringup -----------------------------
(* Instances of Bringup for TLC.                                           *)
EXTENDS Bringup, TLC

CONSTANTS p1, p2, k1, k2, va, vb

Processes == Permutations(Proc)
=============================================================================
