----------------------------- MODULE MCSessions -----------------------------
(* Constants for checking Sessions with TLC. *)
EXTENDS Sessions, TLC

MCSymmetry == Permutations(Slots)
=============================================================================
