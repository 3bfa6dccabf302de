----------------------------- MODULE MCUsageStore -----------------------------
(* UsageStore for TLC: three turns that finish at will, permuted.          *)
EXTENDS UsageStore, TLC

Symmetry == Permutations(Turns)
=============================================================================
