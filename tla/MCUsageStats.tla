----------------------------- MODULE MCUsageStats -----------------------------
(* Small instances of UsageStats.                                          *)
EXTENDS UsageStats, TLC

Symmetry == Permutations(Proc) \cup Permutations(Slot)
==============================================================================
