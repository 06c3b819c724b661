---------------------------- MODULE MCRefreshLock ----------------------------
(* Small instances of RefreshLock.                                         *)
EXTENDS RefreshLock, TLC

Processes == Permutations(Proc)
==============================================================================
