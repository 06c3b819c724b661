---------------------------- MODULE MCSingleFlight ----------------------------
(* Small instances of SingleFlight.                                        *)
EXTENDS SingleFlight, TLC

Requests == Permutations(Request)
==============================================================================
