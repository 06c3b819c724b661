--------------------------- MODULE MCAccountStorage ---------------------------
(* Small instances of AccountStorage.                                      *)
EXTENDS AccountStorage, TLC

CONSTANTS a, b, c, d

TwoRows == <<a, b>>
ThreeRows == <<a, b, c>>

\* b is a duplicate of a.
BTwinOfA == [who \in Person |-> IF who = b THEN a ELSE who]
AllDifferent == [who \in Person |-> who]
==============================================================================
