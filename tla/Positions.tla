------------------------------- MODULE Positions -------------------------------
(***************************************************************************)
(* Sets of positions in a sequence: the first and the last of them, and    *)
(* the elements found there in order.  What filter, findIndex and a Map in *)
(* order of insertion come to.                                             *)
(***************************************************************************)
EXTENDS Naturals, FiniteSets, SequencesExt

FirstOf(S) == CHOOSE i \in S : \A j \in S : i <= j
LastOf(S) == CHOOSE i \in S : \A j \in S : j <= i

\* The numbers of a finite set, the smallest first, and the elements at those
\* positions.
InOrder(S) ==
    [k \in 1 .. Cardinality(S) |->
        CHOOSE i \in S : Cardinality({j \in S : j < i}) = k - 1]
ElementsAt(seq, S) ==
    LET at == InOrder(S) IN [k \in 1 .. Cardinality(S) |-> seq[at[k]]]
==============================================================================
