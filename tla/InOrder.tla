------------------------------- MODULE InOrder -------------------------------
(***************************************************************************)
(* What the filters and maps of the UI kit keep: the order of what is left.  *)
(***************************************************************************)
EXTENDS Naturals, FiniteSets

\* The positions in a finite set, from the first to the last.
InOrder(positions) ==
    CHOOSE f \in [1 .. Cardinality(positions) -> positions] :
        \A i, j \in DOMAIN f : i < j => f[i] < f[j]

\* The members of a list at these positions.
MembersAt(list, positions) ==
    [n \in 1 .. Cardinality(positions) |-> list[InOrder(positions)[n]]]
=============================================================================
