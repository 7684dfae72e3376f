--------------------------- MODULE MCEvidenceTrace ---------------------------
(* EvidenceTrace on small sets of threads. *)
EXTENDS EvidenceTrace, TLC

Symmetry == Permutations(Writer) \cup Permutations(Reader)
=============================================================================
