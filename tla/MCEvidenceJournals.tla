------------------------- MODULE MCEvidenceJournals -------------------------
(***************************************************************************)
(* Instances of EvidenceJournals.  The processes are alike, and so are the  *)
(* components of an assembly, of which there are at least two: no action or *)
(* property distinguishes them.                                             *)
(***************************************************************************)
EXTENDS EvidenceJournals, TLC

CONSTANTS p1, p2, h1, c1, c2

Symmetry == Permutations(Procs) \cup Permutations(Components)
=============================================================================
