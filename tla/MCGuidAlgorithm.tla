--------------------------- MODULE MCGuidAlgorithm ---------------------------
(* GuidAlgorithm for TLC: two engines of one process. *)
EXTENDS GuidAlgorithm

CONSTANTS e1, e2, nobody
=============================================================================
