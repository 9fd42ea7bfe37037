------------------------ MODULE MCEmbeddingBackfill -------------------------
(***************************************************************************)
(* Instances of EmbeddingBackfill for TLC.                                 *)
(***************************************************************************)
EXTENDS EmbeddingBackfill

CONSTANTS r1, r2
=============================================================================
