-------------------------- MODULE MCIngestPipeline --------------------------
(***************************************************************************)
(* Instances of IngestPipeline for TLC.                                    *)
(***************************************************************************)
EXTENDS IngestPipeline, TLC

CONSTANTS b1, b2, t1, t2, w1, w2, w3

\* A body alone, twice in one batch, or before another one.
MixedBatches == {<<b1>>, <<b1, b1>>, <<b1, b2>>}

\* Threads and verdicts are interchangeable.
Symmetry == Permutations(Workers) \cup Permutations(Types)
=============================================================================
