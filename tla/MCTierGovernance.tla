-------------------------- MODULE MCTierGovernance --------------------------
(***************************************************************************)
(* Instances of TierGovernance for TLC.                                    *)
(***************************************************************************)
EXTENDS TierGovernance, TLC

CONSTANTS c1, c2, w1, w2, noItem

\* Items and threads are interchangeable.
Symmetry == Permutations(Content) \cup Permutations(Workers)
=============================================================================
