--------------------------- MODULE MCCurrentState ---------------------------
(***************************************************************************)
(* Instances of CurrentState for TLC.                                      *)
(***************************************************************************)
EXTENDS CurrentState, TLC

CONSTANTS c1, c2, c3, c4, i1, i2, s1, s2, w1, w2

\* Items, identities, scopes and threads are interchangeable.
Symmetry == Permutations(Content) \cup Permutations(Identities)
              \cup Permutations(Scopes) \cup Permutations(Workers)
=============================================================================
