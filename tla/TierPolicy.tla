----------------------------- MODULE TierPolicy -----------------------------
(***************************************************************************)
(* The two pure policies of memory_lab/governance that decide memory       *)
(* tiers: the router that assigns a freshly scored item its first tier     *)
(* (tier_router.py) and the matrix that says which later transitions are   *)
(* allowed (transition_matrix.py).                                         *)
(***************************************************************************)
EXTENDS Integers

\* A content row whose tier column is still NULL.
NoTier == "NULL"

\* The values of the memory_tier column.
Tiers == {"transient", "probationary", "persistent", "decision_artifact",
          "conflicted", "superseded", "decayed", "archived"}

TerminalTiers == {"archived", "decayed", "superseded"}

HumanGateTiers == {"decision_artifact"}

Triggers == {"system", "human_override", "policy_engine"}

(***************************************************************************)
(* Routing.  Scores are integers on a scale of tenths; t is the record of  *)
(* thresholds read from the policy file and the environment, which nothing *)
(* forces to be increasing.                                                *)
(***************************************************************************)
DefaultThresholds == [discardMax |-> 3, transientMax |-> 5,
                      probationaryMax |-> 7, minQuality |-> 4]

Route(composite, circuitOpen, quality, t) ==
  CASE circuitOpen                    -> "transient"
    [] /\ ~circuitOpen
       /\ \/ quality < t.minQuality
          \/ composite < t.discardMax -> "discard"
    [] OTHER -> IF composite < t.transientMax THEN "transient"
                ELSE IF composite < t.probationaryMax THEN "probationary"
                ELSE "persistent"

(***************************************************************************)
(* The transition matrix.  What a system trigger may do to each tier.      *)
(***************************************************************************)
AllowedSystem(prev) ==
  CASE prev = NoTier         -> {"discard", "transient", "probationary",
                                 "persistent"}
    [] prev = "transient"    -> {"probationary", "persistent", "decayed",
                                 "archived", "conflicted"}
    [] prev = "probationary" -> {"persistent", "decayed", "archived",
                                 "conflicted"}
    [] prev = "persistent"   -> {"decayed", "archived", "conflicted",
                                 "superseded"}
    [] prev = "conflicted"   -> {"persistent", "transient", "archived"}
    [] OTHER                 -> {}

ValidTransition(prev, new, trigger) ==
  /\ new \in HumanGateTiers => trigger = "human_override"
  /\ prev \notin TerminalTiers \cup {"discard"}
  /\ trigger = "human_override" \/ new \in AllowedSystem(prev)
=============================================================================
