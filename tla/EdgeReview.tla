----------------------------- MODULE EdgeReview -----------------------------
(***************************************************************************)
(* What the review of hub edges promises (graph/edge_inference.py:17-20,   *)
(* docs/CAPABILITIES.md:25).  For each key there is at most one edge in    *)
(* force, with a status.  A person may give it any status or withdraw it;  *)
(* a machine may only fill keys that have none, all of a run at once.      *)
(***************************************************************************)
EXTENDS Naturals

CONSTANTS Keys, Statuses

VARIABLES
  verdict,   \* the status in force for each key, "none" where there is no edge
  writes     \* what people have written so far

vars == <<verdict, writes>>

Init ==
  /\ verdict = [k \in Keys |-> "none"]
  /\ writes = 0

\* A person changes what is in force for at most one key.
Human ==
  /\ writes' = writes + 1
  /\ verdict' \in [Keys -> Statuses \cup {"none"}]
  /\ \A j, k \in Keys : verdict'[j] # verdict[j] /\ verdict'[k] # verdict[k] => j = k

\* A machine fills keys that are empty.
Machine ==
  /\ writes' = writes
  /\ verdict' \in [Keys -> Statuses \cup {"none"}]
  /\ \A k \in Keys : verdict'[k] # verdict[k] => verdict[k] = "none" /\ verdict'[k] = "inferred"

Next == Human \/ Machine

Spec == Init /\ [][Next]_vars
=============================================================================
