-------------------------- MODULE ClassifyPipeline --------------------------
(***************************************************************************)
(* The heuristic classifier (ingestion/classify_pipeline.py), as several   *)
(* server processes run it on one content.                                 *)
(*                                                                         *)
(* A content is what the tables find in it: per memory type the groups of  *)
(* patterns that fire, the marks that tell sub-types apart, and the hits   *)
(* of every domain.  Scores are counted in quarters, so that the bonus of  *)
(* 1.5 and the halving for short-lived tiers stay whole.                   *)
(*                                                                         *)
(* The scores are kept in a dictionary filled from a frozenset of strings, *)
(* whose order is another in every process, and max returns the first of   *)
(* the best in that order.                                                 *)
(***************************************************************************)
EXTENDS Naturals, Sequences, FiniteSets
Sets == INSTANCE FiniteSetsExt

CONSTANTS
  ClassifyProcesses,
  Orders,    \* orders the set of types may have in a process: sequences of the types
  Submissions  \* what may be classified

VARIABLES order, content, verdict
classifyVars == <<order, content, verdict>>

MemoryTypes == {"milestone", "decision", "principle", "anchor", "evidence", "plan_roadmap"}

\* _KEYWORD_SIGNALS: the weights of the groups.
Weights ==
  [milestone |-> <<3, 2, 2, 1, 2>>, decision |-> <<3, 2, 2, 1>>, principle |-> <<3, 2, 2, 1>>,
   anchor |-> <<3, 2, 1>>, evidence |-> <<3, 3, 2, 2, 1>>, plan_roadmap |-> <<3, 3, 2, 1>>]

ASSUME SubmissionsAssumption ==
  /\ \A o \in Orders : DOMAIN o = 1 .. 6 /\ {o[i] : i \in 1 .. 6} = MemoryTypes
  /\ \A c \in Submissions, type \in MemoryTypes : c.fired[type] \subseteq DOMAIN Weights[type]

\* _NODE_TYPE_BOOST; a raw_note boosts a type that has no score.
Boosted(node_type) ==
  CASE node_type \in {"milestone", "event"} -> {"milestone"}
    [] node_type = "decision" -> {"decision"}
    [] node_type \in {"fact", "hypothesis", "source"} -> {"evidence"}
    [] node_type = "concept" -> {"principle"}
    [] node_type \in {"playbook", "task"} -> {"plan_roadmap"}
    [] OTHER -> {}

\* A group counts once, however many of its patterns are found; weights are 1 to 3.
Score(c, type) ==
  LET Fired(weight) == Cardinality({g \in c.fired[type] : Weights[type][g] = weight})
      all == 4 * (Fired(1) + 2 * Fired(2) + 3 * Fired(3)) + (IF type \in Boosted(c.node_type) THEN 6 ELSE 0)
  IN  IF c.tier \in {"transient", "ephemeral"} /\ type \in {"milestone", "principle"} THEN all \div 2 ELSE all

\* Defect: the first type over the threshold is taken.
Winner_First(c, o) ==
  LET over == {i \in DOMAIN o : Score(c, o[i]) >= 8}
  IN  IF over = {} THEN o[1] ELSE o[Sets!Min(over)]

\* max: the first of the highest.
Winner(c, o) == o[Sets!Min({i \in DOMAIN o : \A j \in DOMAIN o : Score(c, o[i]) >= Score(c, o[j])})]

\* _raw_score_to_confidence, in hundredths.
Confidence(score) ==
  CASE score >= 28 -> 93
    [] score \in 20 .. 27 -> 85
    [] score \in 12 .. 19 -> 72
    [] OTHER -> 62

SubType(type, marks) ==
  CASE type = "milestone" /\ "schema apply" \in marks -> "schema_apply"
    [] type = "milestone" /\ "schema apply" \notin marks /\ "release" \in marks -> "release_milestone"
    [] type = "milestone" /\ marks \cap {"schema apply", "release"} = {} /\ "scorecard" \in marks -> "scorecard_update"
    [] type = "milestone" /\ marks \cap {"schema apply", "release", "scorecard"} = {} -> "governance_milestone"
    [] type = "decision" /\ "schema" \in marks -> "schema_design"
    [] type = "principle" -> "architecture_principle"
    [] type = "anchor" -> "current_state_anchor"
    [] type = "evidence" /\ "scorecard" \in marks -> "scorecard_update"
    [] type = "evidence" /\ "scorecard" \notin marks -> "implementation_evidence"
    [] type = "plan_roadmap" -> "roadmap_plan"
    [] OTHER -> "none"

\* hits: how many keywords of each domain, in the order of the table; tags decide first.
DomainHint(c) ==
  LET tagged == {d \in DOMAIN c.tagHits : c.tagHits[d] >= 1}
      most == Sets!Min({d \in DOMAIN c.hits : \A e \in DOMAIN c.hits : c.hits[d] >= c.hits[e]})
  IN  CASE tagged # {} -> Sets!Min(tagged)
        [] tagged = {} /\ c.hits[most] >= 2 -> most
        [] OTHER -> 0

RawMemory(confidence, hint) ==
  [memory_type |-> "raw_memory", memory_sub_type |-> "none", confidence |-> confidence, domain_hint |-> hint]

\* classify never raises: an error is a verdict too.
ClassifyContent(c, o) ==
  LET best == Winner(c, o)
      score == Score(c, best)
  IN  CASE c.raises -> RawMemory(0, 0)
        [] ~c.raises /\ c.empty -> RawMemory(45, 0)
        [] ~c.raises /\ ~c.empty /\ score < 8 -> RawMemory(45, DomainHint(c))
        [] OTHER -> [memory_type |-> best, memory_sub_type |-> SubType(best, c.marks),
                     confidence |-> Confidence(score), domain_hint |-> DomainHint(c)]

-----------------------------------------------------------------------------
NoVerdict == [memory_type |-> "none", memory_sub_type |-> "none", confidence |-> 0, domain_hint |-> 0]

ClassifyInit ==
  /\ order \in [ClassifyProcesses -> Orders]
  /\ content \in Submissions
  /\ verdict = [p \in ClassifyProcesses |-> NoVerdict]

Classify(p) ==
  /\ verdict[p] = NoVerdict
  /\ verdict' = [verdict EXCEPT ![p] = ClassifyContent(content, order[p])]
  /\ UNCHANGED <<order, content>>

ClassifyNext == \E p \in ClassifyProcesses : Classify(p)
ClassifySpec == ClassifyInit /\ [][ClassifyNext]_classifyVars

-----------------------------------------------------------------------------
(* Properties.                                                             *)

Classified(p) == verdict[p] # NoVerdict

\* "Deterministic - same input always produces same output" (classify_pipeline.py, design
\* constraints) is so but for the order of a set: processes disagree on the type of a content
\* only where two types score alike, with the same confidence, so that the resolver is called
\* for both or for none, and with the same domain.
DisagreeOnlyOnTies ==
  \A p, q \in ClassifyProcesses :
    Classified(p) /\ Classified(q) =>
      /\ verdict[p].confidence = verdict[q].confidence
      /\ verdict[p].domain_hint = verdict[q].domain_hint
      /\ verdict[p].memory_type # verdict[q].memory_type =>
           Score(content, verdict[p].memory_type) = Score(content, verdict[q].memory_type)
=============================================================================
