--------------------------- MODULE EmbeddingHealth ---------------------------
(***************************************************************************)
(* The read-only reports on supplied rows about embeddings: the evaluator  *)
(* (ingestion/embedding_health.py), the adapter of repository rows that    *)
(* cleans them first (embedding_health_adapter.py), and the planner        *)
(* (embedding_admin.py).  Each names the state of a row by its own tables  *)
(* of statuses and its own idea of what a row lacks.                       *)
(*                                                                         *)
(* A row keeps what the three tell apart; spellings of a status, the texts *)
(* of warnings, models and dimensions are left out.                        *)
(***************************************************************************)
EXTENDS Naturals, Sequences

CONSTANTS
  NoRows,        \* None in the place of the rows
  NoId,          \* neither item_id nor chunk_id
  SuppliedRows   \* what a caller may supply: NoRows or sequences of rows

VARIABLES supplied, report
embeddingVars == <<supplied, report>>

SourceKinds == {"none", "approved", "rows", "unproven", "unavailable"}
Statuses == {"none", "present", "missing", "pending", "failed", "unavailable", "odd"}
ScoreKinds == {"none", "fine", "low", "block", "empty risk", "reextract risk"}

\* A row nobody can complain about, but for which nothing is known of an embedding.
PlainRow ==
  [id |-> NoId, source |-> "none", available |-> TRUE, status |-> "none", present |-> "none",
   failure |-> FALSE, reextract |-> FALSE, text |-> "none", length |-> "none", score |-> "none",
   clocks |-> "none", unsafe |-> {}, warned |-> FALSE]

\* A row has the fields of a plain one.
RowOK(r) ==
  /\ DOMAIN r = DOMAIN PlainRow
  /\ r.source \in SourceKinds /\ r.status \in Statuses /\ r.score \in ScoreKinds
  /\ r.present \in {"none", "yes", "no"} /\ r.text \in {"none", "blank", "some"}
  /\ r.length \in {"none", "zero", "some"} /\ r.clocks \in {"none", "fresh", "stale", "malformed"}
  /\ {r.available, r.failure, r.reextract, r.warned} \subseteq BOOLEAN


-----------------------------------------------------------------------------
(* The evaluator.                                                          *)

Present(r) ==
  CASE r.present # "none" -> r.present
    [] r.present = "none" /\ r.status = "present" -> "yes"
    [] r.present = "none" /\ r.status = "missing" -> "no"
    [] OTHER -> "none"

\* The text itself decides before its length, the length before a risk flag.
IsEmpty(r) ==
  CASE r.text # "none" -> r.text = "blank"
    [] r.text = "none" /\ r.length = "zero" -> TRUE
    [] OTHER -> r.score = "empty risk"

\* What may be said of a row, the gravest first.
Causes(r) ==
  <<[state |-> "unavailable", holds |-> ~r.available \/ r.source = "unavailable"],
    [state |-> "failed", holds |-> r.status = "failed" \/ r.failure],
    [state |-> "pending", holds |-> r.status = "pending"],
    [state |-> "blocked_reextract", holds |-> r.reextract \/ r.score = "reextract risk"],
    [state |-> "blocked_empty", holds |-> IsEmpty(r)],
    [state |-> "blocked_low_quality", holds |-> r.score \in {"low", "block"}],
    [state |-> "stale", holds |-> Present(r) = "yes" /\ r.clocks = "stale"],
    [state |-> "embedded", holds |-> Present(r) = "yes"],
    [state |-> "missing_embedding", holds |-> Present(r) = "no"],
    [state |-> "unknown", holds |-> TRUE]>>
State(r) ==
  LET causes == Causes(r)
      first == CHOOSE i \in DOMAIN causes : causes[i].holds /\ \A j \in 1 .. i - 1 : ~causes[j].holds
  IN  causes[first].state

Evaluate(r) ==
  [id |-> r.id, state |-> State(r),
   degraded |-> State(r) # "embedded" \/ r.warned \/ r.source \in {"rows", "unproven"}]

\* What is said of no row at all.
NoRecord == [id |-> NoId, state |-> "unavailable", degraded |-> TRUE]
Records(rows) ==
  IF rows = NoRows THEN <<NoRecord>> ELSE [i \in DOMAIN rows |-> Evaluate(rows[i])]

-----------------------------------------------------------------------------
(* The adapter.                                                            *)

\* Nothing of an unsafe row is kept.
Redacted == [PlainRow EXCEPT !.id = "unsafe-redacted", !.source = "unavailable", !.available = FALSE, !.warned = TRUE]

Odd(r) ==
  \/ r.id = NoId \/ r.source = "unproven" \/ r.status \in {"odd", "unavailable"} \/ r.source = "unavailable"
  \/ r.present = "yes" /\ r.status \in {"failed", "missing"}
  \/ r.present = "no" /\ r.status = "present"
  \/ r.clocks = "malformed"

\* Defect: a status that is told overrides the flag.
Adapted_Status(r) ==
  [PlainRow EXCEPT
     !.id = r.id,
     !.source = IF r.source \in {"approved", "unavailable"} THEN r.source ELSE "rows",
     !.available = r.source # "unavailable" /\ r.status # "unavailable",
     !.status = IF r.status = "odd" THEN "none" ELSE r.status,
     !.present = IF r.status \in {"present", "missing"} THEN Present([r EXCEPT !.present = "none"]) ELSE Present(r),
     !.failure = r.failure,
     !.text = IF r.length = "zero" THEN "blank" ELSE "none",
     !.clocks = IF r.clocks = "malformed" THEN "none" ELSE r.clocks,
     !.warned = r.warned \/ Odd(r)]

\* The rest of a row is cleaned, what the adapter does not know of (requires_reextract, the text,
\* the score, source_available) is dropped.
Adapted(r) ==
  LET available == r.source # "unavailable" /\ r.status # "unavailable"
  IN  [PlainRow EXCEPT
         !.id = r.id,
         !.source = CASE ~available -> "unavailable"
                      [] available /\ r.source = "approved" -> "approved"
                      [] OTHER -> "rows",
         !.available = available,
         !.status = IF r.status = "odd" THEN "none" ELSE r.status,
         !.present = Present(r),
         !.failure = r.failure,
         !.text = IF r.length = "zero" THEN "blank" ELSE "none",
         !.clocks = IF r.clocks = "malformed" THEN "none" ELSE r.clocks,
         !.warned = r.warned \/ Odd(r)]

AdaptOne(r) == IF "adapter" \in r.unsafe THEN Redacted ELSE Adapted(r)

\* A row with the identifiers of an earlier one is warned of, the first is not.
AdaptRows(rows) ==
  LET one == [i \in DOMAIN rows |-> AdaptOne(rows[i])]
      Repeated(i) == one[i].id # NoId /\ \E j \in 1 .. i - 1 : one[j].id = one[i].id
  IN  [i \in DOMAIN rows |-> [one[i] EXCEPT !.warned = @ \/ Repeated(i)]]

\* Rows are numbered from 1, and None is nothing the adapter makes of rows.
ASSUME RowsAssumption ==
  \A rows \in SuppliedRows \ {NoRows} :
    /\ DOMAIN rows \subseteq Nat \ {0} /\ \A i \in DOMAIN rows : RowOK(rows[i])
    /\ AdaptRows(rows) # NoRows

-----------------------------------------------------------------------------
(* The planner.                                                            *)

PlanLabel(state) ==
  CASE state = "embedded" -> "noop_embedded"
    [] state \in {"missing_embedding", "stale"} -> "plan_embed_missing"
    [] state = "blocked_reextract" -> "plan_reextract_then_embed"
    [] state \in {"blocked_empty", "blocked_low_quality"} -> state
    [] state = "unavailable" -> "blocked_unavailable"
    [] OTHER -> "degraded_unknown"

PlanItem(record, unsafe) ==
  [id |-> record.id, state |-> record.state, label |-> PlanLabel(record.state),
   degraded |-> record.degraded \/ unsafe]

\* An empty set of rows is planned like none.
Plan(rows) ==
  LET records == IF rows = <<>> THEN Records(NoRows) ELSE Records(rows)
      Unsafe(i) == rows \notin {NoRows, <<>>} /\ "planner" \in rows[i].unsafe
  IN  [i \in DOMAIN records |-> PlanItem(records[i], Unsafe(i))]

-----------------------------------------------------------------------------
(* A caller asks one of the three about its rows.                          *)

NoReport == [by |-> "nobody", records |-> <<>>, degraded |-> FALSE]

EmbeddingInit == supplied \in SuppliedRows /\ report = NoReport

Said(by, records, degraded) ==
  /\ report = NoReport
  /\ report' = [by |-> by, records |-> records, degraded |-> degraded]
  /\ UNCHANGED supplied

AnyDegraded(records) == \E i \in DOMAIN records : records[i].degraded

EvaluateRows == Said("evaluator", Records(supplied), AnyDegraded(Records(supplied)))
Adapt ==
  LET rows == IF supplied = NoRows THEN <<[PlainRow EXCEPT !.source = "unavailable"]>> ELSE AdaptRows(supplied)
  IN  Said("adapter", Records(rows), rows = <<>> \/ AnyDegraded(Records(rows)) \/ \E i \in DOMAIN rows : rows[i].warned)
PlanActions == Said("planner", Plan(supplied), AnyDegraded(Plan(supplied)))

EmbeddingNext == EvaluateRows \/ Adapt \/ PlanActions
EmbeddingSpec == EmbeddingInit /\ [][EmbeddingNext]_embeddingVars

-----------------------------------------------------------------------------
(* Properties.                                                             *)

\* What is planned to be embedded is ready once it is embedded, and no row is called ready that
\* the planner would still touch (_STATE_TO_LABEL against the precedence of the evaluator).
PlanMakesReady ==
  report.by = "planner" /\ supplied \notin {NoRows, <<>>} =>
    \A i \in DOMAIN supplied :
      report.records[i].label = "plan_embed_missing" =>
        State([supplied[i] EXCEPT !.present = "yes", !.clocks = "fresh"]) = "embedded"

\* A row that says nothing the adapter drops or takes otherwise is judged alike with and without
\* it; nothing of an unsafe row comes out; of rows with one identifier at most one is not
\* degraded; an empty set proves nothing (adapt_rows, with tables of statuses of its own).
Dropped(r) == r.text # "none" \/ r.score # "none" \/ r.reextract \/ ~r.available \/ r.status = "unavailable"
AdapterAgrees ==
  report.by = "adapter" /\ supplied # NoRows =>
    /\ supplied = <<>> => report.degraded
    /\ \A i \in DOMAIN supplied :
         IF "adapter" \in supplied[i].unsafe
         THEN report.records[i] = [id |-> "unsafe-redacted", state |-> "unavailable", degraded |-> TRUE]
         ELSE Dropped(supplied[i]) \/ report.records[i].state = State(supplied[i])
    /\ \A i, j \in DOMAIN supplied :
         i < j /\ report.records[i].id = report.records[j].id => report.records[j].degraded

\* The three reports tell one story of a row.
ReportsAgree == PlanMakesReady /\ AdapterAgrees
=============================================================================
