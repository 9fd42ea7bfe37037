# Context Brain Memory Lab: a TLA+ verification project

The repository is a memory server: a FastAPI application whose handlers run in a
thread pool and share one PostgreSQL database through psycopg2 connections.  It
stores items of text, gives each a memory tier, classifies and chunks it, detects
conflicts with what is already stored, keeps "current state" anchors and decision
records, links items to a graph of hubs, and answers searches from all of that.

Almost everything that can go wrong in it is of one kind.  A handler reads rows in
one statement, decides in Python, and writes in a later statement or a later
transaction, under READ COMMITTED isolation, mostly without `FOR UPDATE` and often
with an `UPDATE ... WHERE id = ...` that does not look again at what was decided on.
The models therefore make each SELECT a step of its own, keep what was read in the
worker's local variables, let every worker fail between any two steps, and let the
writes of a transaction take effect at its commit.

## 1. Inventory

Paths are relative to `src/memory_lab/` unless they start with `migrations/` or `docs/`.

| Component | State it keeps | Operations | Interacts with | What makes it correct |
|---|---|---|---|---|
| Tier routing and matrix (`governance/tier_router.py`, `transition_matrix.py`) | none (thresholds from file and environment) | `route`, `validate_transition` | save, override, rollback | never emits a tier reserved for humans; terminal tiers closed |
| Tier lifecycle (`conflicts/escalation.py`, `api/routers/escalations.py`, `tier_override.py`, `cleanup.py`, `governance/events.py`) | `content_items.tier`, `cb_escalations`, `cb_governance_events` | escalate on save, approve, reject, override, rollback, TTL cleanup | save, hub links, decisions | the trail explains the tier; a quarantine is backed by a review; cleanup spares what is under review |
| Save and ingest (`api/services/api_adapter.py`, `api/routers/content.py`, `batch.py`, `persistence/body_chunks.py`) | `content_items`, chunks, classification history, domains | create (six transactions), batch create, promote | all of the others | what is answered as created is stored whole; the row agrees with its history |
| Current state (`current_state/*`, `api/routers/current_state.py`) | `current_state_anchors`, `content_items.is_current` | resolve on save, trusted promotion, catch-up grouping | save, catch-up, retrieval | the last promotion stands; a superseded item is not current; nothing is superseded across identities |
| Decisions (`decisions/store.py`) | decisions, `superseded_by`, conflicts | create, supersede, update status, lineage, list conflicts | cleanup (sources), hubs | lineage acyclic, both links agree, a cut lineage says so |
| Hub graph (`graph/hub_store.py`, `hub_edge_store.py`, `edge_inference.py`) | hubs, links, edges with a unique active key | link, create, update, archive, infer, approve, reject | cleanup, retrieval | a machine never touches what people decided; no two edges in force say the same |
| Catch-up and backfill (`ingestion/classify_catchup.py`, `embedding_backfill.py`) | the rows of the save | resumable batch runs | save, other runs | complete in the end, never reclassifies, runs do not block one another |
| Scorer circuit (`ingestion/scorer.py`) | two globals per process, a row of `cb_circuit_state` | `score_content` | save | an open circuit is respected, also after a restart; it opens for a cause and not for ever |
| Circuit breaker and routing plan (`governance/circuit_breaker.py`, `tier_routing_plan.py`) | none: computed from supplied events | `evaluate_circuit_state`, `plan_tier_route` | pipeline contract | refuses for a cause, for the whole cooldown, and no longer |
| Heuristic classifier (`ingestion/classify_pipeline.py`) | none | `classify` | save, catch-up | the same answer in every process |
| Chunking and canonical body (`ingestion/chunking.py`, `content/canonical_body.py`) | `content_chunks`, `content_hash` | split and store, read, stitch, verify | save, read | nothing is lost or cut twice; the body comes back byte for byte or not at all |
| Embedding reports (`ingestion/embedding_health.py`, `embedding_health_adapter.py`, `embedding_admin.py`) | none | evaluate, adapt, plan | operators | the three tell the same of a row |
| Persistence backends (`persistence/*_backend.py`, `contracts.py`) | contents, governance states and events | put, get, list, append | prompt flow, save | the PostgreSQL backend keeps the contract that the memory backend shows |
| Prompt flow (`ingestion/pipeline_contract.py`, `reasoning/ingestion_prompt_flow.py`, two hand-offs) | none | ingest, list, rank, pack | persistence | a text that was stored is offered to the prompt |
| Graph health (`graph/repository_reader.py`, `health_service.py`, `hub_recall_health.py`, `alias_hygiene.py`) | none | three GET endpoints | every table of the graph | a report over torn reads claims nothing that never was |
| Authentication and workspace (`api/dependencies/auth.py`, `api/workspace_context.py`, `mcp/http_auth.py`) | keys, subjects, memberships, workspaces | bind a request to a subject and a workspace | every router | nobody acts as another or without a right |
| MCP server and client (`mcp/*.py`) | a context variable per call | one tool call, one or more requests | the API | what a tool claims is stored, also after failures and repetitions |
| Retrieval (`api/services/retrieval_adapter.py`, `graph/hybrid_search.py`, `retrieval/composite_ranker.py`, `ingestion/chunk_scorer_v2.py`, `query/evidence.py`) | none: a search reads items, chunks, hubs and links | `search` with a retrieval scope | every writer of those tables | answers nothing outside the scope, and misses nothing that could be found all along |
| Conflict detector, scoring of ingestion, context packs, reasoning, providers, bootstrap | none of their own | pure functions, HTTP calls, rendering | the API | - |

The hard behaviours are listed one by one, with the line where each bites and the
properties that watch it, under `hazards` in `PROJECT.json`.

## 2. Modules

```
TierPolicy <-- TierGovernance <-- TierGovernanceProofs
CurrentRegister <-- (INSTANCE) CurrentState <-- CurrentStateProofs
IngestPipeline <-- IngestPipelineProofs
DecisionLineage <-- DecisionLineageProofs
EdgeReview <-- (INSTANCE) HubEdges <-- HubEdgesProofs
McpTools <-- McpAccess <-- McpAccessProofs
RecordStore <-- (INSTANCE) PostgresRecords <-- PromptFlow
CanonicalBody, PromptFlow <-- PersistenceProofs
EmbeddingBackfill, ScorerCircuit, EmbeddingHealth, ClassifyPipeline,
  GraphHealth, CircuitBreaker <-- PartsProofs
CanonicalBody, GraphHealth, EmbeddingHealth, ScorerCircuit, ClassifyPipeline,
  CircuitBreaker, ScopedRetrieval, DecisionLineage <-- MCParts
MC<module>: the instance of <module> that TLC runs
```

All modules of handlers share one way of modelling.  A variable holds the committed
rows of a table.  A record per worker holds the handler's local variables: the
statement it comes to next, what earlier statements read, and the rows it has locked.
A SELECT is a step that fills that record from the committed rows.  An UPDATE that
comes before the last statement of its transaction takes the row's lock and keeps it
in `held` (or in the step itself) until the commit; whoever wants the row meanwhile
has no enabled step.  The other writes of a transaction take effect in one step at
its commit.  `Abort` (in `EmbeddingBackfill` and `IngestPipeline` also `Crash`) gives
up a worker's transaction between any two steps.  `PROJECT.json`, under `map`, names
the lines each definition stands for.

Operators named `Operator_Word` and commented "Defect:" are mutated forms of a
definition.  Nothing uses them; they document which mistake each property would
catch.

### TierPolicy and TierGovernance

`TierPolicy` holds the router's decision (`Route`) and the transition matrix
(`ValidTransition`) as operators.

`TierGovernance` models every handler that writes a tier, an escalation or a
governance event.

| Variable | Code |
|---|---|
| `tier` | `content_items.memory_tier`; `Absent` before the row, `NoTier` while it is NULL |
| `aged`, `linked` | whether the item is older than the TTL; whether a hub or decision refers to it |
| `esc` | the item's row of `cb_escalations` |
| `log` | the item's rows of `cb_governance_events` in commit order, each with its `created_at`, the start of the writing transaction |
| `req`, `clock` | handlers in progress; transaction start times |

The save is `SaveInsert`, `SaveTier`, `SaveDetectNothing` or `SaveDetectConflict`,
`SaveReadTier`, `SaveEscalate` (T1, T2 and T6 of `create_content_minimal`); approve
and reject are `ResolveFetch`, `ResolveRead`, `ResolveCommit`; the override, the
rollback and the TTL cleanup have their steps in the same way, and cleanup goes
through its candidates in any order, because its SELECT has no ORDER BY.
`EscalationFallsDue` and `ContentAges` are the passage of time.

Under any interleaving the last event names the item's tier, a quarantine has an
escalation behind it, and cleanup spares pending reviews.  What a handler may overrule is
another matter, because its UPDATE does not look again at the tier it has read.
`OverrulesOnlyMeanwhile` draws that line: the tier an event replaces is one the item had at
some moment since the event's request began, so what was decided before that is never
overruled unseen.  The history it needs is the field `done` of an event: how many governed
requests had begun when it was committed.
That a resolution is final does not hold where requests overlap (section 4).

### CurrentState and CurrentRegister

`CurrentState` models `resolve_current_state_after_ingest` and what calls it: the
save, the trusted promotion and the classification catch-up, and a repeated call for
an item that is already grouped or promoted.  No caller makes that repeated call
today: the resolver's docstring and `tests/integration/test_current_state_phase_a.py:316`
provide for it, and `"reconcile"` in `Traffic` turns it on.  `row` holds the columns
of `content_items` the resolver owns, `anchors` the rows of
`cb_current_state_anchors` in commit order.  `Lookup`, `FindPrevious`, `Scan`,
`Supersede` and `Commit` are its statements; `Scan` takes the snapshot of the UPDATE,
`Supersede` locks the rows of that snapshot one after the other and looks at each
again.

`CurrentRegister` is what it promises: a register per identity, written by promotions of
that identity only. `IsRegister` checks that `CurrentState`, under the mapping from an
identity to the item of its active anchor, implements it when requests do not overlap;
an identity with two active anchors maps to a value no register has. When they do, two
anchors of one identity can stay active (a finding), but the promotion committed last
always stands.

### IngestPipeline

`row` holds which of an item's parts are stored (the row, its tier, its body), `hist`
the classification history, `told` what callers were answered, `req` the handlers.  A
save is deduplication, INSERT, tier, chunks and classification, each in its own
transaction, alone or as one of a batch; a promotion is a save without
deduplication and with another classification version; the catch-up selects items
without a type and classifies them one by one.  The statements of a classification
(`WriteType` or `CatchUpFill`, `RetireScan`, `Retire`, `WriteDomain`, `Commit`) are
separate steps with their row locks, in the two orders the two callers have.  Two
classifications that wait for each other are ended by `ClassifyFails`, which rolls
either back at any time.

### DecisionLineage

`dec` is the sequence of committed decisions in id order, with both links and the status;
`CreateStart`, `CreateCheck`, `CreateInsert`, `CreateMark` and `CreateCommit` are
the statements of `create_decision`, `UpdateStatus` the one of `update_status`.
`Walk`, `Ancestors`, `Descendants`, `LimitReached` and `Conflicts` are the read
queries as functions of the table.

### CanonicalBody

A body is a sequence over a small alphabet of character classes (blank, line feed,
carriage return, sentence end, wide sentence end).  `Split` is one round of the
chunker's loop, with the boundary candidates in their order of preference, the
overlap and the guard that makes it advance; `GuardHit` is the limit on the number of
chunks.  `ReadBody`, `Stitch` and `Verify` are the canonical-body read.  SHA-256 is taken
to be collision free, so hash equality is equality of texts.  `BodyComesBack` speaks of
bodies that were stored to their end, `VerifiedIsComplete` of those that the guard cut
off: such a body is never answered as hash-verified, however its junctions look.  The chunker's list
boundary is left out: it lies before a line feed, and the newline boundary right behind
that line feed is a candidate whenever it is one, with a better priority, so it is never
chosen.

### EmbeddingBackfill

Runs of `scripts/embedding_backfill.py` over the chunks that saves leave without an
embedding: `Scan` is the SELECT with its order and limit, `Accept` and `Refuse` the
provider's answer, `Update` the UPDATE that keeps the row locked to the end of the
batch, `Commit` the batch's COMMIT, `Crash` the end of a process.

### HubEdges and EdgeReview

`HubEdges` models the edges between hubs: what people ask for (`CreateEdge`,
`UpdateEdge`, `ArchiveEdge`, `ReviewEdge` and, for the data an inference reads,
`LinkContent` and `UpdateHub`), and runs of the inference script.  A run reads
memberships, hubs and tagged contents in three statements (`FetchMemberships`,
`FetchHubs`, `FetchTaggedContents`), plans its proposals (`FromMembership`,
`FromTags`, `Merged`, `Plan`) and inserts them one by one in one transaction
(`InsertNext`, `CommitRun`).  `edges` holds the committed rows; the rows a run has
inserted are in `run`, and `WaitsFor` is the wait for somebody's uncommitted key that
the partial unique index of `migrations/006` imposes.  `BreakDeadlock` is PostgreSQL's
detector.

`EdgeReview` is what the review promises: a person may change the status of one key at
a time, a machine may only fill keys that have none.  `RespectsReview` says that
`HubEdges` implements it, under the mapping from a key to the status of its edge in
force.

### McpTools and McpAccess

`McpTools` holds the static tables: which requests a tool sends in which order
(`mcp/tools.py`, `mcp/client.py`), which permission an endpoint asks for, which roles
hold it.  `McpAccess` follows calls of tools through them.

| Variable | Code |
|---|---|
| `deployment` | the configuration of both servers: transport, authentication mode, database, default workspaces |
| `key`, `subject`, `member`, `open` | `api_keys`, `auth_subjects`, `workspace_memberships`, `cb_workspaces` |
| `call` | a tool call as its caller and the MCP server see it |
| `request` | the last HTTP request of each call as the API sees it |
| `saved`, `summarised`, `linked` | what the handlers have stored |
| `since` | history: which rights have held at some time since a request was sent |

`CheckBearer` and `CheckMembership` are the two SELECTs of the transport's check (the
second takes the subject's oldest membership; the model has no `created_at`, and any of
them may be the oldest),
`MakeClient` the choice of the identity the client takes on, `ResolveWorkspace`,
`ReadKey`, `ReadMembership` and `WriteAudit` those of the API, `CreateContent`,
`SetQuickSummary`, `LinkContent` and `OtherHandler` what the handlers do.  `Change` is an
administrator between any two of them; `TimeOut` leaves a request running whose caller
has given up, `AskAgain` repeats the call, `DropAnswer` and `RequestFails` lose an
answer or a request.  A caller with tool `"rest"` uses the API directly.

The model takes each subject to have one key, one text and one hub to stand for the
data, and a repeated call to ask for the same again.  `LoseContext` is the case the
client's comments speak of, a context variable that does not reach the call; the MCP
library's sessions are external.

### RecordStore, PostgresRecords and PromptFlow

`RecordStore` is the contract of `persistence/contracts.py` as the memory backend shows
it: a call takes effect, or looks, at one moment between its start and its answer.  Two
constants say what PostgreSQL may do besides: `GetsLost` (a call may fail after it has
stored) and `OneHome` (the id of a content is the primary key, for all workspaces).

`PostgresRecords` is the backend statement by statement, with a transaction per call
(`Begin`, `EnsureWorkspace`, `WriteContent`, `ClearChunk`, `InsertChunk`, `WriteState`,
`WriteEvent`, `Commit`, and the reads), the waits for rows of others, failures before
and after the COMMIT, and the API that stores the chunks of a body in a second
transaction (`ApiSave`, `ApiChunks`).  `KeepsContract` says that it implements
`RecordStore`.

`PromptFlow` composes it with the ingestion contract, the listing and the two
hand-offs: `Ingest`, `PutAnswered`, `Record`, `ListAnswered` and `Pack` are the parts of
a flow, which is one more client of the backend.

### GraphHealth

`ReadTable` is one SELECT of the reader, of eight that make a snapshot; `Others` are
commits of saves, puts, backfills, links, edges and hubs between them.  The scores are
operators of a snapshot (`TopologyScore`, `IndexScore`, `RecallScore`, `AliasScore`,
`ConsistencyScore`, `HealthScore`), in whole hundredths with the code's rounding.

### ScorerCircuit and CircuitBreaker

`ScorerCircuit` has the two globals of each process in `memory`, the shared row in
`expires_at`, and in `call` what each thread is doing: it looks at the circuit twice
(`Look`, `SelectRow`, `TakeRow`), asks the provider, and records how it went in the
steps the code takes (`FilterFailures`, `BindFailures`, `AppendFailure`,
`CountFailures`, `OpenCircuit`, `PersistCircuit`).  The threads of a process interleave
between any two of them, because no lock protects the globals; `Tick` is the clock and
`Restart` the end of a process.  `Within` is the list comprehension that drops the
failures older than the window.  `past` and `lastOpen` are history variables for the
properties.

`CircuitBreaker` is the provider-neutral breaker, with the tier planned under it
(`PlanTierRoute`) and what the pipeline contract makes of both.  `EvaluateCircuitState`
passes over the supplied events in their order (`Ordered`), one `After` the other, and
gives its `Verdict` of what has become of the circuit by `Now`.  The list of recent
failures is the set of their places in what was supplied: only its length is asked for.

### EmbeddingHealth and ClassifyPipeline

`EmbeddingHealth` holds the evaluator (`State`, `Evaluate`), the adapter (`Adapted`,
`AdaptOne`) and the planner (`PlanItem`) as operators of a row, of which it keeps what
the three tell apart.  `ClassifyPipeline` holds the scores, the winner, its confidence,
the sub-type and the domain; `order` is the order a process iterates its set of types
in.

### ScopedRetrieval

One search, in the steps of its SELECTs: `SearchPrimary` (by vector or by words, as the
provider answered), `Rescue` or `FillShortage` for the neighbours of the query's words,
`SearchAlongside`, `MatchHub` in its five attempts, `ReadHubLinks`, `ReadHubItems`, and
`Respond`, which ranks with Scoring Model v2 (`FinalScore`) and takes the first row of
each item.  A query is a sequence of words, and `Terms` the first `MaxTerms` of them that
are long enough to be looked for, repetitions counted as the code counts them; the
instance has queries that lose a word to that cut.  `catalog` holds the committed rows and `OthersCommit` what others commit
between two SELECTs; `scoped` is history, for the property.  A text is the set of its
words, a vector its distance from the query's.

`AnswersItsScope` has two halves.  Nothing is answered that was not, at some moment of
the search, an item of the workspace, of a type asked for and linked to an allowed hub;
and what one way (a word, the vector, the hub the query names) led to from the first
moment to the last is answered, unless a LIMIT or the limit of the request cut it off.
Items with a blank chunk are excepted from this half: the vector or the hub may bring that
chunk, the rows by words are then dropped because the item has one already, and the
evidence drops the blank row (the instance has such an item, and without the exception TLC
loses it).
The second half is what the fusion of the sources has to preserve: each drops rows that
another has brought.

What reading the ranking showed, and no property is about: a linked item that its text
also finds loses its hub signals, because the row of the hub path is dropped for the one
that came first, so `source_path_for_row` never answers "mixed"; and the more terms of
the graph a text bears out, the lower its graph score, which counts them as the length of
a path.

## 3. Runs

| Run | Instance | What it shows |
|---|---|---|
| `tiers_concurrent` | 2 items, 2 workers, 2 governed transactions besides the saves | the trail explains the tier, a quarantine is backed by an escalation, a commit overrules only what was committed while its request ran, cleanup spares what is under review, every request ends |
| `tiers_decided_twice` | 1 item, 2 workers, 3 governed transactions | the counterexample: of two overlapping resolutions the second replaces the first's decision |
| `current_concurrent` | 4 items, 1 identity, 2 workers, 4 promotions | the last promotion stands, active anchors are current, every request ends |
| `current_serial` | 3 items, 2 identities, 2 scopes, 1 worker, all traffic, 4 resolves | the refinement of the register with its one active anchor, nothing superseded across identities |
| `current_two_active` | 2 items, 2 workers, 2 resolves | the counterexample: two active anchors of one identity |
| `ingest_concurrent` | 2 bodies, 2 types, 3 workers, 3 requests: saves of one body, the same body twice or both, promotions, catch-ups | what is answered as created is whole, classification and history agree, a catch-up never reclassifies |
| `embedding_backfill` | 4 chunks of 3 items, 1 of them refused, 2 runs, batches of 2, limit 3, 1 crash | no circular wait, success is complete, every chunk in reach is embedded; no deadlock |
| `hub_edges` | 3 hubs, 2 edge types, 3 items, 2 inference runs of 2 proposals, 2 writes by people | the plan is the strongest, the refinement of the review, runs end |
| `hub_edges_duplicate` | the same with 1 run and 3 writes by people | the counterexample: an edge whose type was changed duplicates another |
| `mcp_access` | 2 calls, 2 workspaces, 4 deployments, 3 tools and 1 endpoint called directly, 1 change by an administrator, 2 faults | nobody acts as another or without a right, "linked" means stored and linked |
| `prompt_flow` | 1 client and 1 flow, 2 workspaces, 2 contents, 1 record, 2 calls, 1 save of the API, 2 faults | the refinement of the contract, embeddings fit their texts, a flow finds its own text |
| `parts` | the eight parts of `MCParts`, one in each behaviour | coverage and round trip of chunks, cut bodies noticed, reports over torn reads, scores, circuits, classifiers, a search within its scope, successors, the lineage's cut, conflicts of decisions |

The parts of `MCParts` do not interact: `subject` chooses one with the initial state
and the others stand still, so the run is eight runs over modules too small for a
configuration each.  Their instances:

- `CanonicalBody`: all bodies up to 7 characters over 5 classes, chunks of 2 to 4,
  overlap 2, at most 3 chunks.
- `GraphHealth`: 2 contents, 2 hubs, three databases to begin with, 2 commits of others
  between the reader's statements.
- `EmbeddingHealth`: the row nobody can complain about with any three of its fields
  changed, and pairs of rows.
- `ScorerCircuit`: 2 processes of 2 threads, threshold 2, window and duration 2, time
  to 4, 3 calls, 1 restart; the first thread is in the first process, since processes are
  not told apart.
- `ClassifyPipeline`: 2 processes with one of 2 orders each, contents in which up to
  three groups of patterns fire.
- `CircuitBreaker`: every history of up to 3 events, and of 4 with three failures or more
  (the threshold), two instants, three initial states.
- `ScopedRetrieval`: 4 items, one of another workspace, of 0 to 2 chunks over 4 words, 2
  hubs, three catalogs to begin with, requests that differ in their words, types, hubs,
  hops and limit, SELECTs of at most 4 rows, 2 commits of others.  Of a query 2 words are
  looked for (`MaxTerms`; the code has 8), and two of the queries have three.
- `DecisionLineage`: 2 writers, 4 decisions, depth limit 2; callers ask for the status `active`,
  since no other but `superseded`, which the code sets itself, matters to a property.

Why the bounds are enough:

- Two items and two cleanups are the least that can lock rows in opposite orders, and
  two governed transactions the least that can overlap.  `MaxTickets` counts
  transactions that write events; saves, links and the passage of time are not counted.
  The escalation of a save and two overlapping resolutions are the three of the
  counterexample.
- A deadlock between resolvers needs two anchors active at once, left by two
  overlapping promotions, and two more promotions to lock them: four.
- Three requests let a catch-up be overtaken by a save and overtake it in turn; two
  types are enough to tell which of them wrote, and two bodies let one batch of two
  saves hold the rows of both.
- Four decisions are two successors of one decision with a chain longer than the depth
  limit of 2, so the cut is met from both sides.
- With three chunks listed and batches of two, a run has a full and a partial batch,
  the refused chunk uses up one place of the limit, and the fourth chunk is
  reached only by a later run.
- Three hubs give three pairs, so a plan of two proposals leaves one out; two runs with
  two proposals each can insert the same keys in opposite orders; two writes let a
  person create an edge and decide on it while a run is under way.
- Two calls are a call and one that competes with it, each of which may be
  repeated; three requests are the longest a tool sends.  One
  change takes one right away or gives one; two faults are a lost answer and another
  failure on the retry.  The caller has different roles in the two workspaces, the
  service token's subject others, so a request in the wrong name or place shows.
- Two calls of a client, one flow and one save of the API are two writers and a reader
  of one content.  The second fault is that of the client whose write the flow sees.
- Seven characters hold three chunks with boundaries of every kind and bodies that
  exceed the guard.  Carriage return and wide stop occur at most once in a body.
- Two commits between two statements of the reader are an item and its link; a third
  would undo one of them.  With a threshold of 2, three calls open the circuit and meet
  it open, in one process or in both.

Symmetry is declared in safety runs only, over sets whose members the specification
does not tell apart.  `CHECK_DEADLOCK FALSE` stands in the configurations where
the bound on requests, or a question that has been answered, lets the system come to
rest; in `embedding_backfill` deadlock checking is on, so runs that all wait would be
reported.

Fairness.  `FairSpec` says that a worker that has a statement to execute executes it
(uvicorn's thread pool runs every thread, PostgreSQL grants a lock that is free) and,
where a deadlock can occur, that PostgreSQL's deadlock detector ends it.  Nothing is
assumed about the arrival of requests, failures or the passage of time.
`EmbeddingBackfill` also assumes that an operator or a scheduler starts the script again
and again, and that the provider, asked repeatedly for a chunk it does not refuse,
answers one day (strong fairness on `Accept`); a backfill cannot finish without these.

## 4. Findings and observations

Three runs are expected to be violated; `PROJECT.json` quotes the sentence of the
repository each refutes.

- Two promotions of one identity can both stay active (`current_state/resolver.py:221`).
  The next promotion repairs it, and reads are nondeterministic until then.
- An escalation can be resolved twice by requests that overlap
  (`api/routers/escalations.py:182`): the status is read in one statement and the UPDATE
  filters by id alone, so that the 409 for a decided escalation is no more than a check in
  passing, and a resolution and an expiry by cleanup overtake each other too.
- Changing an edge's type keeps the key made of the old type (`graph/hub_edge_store.py:156`),
  so two edges in force can agree in ends and type, which `migrations/006:44` means to
  exclude.

What else the models brought to light, by part:

Tiers.
- Approving an escalation can lift an item out of `archived`, a terminal tier of
  `transition_matrix.py:67`: the resolution does not consult the matrix.
- A hub link or citation added between cleanup's checks and its UPDATE leaves an
  archived item linked.
- The rollback takes the newest event by `created_at`, the start of the writing
  transaction, which need not be the one committed last.
- Thresholds come from the environment one by one (`tier_router.py:56`) and nothing keeps
  them increasing.

Saves and classification.
- A save that dies before its chunks leaves a body stored nowhere, while retries are
  answered "persisted, duplicate" (`api/services/api_adapter.py:128`).
  `CreatedIsWhole` therefore speaks of what is answered as created.
- Promoting a body again to restore an earlier state is refused by the unique index on
  the content hash (`api_adapter.py:189`).
- A catch-up overtaken by a save leaves the column alone but makes its own history row
  the active one (`classify_catchup.py:349`).
- Repeating a missing type from the history never has anything to fill as long as
  column and history are written by this code only.
- The classifier is called deterministic (`classify_pipeline.py:24`), but where two types
  score alike the first in the order of a set of strings wins, and that order is another
  in every process.

Current state.
- After two overlapping promotions the superseded item can keep `is_current = TRUE`
  although no anchor of it is active, until the next promotion.
- The anchor a promotion reports as replaced is looked up by the raw scope hint
  (`api_adapter.py:901`) although anchors store its slug.

Decisions and hub edges.
- A decision superseded twice forgets its first successor (`decisions/store.py:344`),
  which still names it as ancestor.
- Changing an edge's status to `archived` by PATCH leaves `archived_at` empty.
- `_compute_edge_key` sorts its two hubs whatever the type, so a directional edge and its
  reverse are one, where the comment at `migrations/006:31` gives directional types a key in
  the order of their ends.
- A status update revives a superseded decision next to the one that replaced it
  (`decisions/store.py:420`); nothing says that it may not.
- An archived hub is accepted as the end of a new edge.
- Two inference runs can wait for each other's keys; PostgreSQL rolls one back.

Chunks and embeddings.
- A chunk can consist of overlap only, right behind a paragraph break
  (`chunking.py:163`); `EverySecondChunkAdvances` says never twice in a row.
- With `--limit n`, n chunks the provider always refuses keep all chunks behind them from
  being embedded: nothing ever sets `embedding_status = 'failed'`.  `Reachable` in
  `EmbeddingBackfill` states which chunks are safe from it.
- The adapter of embedding rows drops `requires_reextract`, the score, the text and
  `source_available`; its default label is not one the evaluator allows, so such records
  always count as degraded; unsafe rows share one redacted id.

Circuits.
- A success never clears the scorer's row: a process that has closed its circuit reads it
  back from the table.  Threads lose each other's failures, and a late success closes what
  others have just opened.  `circuit_open` is reported for every fallback.
- A provider-neutral breaker that is told an initial state "open" without events never
  recovers, and a degraded one is not closed by a success while failures are in its
  window.  `circuit_now` defaults to 0 in the pipeline contract, where every event lies
  in the future and is ignored; and the contract persists whatever the plan says.

Persistence.
- `put_content_record` on PostgreSQL moves a content of another workspace to the caller's
  (the id alone is the key), where the memory backend keeps two.
- A malformed workspace is "invalid_workspace" to a put and "persistence_backend_failed"
  to a list.  Ids are stripped by the memory backend only.  Neither backend consults
  `validate_status_transition`.
- A put replaces chunk 0 only and leaves the later chunks of an earlier, longer body
  (`body_chunks.py:133`).  Events are listed in the order of their transactions' starts.

Graph health.
- `_rows` reads without a workspace (`repository_reader.py:382`).
- An empty content table gives full marks for consistency although links dangle
  (`health_service.py:292`); a repository can reach 95 at best and is always "limited".
- An item of blank texts with an embedding is neither searchable nor warned of.
- Labels and aliases come from a second snapshot; the reader's factory returns None in
  the API as shipped.

## 5. Proofs

TLAPS proves the following for every value of the constants.

| Module | Theorems | For |
|---|---|---|
| `TierGovernanceProofs` | `TypeCorrect`, `AuditHeadCorrect`, `OverrulesWhileItRuns`, `QuarantineSound`, `CleanupKeepsPendingItems` | any items, workers and number of requests |
| `CurrentStateProofs` | `TypeCorrect`, `LastStands`, `ActiveMeansCurrent`, `ScopeNeverSupersedes`, `OneWorkerIsRegister` | any items, identities, scopes, workers and resolves; `LastStands` and `ActiveMeansCurrent` without reconcile jobs, the last where requests follow one another |
| `IngestPipelineProofs` | `TypeCorrect`, `WholeWhenCreated`, `RecordMatches`, `CatchUpFillsOnly` | any bodies, types, batches, workers and requests |
| `DecisionLineageProofs` | `DecisionTypes`, `LineageAcyclic`, `LineageAgrees`, `LastSuccessor`, `CutOffReported`, `ReplacedStaysOut` | any writers, topics, depth limit and number of decisions |
| `PersistenceProofs` (canonical body) | `ChunkingCovers`, `ChunkingAdvances`, `RoundTrip`, `CutBodiesAreNoticed` | any alphabet, length and configuration with `Overlap <= MinChars` |
| `PersistenceProofs` (records) | `RecordsInvariance`, `VectorsOfTheirTexts`, `PostgresKeepsContract` | any clients, workspaces, contents, requests, saves and faults |
| `PersistenceProofs` (flows) | `FlowOffersItsText` | any callers, texts, scores, sizes, limits and interleavings |
| `PartsProofs` (backfill) | `BackfillTypes`, `NoDeadlock`, `SuccessIsComplete` | any items, runs, batch size and limit; `NoDeadlock` for chunks with an upper bound, that is finitely many |
| `PartsProofs` (circuit) | `OpenCircuitIsRespected`, `CircuitOpensForCause` | any processes, threads, threshold, window, duration, calls and restarts |
| `PartsProofs` (breaker) | `CircuitRefusesForCause` | any sequences of supplied events, instants, states to begin with, thresholds, windows and durations |
| `PartsProofs` (reports) | `ReportsTellOneStory`, `DisagreementIsATie`, `TornReportsAreTrue` | any rows; any contents and orders of the types; any databases and commits of others |
| `PartsProofs` (health) | `ScoresMeanWhatTheySay` | any finite sets of contents and hubs, any tables and commits of others |
| `PartsProofs` (search) | `SearchesKeepTheirScope` | any catalogs, queries of any length, graph terms, limits (`MaxTerms` among them) and commits of others |
| `HubEdgesProofs` | `TypeCorrect`, `ReviewIsRespected`, `PlanLeavesOutTheWeakest` | any finite set of hubs, types, items, runs and options |
| `McpAccessProofs` | `TypeCorrect`, `CallerActs`, `RightsHeld`, `LinkedIsWhole` | any calls, workspaces, deployments, memberships, tools, changes and faults |

The assumptions are those named in the modules (`...Assumption`), which TLC evaluates
in the runs of each module, and where a theorem has one of its own, it is in its
statement.  Most say no more than which set a constant is of: numbers that Python or the
schema make non-negative, thresholds a `_validate_config` refuses to have at zero, rows
with the columns of their tables (`DatabasesAssumption`, `RowsAssumption`,
`SubmissionsAssumption`, `SuppliedAssumption`, `RequestsAssumption`, `CatalogsAssumption`,
`QuestionsAssumption`), and `ScoresAssumption` that scores and sizes are numbers.  Where
the code counts or sorts, there are finitely many things to count: the hubs of a plan
(`HubsAssumption`), the nodes of the graph (`FiniteAssumption`), the items of the tables a
search reads (`EntriesAssumption`).

Each proof follows the same line: the property is not inductive, a stronger invariant is;
one lemma per action shows that the action preserves it, and the theorem is the
temporal conclusion.

- Tiers.  `CInv` adds to `TypeOK` what a handler knows at each step of the item it works
  on (`RequestOK`) and a cleanup of the rows it has selected or locked (`SweepOK`), that
  two saves never work on one item (`SavesApart`), and that an item without a tier has
  no history (`ItemOK`).  It is needed because a save writes its tier without an event:
  only if nobody can log one for the item before that does the trail explain the tier.
  `HInv` adds that a tier a handler remembers is one the item had since its request began (`MemoryOK`), which is
  what its event will name, and the three properties of the trail (`TrailOK`).
- Current state.  `Types` adds to `TypeOK` that nothing is dated in the future and which
  local variables a step has.  `RInv` adds what a resolver knows (`Informed`): from its
  INSERT on a promotion has its item to itself, and the item it read as previous has an
  anchor that is among the rows it is to supersede, unless somebody has superseded it
  already; and that an item has one anchor at most (`Filed`).  The two theorems exclude
  reconcile jobs, because a job that refreshes an item can write back what it read before
  a promotion superseded it.
- Ingest.  `IInv` adds to the two invariants the shapes of the requests (`Shapes`), what a
  request knows of its item and of the history rows it has read or locked (`Known`), and
  that no two of them hold the same row (`LocksApart`).  The last is what keeps column and
  history together: between the write of the column and the commit nobody else reaches
  that row.  `CatchUpFillsOnly` is about steps, and follows from `Known`: a catch-up that
  has written found the column NULL.
- Decisions.  `TypeOK`, that the decision a request aims at still exists (`AimsExist`),
  and the three properties of the links, which are inductive only together (`Links`).
- Canonical body.  `Shape`, `Cuts` (each chunk written so far is one the loop can cut),
  `Loop` (where the next one starts), `Reading` (what is stitched of a faithful body is
  its prefix up to the last chunk read) and the property.  `EndBounds` and
  `NextStartBounds` are the arithmetic of one round; `StitchOverlap` and `StitchAdjacent`
  say that the reader recognises the overlap of two chunks when there is one, and sees
  none in a faithful body when there is not.  That cut bodies are noticed is about lengths
  instead: what is stitched ends with the row read last (`StitchedEnds`) and reaches no
  further than the text that row covers, because an overlap the text has is always seen
  (`OverlapIsSeen`, `WithinJunction`); rows that stop short of the end are therefore shorter
  than the body, which is no shorter than its normalised text (`NormalisedIsNoLonger`).  The assumption `Overlap <= MinChars` is that
  of the default configuration, the only one the save and the read use;
  `ChunkerConfig.validate` would accept others.
- Backfill.  `Position` (what is held lies before what is to come, in the
  order of the list) and `Accounted` (a listed chunk is to come, held, refused or
  embedded).  `NoDeadlock` then takes, of the runs that wait, the one whose chunk is
  greatest: whoever holds that chunk wants a greater one.
- Hub edges.  `HInv` adds to `TypeOK` that no two committed edges in force have one key
  (`Alone`), that the keys a run has inserted or has still to insert are different ones
  (`Own`), and that an inserted key is in force nowhere else and inserted by no other run
  (`Apart`).  The refinement follows: a commit fills keys that are empty, and a person's
  statement touches the key of one edge.
- MCP access.  `AInv` says for each call, its request and the history `since` what they have
  in common (`Admitted`): the request carries the caller's token and the workspace it
  selected, and each SELECT it has passed is a right that has held since it was sent; and
  how far `save_and_link_to_hub` has come with the text, the summary and the link, each of
  which is stored once the tool has gone on to the next (`Linking`).
- Cleanup and resolution.  An archive is planned in one statement and written in a later
  one.  `SInv` adds to `CInv` that a cleanup only looks at old items and that those it is
  to archive have no pending escalation but one it is expiring itself (`SparingOK`); it is
  preserved because escalations are raised by saves and a save never works on an old item.
- Current state, of any traffic.  `IInv` says of a resolver that the item it makes current
  has no other identity, and that the rows it has locked and the item it read as previous
  are of its own (`OfOneIdentity`); reconcile jobs included.  With one worker, `OneInv` adds that
  an identity has one active anchor at most and that a resolver about to supersede has
  locked it (`Replacing`).  Each step then maps to a replacement in the register or to
  none.
- Plan.  Every proposal has a rank, the number of proposals before it, different for each
  (`RanksGrow`, `Earlier`), and the plan is those of rank below the cap.  If a pair with enough
  evidence is missing, its proposal was merged into one at least as strong
  (`MergedCovers`), or the plan is full and everything in it ranks before (`LeftOut`).
  `PlannedFromReads` ties the plan to what the run has read.  All of it is about finite
  sets of pairs, hence the assumption that there are finitely many hubs.
- Walks.  A walk is a recursive function of the depth.  That there is one for every depth
  is shown by the least depth for which there is none (`WalkExists`), and what it reaches by the
  least step at which it fails; so the proof needs no induction theorem.  A walk that
  has not met the limit has come to its end, a decision without the link.
  `ReplacedIsMarked` says that a decision with a successor is superseded unless it was
  revived by hand, which the conflict list then relies on.
- Records.  `RecordsInv` says of each client how far its transaction has come and that it
  belongs to a call that waits for it (`Owned`), and that every event has the number of its
  call (`Apart`).  `RecordStore` is implemented under a mapping of the tables alone
  (`TextsAt`, `Told`): a put or an append takes effect at its COMMIT, a read at the statement
  whose rows it answers, and a COMMIT whose answer is lost is the contract's `GetsLost`.
- Circuit.  `CircuitInv` bounds every time anybody holds by the last opening and says of
  each call what it has taken over at the place it is at.  `CauseInv` says that no list,
  in memory or in the hands of a call, is longer than the failures the process has had;
  and of a process with one thread that its list is `Within` the window, as of the
  latest failure, of those since the last success.  The latter needs `WithinWithin`, that
  filtering twice is filtering by the later time, shown like the walks.
- Breaker.  The order of the events is that of how many precede each (`RankOf`), which
  takes every value once (`OrderedIs`).  `Sound` says of the circuit after some of the
  events, those before any other, that it is shut since a failure or an outage no reset
  has followed; that each event which is to shut it for good (`Firm`) has, and that it was
  last opened no earlier; and that a failure nothing has ended (`Lasting`) is counted
  until it is out of the window.  `SoundStep` is one event, of each kind.  The last is
  what makes a burst long enough: all that belongs to it is in the set when its latest
  failure is counted.
- Reports.  About embeddings, `ReportInv` ties each report to the rows it was made of, and the
  rest is that the first cause that holds of a row decides (`StateOfFirstCause`).
  About types, `ClassifyInv` says each verdict is that of the content; two winners in two orders
  have one score, and everything else is a function of the score.  About the graph,
  `SnapshotInv` says what a snapshot has once some of its tables are read (`Gathered`): all
  the items there were at the start, and with the chunks nothing less than what was
  searchable all along and nothing more than what ever was.  Items are never deleted, so
  an item that was read is still there when its chunks are.

- Flows.  `OfferInv` says that finitely many records have a home, that a listing has one
  record of each content, and that the evidence of a flow is what the packer makes of what
  it listed.  `Better` is a strict order of the records (`BetterOrders`), so each has a
  rank, the number of those before it, and the packer takes it unless that number, or the
  size of what it has taken, has reached a limit; which is the exception of the property.
- Health.  The invariant is that every snapshot has all its tables, typed, however torn
  (`AlwaysWhole`); the rest is about any such snapshot (`HealthIs`).  `ComponentIs` shows
  that the search from a node finds a connected set and that no connected set goes beyond
  it, by the least round at which it would fail; `LargestIs` that the largest of those is
  what is reported.  That an embedding costs nothing goes through the formula
  from the inside (`QuotientGrows`, `RoundGrows`, `ShareGrows`, `VectorGrows`,
  `BonusGrows`): every share, rounding, cap and bonus keeps the order.
- Search.  `UnderWay` says of a search that its history is up to date with the tables,
  that every row it holds is of an item that was in scope and shows a text if that item is
  due (`Fits`), that no item is missing that was due by a way already gone, as long as no
  LIMIT was reached (`NothingMissing`), and that the hub an item is due by is still to be
  asked for or is the one that was found (`OnTheWay`).  A SELECT below its LIMIT returns
  all it ought to (`LexicalIs`, `NearestIs`, `HubRowsAre`), the merges lose no item and the
  sorts no row (`AddResultsIs`, `AdmitIs`, `AddNewItemsIs`, `SortedByIs`), and what has a
  text reaches the evidence (`EvidenceIs`).  Sorts are stated by how many come before
  (`Arranged`), which takes every place once (`ArrangedIs`, from `PlaceGrows`).

Every safety property that the runs check and that holds is stated by a theorem.  Only
model-checked are the liveness properties (`RequestsEnd`, `MissingIsEmbedded`, `RunsEnd`):
liveness is out of the prover's reach.  `AtMostOneActive`,
`EscalationResolvedOnce` and `NoDuplicateRelation` are the properties that do not hold.

## 6. Not modelled

Left out inside the modelled components:

- rows without a workspace; the text of items, decisions and events; topic tags and
  domains beyond the statement that writes them; the wording and pagination of answers;
  dry runs; the policy file behind the thresholds;
- of the tool server, the schemas and the layout of answers, the hashing of keys and the
  content of the audit event; of the hub graph, the creation of hubs and the term graph made of
  them (`hub_term_graph.py`);
- of retrieval, the `consult_hub_graph` of the reasoning endpoints, the metrics of debug mode, the
  similar-content and preview endpoints, and `min_confidence` and `graph_boost`, of which
  the first is in `Adjacent` and the second at its default;
- of persistence, record references, metadata and the choice of backend, and the table
  of status transitions, which no backend consults;
- liveness of `IngestPipeline` and `McpAccess`: their runs state safety without fairness.

Left out altogether:

- the conflict detector, the scorers of ingestion, the other keyword classifiers and the extraction:
  tables of words and weights applied to a text, without state; their verdicts are
  choices of the modules that call them;
- context packs: a text rendered from supplied sections; the packing of the hand-offs is
  in `PromptFlow`;
- reasoning and answers: assembly, validation and rendering of a provider's output;
- providers: HTTP clients, whose failures are choices in the modules that call them;
- bootstrap, smoke scripts and wrappers; the migrations' constraints appear as guards.
