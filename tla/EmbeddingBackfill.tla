-------------------------- MODULE EmbeddingBackfill --------------------------
(***************************************************************************)
(* scripts/embedding_backfill.py: runs that fill in the embeddings missing *)
(* from content_chunks, several at once, beside saves that add chunks.     *)
(*                                                                         *)
(* A run lists the chunks without an embedding once, asks the provider for *)
(* each in turn, updates the row of each answer and commits a batch at a   *)
(* time.  A chunk is its position in the order the list is sorted by; its  *)
(* text and vector are left out.  An UPDATE keeps its row locked until the *)
(* batch ends, and what it wrote is visible from then on.                  *)
(***************************************************************************)
EXTENDS Naturals, FiniteSets

CONSTANTS
  Bodies,      \* the items to be saved: disjoint sets of chunks
  Refused,     \* chunks the provider never embeds (degraded answer, exception)
  Runners,     \* processes of the script
  BatchSize,   \* --batch-size
  Limit,       \* --limit, 0 for none
  MaxCrashes   \* bound: runs that break off

Chunks == UNION Bodies

ASSUME ChunksAssumption == Chunks \subseteq Nat /\ Refused \subseteq Chunks
ASSUME BatchAssumption == BatchSize \in Nat \ {0}
ASSUME LimitAssumption == Limit \in Nat /\ MaxCrashes \in Nat

VARIABLES
  chunk,    \* committed embedding_status of each chunk, "absent" before its INSERT
  run,      \* the runs' local variables
  crashes   \* runs broken off so far

vars == <<chunk, run, crashes>>

Run ==
  [step : {"idle", "embed", "update", "commit", "ended"},
   listed : SUBSET Chunks,    \* the rows of the SELECT
   todo : SUBSET Chunks,      \* of these, not yet asked for or written
   asked : SUBSET Chunks,     \* the chunk whose vector has come, if any
   taken : 0 .. BatchSize,    \* chunks of the current batch already dealt with
   held : SUBSET Chunks,      \* rows written, not committed
   failed : SUBSET Chunks]    \* chunks the provider did not embed

Idle ==
  [step |-> "idle", listed |-> {}, todo |-> {}, asked |-> {}, taken |-> 0,
   held |-> {}, failed |-> {}]

\* Defect: the SELECT has no ORDER BY.
First_AnyOrder(c, S) == c \in S

\* The row order of the SELECT: content_id, then chunk_index.
First(c, S) == c \in S /\ \A d \in S : c <= d
Before(c, S) == {d \in S : d < c}

-----------------------------------------------------------------------------
(* A save commits the chunks of an item, each with an embedding or without. *)

SaveBody(B, embedded) ==
  /\ \A c \in B : chunk[c] = "absent"
  /\ embedded \subseteq B \ Refused
  /\ chunk' = [c \in Chunks |->
                 CASE c \in embedded -> "embedded"
                   [] c \in B \ embedded -> "missing"
                   [] OTHER -> chunk[c]]
  /\ UNCHANGED <<run, crashes>>

-----------------------------------------------------------------------------
(* A run.                                                                  *)

\* Defect: the SELECT does not look at the status.
Eligible_AnyStatus == {c \in Chunks : chunk[c] # "absent"}

\* A failure writes nothing: the status of a refused chunk stays NULL.
Eligible == {c \in Chunks : chunk[c] = "missing"}
Listed ==
  IF Limit = 0 THEN Eligible
  ELSE {c \in Eligible : Cardinality(Before(c, Eligible)) < Limit}

\* The run found rows, or ends at once.
Scan(r) ==
  /\ run[r].step \in {"idle", "ended"}
  /\ run' = [run EXCEPT ![r] =
               [Idle EXCEPT !.step = IF Listed = {} THEN "ended" ELSE "embed",
                            !.listed = Listed, !.todo = Listed]]
  /\ UNCHANGED <<chunk, crashes>>

\* Defect: the rows left after the last full batch are not committed.
StepAfter_FullBatches(todo, taken) ==
  CASE taken = BatchSize -> "commit"
    [] taken # BatchSize /\ todo = {} -> "ended"
    [] OTHER -> "embed"

\* The batch goes on to its next chunk, or to its COMMIT.
StepAfter(todo, taken) ==
  IF todo = {} \/ taken = BatchSize THEN "commit" ELSE "embed"

Dealt(u, c) ==
  [u EXCEPT !.todo = @ \ {c}, !.asked = {}, !.taken = @ + 1,
            !.step = StepAfter(u.todo \ {c}, u.taken + 1)]

Accept(r, c) ==
  /\ run[r].step = "embed"
  /\ First(c, run[r].todo)
  /\ c \notin Refused
  /\ run' = [run EXCEPT ![r].step = "update", ![r].asked = {c}]
  /\ UNCHANGED <<chunk, crashes>>

Refuse(r, c) ==
  /\ run[r].step = "embed"
  /\ First(c, run[r].todo)
  /\ run' = [run EXCEPT ![r] = [Dealt(run[r], c) EXCEPT !.failed = @ \cup {c}]]
  /\ UNCHANGED <<chunk, crashes>>

RowFree(r, c) == \A u \in Runners \ {r} : c \notin run[u].held

\* UPDATE ... WHERE chunk_id: waits for the row, and does not look at its status.
Update(r, c) ==
  /\ run[r].step = "update"
  /\ c \in run[r].asked
  /\ RowFree(r, c)
  /\ run' = [run EXCEPT ![r] = [Dealt(run[r], c) EXCEPT !.held = @ \cup {c}]]
  /\ UNCHANGED <<chunk, crashes>>

StepAfterCommit(todo) == IF todo = {} THEN "ended" ELSE "embed"

Commit(r) ==
  /\ run[r].step = "commit"
  /\ chunk' = [c \in Chunks |-> IF c \in run[r].held THEN "embedded" ELSE chunk[c]]
  /\ run' = [run EXCEPT ![r].step = StepAfterCommit(run[r].todo),
                        ![r].held = {}, ![r].taken = 0]
  /\ UNCHANGED crashes

\* The process or its connection dies; PostgreSQL rolls the batch back.
Crash(r) ==
  /\ run[r].step \in {"embed", "update", "commit"}
  /\ crashes < MaxCrashes
  /\ crashes' = crashes + 1
  /\ run' = [run EXCEPT ![r] = Idle]
  /\ UNCHANGED chunk

-----------------------------------------------------------------------------
Init ==
  /\ chunk = [c \in Chunks |-> "absent"]
  /\ run = [r \in Runners |-> Idle]
  /\ crashes = 0

Proceed(r) ==
  \/ \E c \in Chunks : Accept(r, c) \/ Refuse(r, c) \/ Update(r, c)
  \/ Commit(r)

Next ==
  \/ \E B \in Bodies : \E embedded \in SUBSET B : SaveBody(B, embedded)
  \/ \E r \in Runners : Scan(r) \/ Proceed(r) \/ Crash(r)

Spec == Init /\ [][Next]_vars

\* The script is started again and again and its process runs; the provider,
\* asked for a chunk over and over, embeds it one day unless it refuses it.
FairSpec ==
  /\ Spec
  /\ \A r \in Runners : WF_vars(Scan(r)) /\ WF_vars(Proceed(r))
  /\ \A c \in Chunks \ Refused : SF_vars(\E r \in Runners : Accept(r, c))

-----------------------------------------------------------------------------
(* Properties.                                                             *)

\* Type invariant; the batch counter is what the COMMIT every BatchSize rests on.
TypeOK ==
  /\ chunk \in [Chunks -> {"absent", "missing", "embedded"}]
  /\ run \in [Runners -> Run]
  /\ crashes \in 0 .. MaxCrashes

\* Run r waits for the COMMIT of run u.
WaitsFor(r, u) ==
  /\ r # u
  /\ run[r].step = "update"
  /\ run[r].asked \cap run[u].held # {}

\* Any number of runs over the same chunks never wait for one another in a
\* circle, since each writes its rows in the order of the list.
NoCircularWait ==
  \A S \in SUBSET Runners :
    S # {} => \E r \in S : \A u \in S : ~ WaitsFor(r, u)

\* A run that ended and reported no failure (exit code 0) left every chunk it
\* listed embedded and committed, those of the last, shorter batch included.
SuccessMeansEmbedded ==
  \A r \in Runners :
    run[r].step = "ended" /\ run[r].failed = {} =>
      \A c \in run[r].listed : chunk[c] = "embedded"

\* A chunk the list can reach: fewer chunks than the limit are refused before it.
Reachable ==
  {c \in Chunks \ Refused : Limit = 0 \/ Cardinality(Before(c, Refused)) < Limit}

\* Every such chunk saved without an embedding gets one in the end, whatever
\* else is saved, fails, crashes or is embedded by another run meanwhile.
MissingIsEmbedded ==
  \A c \in Reachable : chunk[c] = "missing" ~> chunk[c] = "embedded"
=============================================================================
