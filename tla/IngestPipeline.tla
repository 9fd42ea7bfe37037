--------------------------- MODULE IngestPipeline ---------------------------
(***************************************************************************)
(* Saving and classifying content in one workspace.  A save is a row of    *)
(* transactions: the INSERT of the item, its tier, its chunks (the only    *)
(* place the body is kept), its classification.  The process can die       *)
(* between any two of them.  A batch runs one save after the other.  The   *)
(* catch-up job classifies items whose memory_type is still NULL, while    *)
(* saves are going on.                                                     *)
(*                                                                         *)
(* A unique index on (workspace_id, content_hash) gives each body at most  *)
(* one item, so a body stands for its item.  Classification is modelled    *)
(* statement by statement: each UPDATE takes its own snapshot, waits for   *)
(* row locks, and looks at a row again once it has it.                     *)
(***************************************************************************)
EXTENDS Integers, Sequences

CONSTANTS Bodies, Types, Workers, NoBody, NoType,
          Batches,      \* sequences of bodies a request can carry
          Traffic,      \* the kinds of requests that arrive
          MaxRequests   \* bound: requests begun in a behaviour

ASSUME NullAssumption == NoBody \notin Bodies /\ NoType \notin Types
ASSUME TrafficAssumption == Traffic \subseteq {"save", "promotion", "catchup"}
ASSUME BatchAssumption == Batches \subseteq Seq(Bodies)
ASSUME BoundAssumption == MaxRequests \in Nat

VARIABLES row,    \* content_items
          hist,   \* cb_classification_history, in commit order
          told,   \* what callers have been answered about each body
          req,    \* what each worker is doing, with its local variables
          begun   \* requests begun so far

vars == <<row, hist, told, req, begun>>

-----------------------------------------------------------------------------
\* body: the chunks are stored; type: memory_type.
Row == [stored : BOOLEAN, tiered : BOOLEAN, body : BOOLEAN,
        type : Types \cup {NoType}]

NoRow == [stored |-> FALSE, tiered |-> FALSE, body |-> FALSE, type |-> NoType]

Version(kind) ==
  IF kind = "promotion" THEN "trusted_current_state_v1" ELSE "heuristic_v1"

Classification == [body : Bodies, type : Types,
                   version : {"trusted_current_state_v1", "heuristic_v1"},
                   active : BOOLEAN]

Answers == {"created", "duplicate", "discarded"}

Kinds == {"none", "save", "promotion", "catchup"}

SaveSteps == {"dedup", "insert", "tier", "chunks", "look", "answer"}

CatchUpSteps == {"pick", "check", "catchupLook", "fill"}

\* The statements both kinds of classification share.
WriteSteps == {"write", "retire", "retiring", "domain", "commit"}

Steps == {"idle"} \cup SaveSteps \cup CatchUpSteps \cup WriteSteps

\* wrote: the UPDATE of memory_type matched; lock: the content row is locked;
\* scan: history rows the UPDATE still has to lock; held: those it has locked.
Idle == [step |-> "idle", kind |-> "none", queue |-> <<>>, todo |-> {},
         body |-> NoBody, type |-> NoType, wrote |-> FALSE, lock |-> FALSE,
         scan |-> {}, held |-> {}]

Request == [step : Steps, kind : Kinds, queue : Seq(Bodies), todo : SUBSET Bodies,
            body : Bodies \cup {NoBody}, type : Types \cup {NoType},
            wrote : BOOLEAN, lock : BOOLEAN, scan : SUBSET Nat, held : SUBSET Nat]

Finish(w) == req' = [req EXCEPT ![w] = Idle]

Begin(w, r) ==
  /\ req[w].step = "idle"
  /\ begun < MaxRequests
  /\ begun' = begun + 1
  /\ req' = [req EXCEPT ![w] = r]

Goto(w, step) == req' = [req EXCEPT ![w].step = step]

\* The rest of a batch; everything local to the item is forgotten.
NextInBatch(r) == [Idle EXCEPT !.step = "dedup", !.kind = r.kind, !.queue = r.queue]

NextCandidate(r) == [Idle EXCEPT !.step = "pick", !.kind = r.kind, !.todo = r.todo]

Answer(w, answer) ==
  /\ told' = [told EXCEPT ![req[w].body] = @ \cup {answer}]
  /\ req' = [req EXCEPT ![w] = NextInBatch(@)]

-----------------------------------------------------------------------------
(* create_content_minimal.                                                 *)

SaveStart(w, batch) ==
  /\ "save" \in Traffic
  /\ Begin(w, [Idle EXCEPT !.step = "dedup", !.kind = "save", !.queue = batch])
  /\ UNCHANGED <<row, hist, told>>

\* A trusted promotion is a save of one body that is neither deduplicated nor
\* discarded.
PromotionStart(w, b) ==
  /\ "promotion" \in Traffic
  /\ Begin(w, [Idle EXCEPT !.step = "dedup", !.kind = "promotion", !.queue = <<b>>])
  /\ UNCHANGED <<row, hist, told>>

\* A body that has an item is answered as a duplicate, whatever became of it.
SaveDedup(w) ==
  LET r == req[w]
      b == Head(r.queue)
      rest == [r EXCEPT !.queue = Tail(@)]
  IN
  /\ r.step = "dedup"
  /\ r.queue # <<>>
  /\ IF r.kind = "save" /\ row[b].stored
     THEN /\ told' = [told EXCEPT ![b] = @ \cup {"duplicate"}]
          /\ req' = [req EXCEPT ![w] = NextInBatch(rest)]
     ELSE /\ req' = [req EXCEPT ![w] = [rest EXCEPT !.step = "insert", !.body = b]]
          /\ UNCHANGED told
  /\ UNCHANGED <<row, hist, begun>>

SaveEnd(w) ==
  /\ req[w].step = "dedup"
  /\ req[w].queue = <<>>
  /\ Finish(w)
  /\ UNCHANGED <<row, hist, told, begun>>

\* Scored and routed to the discard tier.
SaveDiscard(w) ==
  /\ req[w].step = "insert"
  /\ req[w].kind = "save"
  /\ Answer(w, "discarded")
  /\ UNCHANGED <<row, hist, begun>>

SaveInsert(w) ==
  /\ req[w].step = "insert"
  /\ ~row[req[w].body].stored
  /\ row' = [row EXCEPT ![req[w].body].stored = TRUE]
  /\ Goto(w, "tier")
  /\ UNCHANGED <<hist, told, begun>>

\* Another save of the body was faster: the unique index refuses this one.
SaveRefused(w) ==
  /\ req[w].step = "insert"
  /\ row[req[w].body].stored
  /\ req' = [req EXCEPT ![w] = NextInBatch(@)]
  /\ UNCHANGED <<row, hist, told, begun>>

SaveTier(w) ==
  /\ req[w].step = "tier"
  /\ row' = [row EXCEPT ![req[w].body].tiered = TRUE]
  /\ Goto(w, "chunks")
  /\ UNCHANGED <<hist, told, begun>>

\* Defect: chunking is best effort like the classification after it.
SaveChunks_BestEffort(w) ==
  /\ req[w].step = "chunks"
  /\ \/ row' = [row EXCEPT ![req[w].body].body = TRUE]
     \/ UNCHANGED row
  /\ Goto(w, "look")
  /\ UNCHANGED <<hist, told, begun>>

SaveChunks(w) ==
  /\ req[w].step = "chunks"
  /\ row' = [row EXCEPT ![req[w].body].body = TRUE]
  /\ Goto(w, "look")
  /\ UNCHANGED <<hist, told, begun>>

\* One of these transactions raises for another reason, a lost connection.
\* The item fails, the batch goes on, nothing is undone.
SaveFails(w) ==
  LET r == req[w] IN
  /\ \/ /\ r.step \in {"insert", "tier", "chunks"}
        /\ req' = [req EXCEPT ![w] = NextInBatch(r)]
     \/ /\ r.step = "dedup" /\ r.queue # <<>>
        /\ req' = [req EXCEPT ![w].queue = Tail(@)]
  /\ UNCHANGED <<row, hist, told, begun>>

\* The classification is best effort: T4 to T6 follow, and the answer.
SaveAnswer(w) ==
  /\ req[w].step = "answer"
  /\ Answer(w, "created")
  /\ UNCHANGED <<row, hist, begun>>

-----------------------------------------------------------------------------
(* The catch-up job.                                                       *)

\* Up to a limit, the unclassified items that have text to classify; those
\* without are skipped.
CatchUpSelect(w, S) ==
  /\ "catchup" \in Traffic
  /\ \A b \in S : row[b].stored /\ row[b].type = NoType /\ row[b].body
  /\ Begin(w, [Idle EXCEPT !.step = "pick", !.kind = "catchup", !.todo = S])
  /\ UNCHANGED <<row, hist, told>>

\* The verdict is computed from the chunks; it may differ from the save's.
CatchUpPick(w, b, t) ==
  /\ req[w].step = "pick"
  /\ b \in req[w].todo
  /\ req' = [req EXCEPT ![w].step = "check", ![w].todo = @ \ {b},
                        ![w].body = b, ![w].type = t]
  /\ UNCHANGED <<row, hist, told, begun>>

CatchUpEnd(w) ==
  /\ req[w].step = "pick"
  /\ req[w].todo = {}
  /\ Finish(w)
  /\ UNCHANGED <<row, hist, told, begun>>

CatchUpCheck(w) ==
  /\ req[w].step = "check"
  /\ IF row[req[w].body].type = NoType
     THEN Goto(w, "catchupLook")
     ELSE req' = [req EXCEPT ![w] = NextCandidate(@)]
  /\ UNCHANGED <<row, hist, told, begun>>

-----------------------------------------------------------------------------
(* Writing a classification: _run_classify_and_write (T3) of a save and    *)
(* _write_classification of the catch-up.                                  *)

OnRecord(r) ==
  \E h \in DOMAIN hist :
    /\ hist[h].active
    /\ hist[h].body = r.body /\ hist[h].type = r.type
    /\ hist[h].version = Version(r.kind)

\* T3 classifies, and writes nothing if its verdict is already active.
SaveLook(w, t) ==
  LET r == [req[w] EXCEPT !.type = t] IN
  /\ r.step = "look"
  /\ req' = [req EXCEPT ![w] =
               [r EXCEPT !.step = IF OnRecord(r) THEN "answer" ELSE "write"]]
  /\ UNCHANGED <<row, hist, told, begun>>

CatchUpLook(w) ==
  /\ req[w].step = "catchupLook"
  /\ Goto(w, IF OnRecord(req[w]) THEN "fill" ELSE "write")
  /\ UNCHANGED <<row, hist, told, begun>>

RowFree(w, b) == \A v \in Workers \ {w} : ~(req[v].lock /\ req[v].body = b)

\* Defect: the catch-up's UPDATE has no "AND memory_type IS NULL".
Matches_Always(r) == r.kind \in Kinds

\* A save updates the row unconditionally, the catch-up if it is unclassified.
Matches(r) == r.kind = "catchup" => row[r.body].type = NoType

\* The active row is there already: only the column is filled in.
CatchUpFill(w) ==
  LET r == req[w] IN
  /\ r.step = "fill"
  /\ Matches(r) => RowFree(w, r.body)
  /\ row' = IF Matches(r) THEN [row EXCEPT ![r.body].type = r.type] ELSE row
  /\ req' = [req EXCEPT ![w] = NextCandidate(@)]
  /\ UNCHANGED <<hist, told, begun>>

WriteType(w) ==
  LET r == req[w] IN
  /\ r.step = "write"
  /\ Matches(r) => RowFree(w, r.body)
  /\ req' = [req EXCEPT ![w].step = "retire", ![w].wrote = Matches(r),
                        ![w].lock = Matches(r)]
  /\ UNCHANGED <<row, hist, told, begun>>

ActiveRows(b) == {h \in DOMAIN hist : hist[h].body = b /\ hist[h].active}

RetireScan(w) ==
  /\ req[w].step = "retire"
  /\ req' = [req EXCEPT ![w].step = "retiring", ![w].scan = ActiveRows(req[w].body)]
  /\ UNCHANGED <<row, hist, told, begun>>

Retire(w, h) ==
  /\ req[w].step = "retiring"
  /\ h \in req[w].scan
  /\ \A v \in Workers \ {w} : h \notin req[v].held
  /\ req' = [req EXCEPT ![w].scan = @ \ {h},
                        ![w].held = IF hist[h].active THEN @ \cup {h} ELSE @]
  /\ UNCHANGED <<row, hist, told, begun>>

\* A confident classification with a domain updates the content row again.
Retired(w) ==
  /\ req[w].step = "retiring"
  /\ req[w].scan = {}
  /\ \E next \in {"domain", "commit"} : Goto(w, next)
  /\ UNCHANGED <<row, hist, told, begun>>

WriteDomain(w) ==
  /\ req[w].step = "domain"
  /\ RowFree(w, req[w].body)
  /\ req' = [req EXCEPT ![w].step = "commit", ![w].lock = TRUE]
  /\ UNCHANGED <<row, hist, told, begun>>

Retiring(r) ==
  [h \in DOMAIN hist |-> [hist[h] EXCEPT !.active = @ /\ h \notin r.held]]

\* Defect: the column is committed, the history row is lost.
Recorded_Nothing(r) == Retiring(r)

\* The rows it retired, and its own.
Recorded(r) ==
  Append(Retiring(r), [body |-> r.body, type |-> r.type,
                       version |-> Version(r.kind), active |-> TRUE])

\* A save goes on to its answer, the catch-up to its next candidate.
AfterWrite(r) ==
  IF r.kind = "catchup" THEN NextCandidate(r)
  ELSE [NextInBatch(r) EXCEPT !.step = "answer", !.body = r.body]

Commit(w) ==
  LET r == req[w] IN
  /\ r.step = "commit"
  /\ row' = IF r.wrote THEN [row EXCEPT ![r.body].type = r.type] ELSE row
  /\ hist' = Recorded(r)
  /\ req' = [req EXCEPT ![w] = AfterWrite(r)]
  /\ UNCHANGED <<told, begun>>

\* The classifier or a statement fails, or PostgreSQL breaks a deadlock: the
\* transaction rolls back, a save is answered all the same, and the catch-up
\* goes on with the next candidate.
ClassifyFails(w) ==
  LET r == req[w] IN
  /\ r.step \in WriteSteps \cup {"look", "check", "catchupLook", "fill"}
  /\ req' = [req EXCEPT ![w] = AfterWrite(r)]
  /\ UNCHANGED <<row, hist, told, begun>>

-----------------------------------------------------------------------------
\* The process dies, or the job is stopped: its open transaction rolls back.
Crash(w) ==
  /\ req[w].step # "idle"
  /\ Finish(w)
  /\ UNCHANGED <<row, hist, told, begun>>

Init ==
  /\ row = [b \in Bodies |-> NoRow]
  /\ hist = <<>>
  /\ told = [b \in Bodies |-> {}]
  /\ req = [w \in Workers |-> Idle]
  /\ begun = 0

Start(w) ==
  \/ \E batch \in Batches : SaveStart(w, batch)
  \/ \E b \in Bodies : PromotionStart(w, b)
  \/ \E S \in SUBSET Bodies : CatchUpSelect(w, S)

Proceed(w) ==
  \/ SaveDedup(w) \/ SaveEnd(w) \/ SaveDiscard(w) \/ SaveInsert(w)
  \/ SaveRefused(w) \/ SaveTier(w) \/ SaveChunks(w) \/ SaveAnswer(w)
  \/ \E b \in Bodies, t \in Types : CatchUpPick(w, b, t)
  \/ CatchUpEnd(w) \/ CatchUpCheck(w) \/ CatchUpLook(w) \/ CatchUpFill(w)
  \/ \E t \in Types : SaveLook(w, t)
  \/ WriteType(w) \/ RetireScan(w)
  \/ \E h \in DOMAIN hist : Retire(w, h)
  \/ Retired(w) \/ WriteDomain(w) \/ Commit(w)

Next ==
  \E w \in Workers :
    Start(w) \/ Proceed(w) \/ SaveFails(w) \/ ClassifyFails(w) \/ Crash(w)

Spec == Init /\ [][Next]_vars

-----------------------------------------------------------------------------
(* Properties.                                                             *)

\* Type invariant: every variable has the shape of its columns or locals.
TypeOK ==
  /\ row \in [Bodies -> Row]
  /\ hist \in Seq(Classification)
  /\ told \in [Bodies -> SUBSET Answers]
  /\ req \in [Workers -> Request]
  /\ begun \in 0 .. MaxRequests

\* A save answered as created has stored the item, its tier and its body:
\* no best-effort step stands between the caller and the body.
CreatedIsWhole ==
  \A b \in Bodies :
    "created" \in told[b] => row[b].stored /\ row[b].tiered /\ row[b].body

\* Classified and on record go together: an item has a memory_type exactly if
\* it has classifications, one of them is active, and one of them named the
\* type it has, although the column and the history are written by
\* transactions that pass one another.
ClassifiedOnRecord ==
  \A b \in Bodies :
    LET mine == {h \in DOMAIN hist : hist[h].body = b} IN
    /\ row[b].type = NoType <=> mine = {}
    /\ row[b].type # NoType =>
         /\ \E h \in mine : hist[h].active
         /\ \E h \in mine : hist[h].type = row[b].type

\* The catch-up fills in what is missing and never replaces a memory_type,
\* whatever was classified between its SELECT and its UPDATE.
CatchUpNeverReclassifies ==
  [][\A b \in Bodies :
       row[b].type # NoType /\ row'[b].type # row[b].type =>
         \E w \in Workers : /\ req[w].body = b /\ req[w].step = "commit"
                            /\ req[w].kind \in {"save", "promotion"}]_vars

=============================================================================
