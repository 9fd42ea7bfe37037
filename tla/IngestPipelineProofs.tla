------------------------ MODULE IngestPipelineProofs ------------------------
(***************************************************************************)
(* Proofs about IngestPipeline, for any bodies, types, workers and batches *)
(* and any number of requests: types, that a save answered as created is   *)
(* whole, that types and history agree, and that the catch-up replaces no  *)
(* type.                                                                   *)
(***************************************************************************)
EXTENDS IngestPipeline, SequenceTheorems, TLAPS

\* The statements after the UPDATE of memory_type.
Writing == {"retire", "retiring", "domain", "commit"}

\* Where a request is says what its local variables hold.
Shape(r) ==
  /\ r.step \in SaveSteps => r.kind \in {"save", "promotion"}
  /\ r.step \in CatchUpSteps => r.kind = "catchup"
  /\ r.step \in WriteSteps => r.kind # "none"
  /\ r.step \notin {"idle", "dedup", "pick"} => r.body \in Bodies
  /\ r.step \in WriteSteps \cup {"check", "catchupLook", "fill"} => r.type \in Types
  /\ r.step \notin Writing => ~r.wrote /\ ~r.lock
  /\ r.wrote => r.lock
  /\ r.step \notin {"retiring", "domain", "commit"} => r.scan = {} /\ r.held = {}

Shapes == TypeOK /\ \A w \in Workers : Shape(req[w])

Whole(b, R) == R[b].stored /\ R[b].tiered /\ R[b].body

\* What a request knows of the rows R and the history H.
Known(r, R, H) ==
  /\ r.step = "tier" => R[r.body].stored
  /\ r.step = "chunks" => R[r.body].stored /\ R[r.body].tiered
  /\ r.step \in {"look", "answer"} => Whole(r.body, R)
  /\ r.step \in WriteSteps /\ r.kind # "catchup" => Whole(r.body, R)
  /\ r.step = "fill" => \E h \in DOMAIN H : H[h].body = r.body
  /\ r.step \in Writing /\ ~r.wrote => R[r.body].type # NoType
  /\ r.wrote /\ r.kind = "catchup" => R[r.body].type = NoType
  /\ \A h \in r.scan \cup r.held : h \in DOMAIN H /\ H[h].body = r.body

LocksApart ==
  \A v, w \in Workers : v # w => ~ (req[v].lock /\ req[w].lock /\ req[v].body = req[w].body)

IInv ==
  /\ Shapes
  /\ \A w \in Workers : Known(req[w], row, hist)
  /\ LocksApart
  /\ CreatedIsWhole
  /\ ClassifiedOnRecord

\* Nothing stored is lost, no type becomes NULL again, no verdict is rewritten.
Grown ==
  /\ \A b \in Bodies :
       /\ row[b].stored => row'[b].stored
       /\ row[b].tiered => row'[b].tiered
       /\ row[b].body => row'[b].body
       /\ row[b].type # NoType => row'[b].type # NoType
  /\ DOMAIN hist \subseteq DOMAIN hist'
  /\ \A h \in DOMAIN hist : hist'[h].body = hist[h].body /\ hist'[h].type = hist[h].type

-----------------------------------------------------------------------------
(* One request changes.                                                    *)

LEMMA IdleRequest == Idle \in Request /\ Shape(Idle) /\ \A R, H : Known(Idle, R, H)
BY DEF Idle, Request, Steps, Kinds, Shape, SaveSteps, CatchUpSteps, WriteSteps, Writing, Known

LEMMA InitInv == Init => IInv
<1> SUFFICES ASSUME Init PROVE IInv
  OBVIOUS
<1>1. NoRow \in Row
  BY DEF NoRow, Row
<1>2. TypeOK
  BY <1>1, IdleRequest, BoundAssumption DEF Init, TypeOK
<1>3. \A w \in Workers : Shape(req[w]) /\ Known(req[w], row, hist)
  BY IdleRequest DEF Init
<1>4. LocksApart
  BY DEF Init, LocksApart, Idle
<1>5. CreatedIsWhole
  BY DEF Init, CreatedIsWhole
<1>6. ClassifiedOnRecord
  <2>1. DOMAIN hist = {}
    BY DEF Init
  <2> QED
    BY <2>1 DEF Init, ClassifiedOnRecord, NoRow
<1> QED
  BY <1>2, <1>3, <1>4, <1>5, <1>6 DEF IInv, Shapes

LEMMA RequestTypes ==
  ASSUME IInv, NEW w \in Workers
  PROVE  req[w] \in Request /\ Shape(req[w]) /\ Known(req[w], row, hist)
BY DEF IInv, Shapes, TypeOK

\* Whoever holds a lock holds it alone.
LEMMA LockIsMine ==
  ASSUME IInv, NEW w \in Workers, req[w].lock
  PROVE  RowFree(w, req[w].body)
BY DEF IInv, LocksApart, RowFree

\* What another request knows stays true.
LEMMA OthersKnow ==
  ASSUME IInv, NEW w \in Workers, NEW u \in Workers \ {w}, Grown,
         \A b \in Bodies : row'[b].type # row[b].type => RowFree(w, b)
  PROVE  Known(req[u], row', hist')
<1> DEFINE r == req[u]
<1>1. r \in Request /\ Shape(r) /\ Known(r, row, hist)
  BY RequestTypes
<1>2. r.lock /\ r.body \in Bodies => row'[r.body].type = row[r.body].type
  BY DEF RowFree
<1>3. r.wrote => r.lock /\ r.step \in Writing
  BY <1>1 DEF Shape, Writing, Request
<1>4. r.step \in WriteSteps \cup {"tier", "chunks", "look", "answer", "fill"} \cup Writing
        => r.body \in Bodies
  BY <1>1 DEF Shape, WriteSteps, Writing
<1> HIDE DEF r
<1>5. /\ r.step = "tier" => row'[r.body].stored
      /\ r.step = "chunks" => row'[r.body].stored /\ row'[r.body].tiered
      /\ r.step \in {"look", "answer"} => Whole(r.body, row')
      /\ r.step \in WriteSteps /\ r.kind # "catchup" => Whole(r.body, row')
  BY <1>1, <1>4 DEF Known, Whole, Grown
<1>6. r.step = "fill" => \E h \in DOMAIN hist' : hist'[h].body = r.body
  BY <1>1 DEF Known, Grown
<1>7. r.step \in Writing /\ ~r.wrote => row'[r.body].type # NoType
  BY <1>1, <1>4 DEF Known, Grown
<1>8. r.wrote /\ r.kind = "catchup" => row'[r.body].type = NoType
  BY <1>1, <1>2, <1>3, <1>4 DEF Known
<1>9. \A h \in r.scan \cup r.held : h \in DOMAIN hist' /\ hist'[h].body = r.body
  BY <1>1 DEF Known, Grown
<1> QED
  BY <1>5, <1>6, <1>7, <1>8, <1>9 DEF Known, r

\* What a step has to show of the one request it changes.
LEMMA OneRequest ==
  ASSUME IInv, NEW w \in Workers, NEW v \in Request, Shape(v),
         req' = [req EXCEPT ![w] = v],
         row' \in [Bodies -> Row], hist' \in Seq(Classification),
         told' \in [Bodies -> SUBSET Answers], begun' \in 0 .. MaxRequests,
         Grown, \A b \in Bodies : row'[b].type # row[b].type => RowFree(w, b),
         v.lock => RowFree(w, v.body), Known(v, row', hist'),
         CreatedIsWhole', ClassifiedOnRecord'
  PROVE  IInv'
<1>1. /\ req' \in [Workers -> Request] /\ req'[w] = v
      /\ \A u \in Workers \ {w} : req'[u] = req[u]
  BY DEF IInv, Shapes, TypeOK
<1>2. TypeOK'
  BY <1>1 DEF TypeOK
<1>3. \A u \in Workers : Shape(req'[u])
  BY <1>1, RequestTypes
<1>4. \A u \in Workers : Known(req'[u], row', hist')
  BY <1>1, OthersKnow
<1>5. LocksApart'
  <2>1. ASSUME NEW u \in Workers, NEW x \in Workers, u # x,
               req'[u].lock, req'[x].lock, req'[u].body = req'[x].body
        PROVE  FALSE
    <3>1. CASE u = w
      BY <2>1, <3>1, <1>1 DEF RowFree
    <3>2. CASE x = w
      BY <2>1, <3>2, <1>1 DEF RowFree
    <3>3. CASE u # w /\ x # w
      BY <2>1, <3>3, <1>1 DEF IInv, LocksApart
    <3> QED
      BY <3>1, <3>2, <3>3
  <2> QED
    BY <2>1 DEF LocksApart
<1> QED
  BY <1>2, <1>3, <1>4, <1>5 DEF IInv, Shapes

LEMMA QuietStep ==
  ASSUME IInv, NEW w \in Workers, NEW v \in Request, Shape(v), Known(v, row, hist),
         v.lock => RowFree(w, v.body), req' = [req EXCEPT ![w] = v],
         UNCHANGED <<row, hist>>, begun' \in 0 .. MaxRequests,
         told' \in [Bodies -> SUBSET Answers],
         \A b \in Bodies : "created" \in told'[b] => "created" \in told[b] \/ Whole(b, row)
  PROVE  IInv'
<1>1. row' \in [Bodies -> Row] /\ hist' \in Seq(Classification)
  BY DEF IInv, Shapes, TypeOK
<1>2. Grown /\ \A b \in Bodies : row'[b].type # row[b].type => RowFree(w, b)
  BY DEF Grown
<1>3. CreatedIsWhole'
  BY DEF IInv, CreatedIsWhole, Whole
<1>4. ClassifiedOnRecord'
  BY DEF IInv, ClassifiedOnRecord
<1> QED
  BY <1>1, <1>2, <1>3, <1>4, OneRequest

\* ... and when it tells the caller nothing and begins nothing.
LEMMA SilentStep ==
  ASSUME IInv, NEW w \in Workers, NEW v \in Request, Shape(v), Known(v, row, hist),
         v.lock => RowFree(w, v.body), req' = [req EXCEPT ![w] = v],
         UNCHANGED <<row, hist, told, begun>>
  PROVE  IInv'
<1>1. /\ begun' \in 0 .. MaxRequests /\ told' \in [Bodies -> SUBSET Answers]
      /\ \A b \in Bodies : "created" \in told'[b] => "created" \in told[b]
  BY DEF IInv, Shapes, TypeOK
<1> QED
  BY <1>1, QuietStep

\* The records a handler falls back to.
LEMMA Fallbacks ==
  ASSUME NEW r \in Request
  PROVE  /\ NextCandidate(r) \in Request /\ ~NextCandidate(r).lock
         /\ r.kind = "catchup" => Shape(NextCandidate(r))
         /\ \A R, H : Known(NextCandidate(r), R, H)
         /\ NextInBatch(r) \in Request /\ ~NextInBatch(r).lock
         /\ r.kind \in {"save", "promotion"} => Shape(NextInBatch(r))
         /\ \A R, H : Known(NextInBatch(r), R, H)
<1>1. NextCandidate(r) \in Request /\ NextInBatch(r) \in Request
  BY IdleRequest DEF Request, NextCandidate, NextInBatch, Steps, SaveSteps, CatchUpSteps
<1>2. /\ NextCandidate(r).step = "pick" /\ NextInBatch(r).step = "dedup"
      /\ NextCandidate(r).kind = r.kind /\ NextInBatch(r).kind = r.kind
      /\ NextCandidate(r).lock = FALSE /\ NextInBatch(r).lock = FALSE
      /\ NextCandidate(r).wrote = FALSE /\ NextInBatch(r).wrote = FALSE
      /\ NextCandidate(r).scan = {} /\ NextInBatch(r).scan = {}
      /\ NextCandidate(r).held = {} /\ NextInBatch(r).held = {}
  BY DEF NextCandidate, NextInBatch, Idle
<1>3. /\ r.kind = "catchup" => Shape(NextCandidate(r))
      /\ r.kind \in {"save", "promotion"} => Shape(NextInBatch(r))
  BY <1>2 DEF Shape, SaveSteps, CatchUpSteps, WriteSteps, Writing
<1>4. \A R, H : Known(NextCandidate(r), R, H) /\ Known(NextInBatch(r), R, H)
  BY <1>2 DEF Known, WriteSteps, Writing
<1> QED
  BY <1>1, <1>2, <1>3, <1>4

LEMMA AfterWriteFits ==
  ASSUME NEW r \in Request, r.kind # "none", r.body \in Bodies
  PROVE  /\ AfterWrite(r) \in Request /\ Shape(AfterWrite(r)) /\ ~AfterWrite(r).lock
         /\ \A R, H : (r.kind # "catchup" => Whole(r.body, R)) => Known(AfterWrite(r), R, H)
<1>1. CASE r.kind = "catchup"
  BY <1>1, Fallbacks DEF AfterWrite
<1>2. CASE r.kind # "catchup"
  <2> DEFINE v == [NextInBatch(r) EXCEPT !.step = "answer", !.body = r.body]
  <2>1. AfterWrite(r) = v /\ r.kind \in {"save", "promotion"}
    BY <1>2 DEF AfterWrite, Request, Kinds
  <2>2. /\ v \in Request /\ v.step = "answer" /\ v.kind = r.kind /\ v.body = r.body
        /\ v.lock = FALSE /\ v.wrote = FALSE /\ v.scan = {} /\ v.held = {}
    BY Fallbacks DEF Request, NextInBatch, Idle, Steps, SaveSteps
  <2> HIDE DEF v
  <2>3. Shape(v)
    BY <2>1, <2>2 DEF Shape, SaveSteps, CatchUpSteps, WriteSteps, Writing
  <2>4. \A R, H : Whole(r.body, R) => Known(v, R, H)
    BY <2>2 DEF Known, WriteSteps, Writing
  <2> QED
    BY <1>2, <2>1, <2>2, <2>3, <2>4
<1> QED
  BY <1>1, <1>2

-----------------------------------------------------------------------------
(* Requests begin, and end.                                                *)

LEMMA BeginStep ==
  ASSUME IInv, NEW w \in Workers, NEW v \in Request, Shape(v), ~v.lock,
         \A R, H : Known(v, R, H), Begin(w, v), UNCHANGED <<row, hist, told>>
  PROVE  IInv'
<1>1. begun' \in 0 .. MaxRequests
  BY BoundAssumption DEF Begin, IInv, Shapes, TypeOK
<1>2. told' \in [Bodies -> SUBSET Answers]
  BY DEF IInv, Shapes, TypeOK
<1> QED
  BY <1>1, <1>2, QuietStep DEF Begin

LEMMA SaveStartStep ==
  ASSUME IInv, NEW w \in Workers, NEW batch \in Batches, SaveStart(w, batch)
  PROVE  IInv'
<1> DEFINE v == [Idle EXCEPT !.step = "dedup", !.kind = "save", !.queue = batch]
<1>1. v \in Request /\ v.step = "dedup" /\ v.kind = "save" /\ v.lock = FALSE
      /\ v.wrote = FALSE /\ v.scan = {} /\ v.held = {}
  BY BatchAssumption DEF Request, Idle, Steps, SaveSteps, Kinds
<1>2. Begin(w, v) /\ UNCHANGED <<row, hist, told>>
  BY DEF SaveStart
<1> HIDE DEF v
<1>3. Shape(v) /\ \A R, H : Known(v, R, H)
  BY <1>1 DEF Shape, Known, SaveSteps, CatchUpSteps, WriteSteps, Writing
<1> QED
  BY <1>1, <1>2, <1>3, BeginStep

LEMMA PromotionStartStep ==
  ASSUME IInv, NEW w \in Workers, NEW b \in Bodies, PromotionStart(w, b)
  PROVE  IInv'
<1> DEFINE q == <<b>>
           v == [Idle EXCEPT !.step = "dedup", !.kind = "promotion", !.queue = q]
<1>0. q \in Seq(Bodies)
  OBVIOUS
<1>2. Begin(w, v) /\ UNCHANGED <<row, hist, told>>
  BY DEF PromotionStart
<1> HIDE DEF q
<1>1. /\ v.step = "dedup" /\ v.kind = "promotion" /\ v.lock = FALSE
      /\ v.wrote = FALSE /\ v.scan = {} /\ v.held = {}
  BY DEF Idle
<1>4. v \in Request
  BY <1>0, IdleRequest DEF Request, Steps, SaveSteps, Kinds
<1> HIDE DEF v
<1>3. Shape(v) /\ \A R, H : Known(v, R, H)
  BY <1>1 DEF Shape, Known, SaveSteps, CatchUpSteps, WriteSteps, Writing
<1> QED
  BY <1>1, <1>4, <1>2, <1>3, BeginStep

LEMMA CatchUpSelectStep ==
  ASSUME IInv, NEW w \in Workers, NEW S \in SUBSET Bodies, CatchUpSelect(w, S)
  PROVE  IInv'
<1> DEFINE v == [Idle EXCEPT !.step = "pick", !.kind = "catchup", !.todo = S]
<1>1. /\ v.step = "pick" /\ v.kind = "catchup" /\ v.lock = FALSE
      /\ v.wrote = FALSE /\ v.scan = {} /\ v.held = {}
  BY DEF Idle
<1>4. v \in Request
  BY IdleRequest DEF Request, Steps, CatchUpSteps, Kinds
<1>2. Begin(w, v) /\ UNCHANGED <<row, hist, told>>
  BY DEF CatchUpSelect
<1> HIDE DEF v
<1>3. Shape(v) /\ \A R, H : Known(v, R, H)
  BY <1>1 DEF Shape, Known, SaveSteps, CatchUpSteps, WriteSteps, Writing
<1> QED
  BY <1>1, <1>4, <1>2, <1>3, BeginStep

\* SaveEnd, CatchUpEnd and Crash.
LEMMA FinishStep ==
  ASSUME IInv, NEW w \in Workers, Finish(w), UNCHANGED <<row, hist, told, begun>>
  PROVE  IInv'
<1>1. Idle.lock = FALSE
  BY DEF Idle
<1> QED
  BY <1>1, IdleRequest, SilentStep DEF Finish

-----------------------------------------------------------------------------
(* The steps of a save before its classification.                          *)

LEMMA SaveDedupStep ==
  ASSUME IInv, NEW w \in Workers, SaveDedup(w)
  PROVE  IInv'
<1> DEFINE r == req[w]
           b == Head(r.queue)
           rest == [r EXCEPT !.queue = Tail(@)]
           next == [rest EXCEPT !.step = "insert", !.body = b]
<1>1. r \in Request /\ Shape(r) /\ r.step = "dedup" /\ r.queue # <<>>
  BY RequestTypes DEF SaveDedup
<1>2. b \in Bodies /\ Tail(r.queue) \in Seq(Bodies)
  BY <1>1, HeadTailProperties DEF Request
<1>3. /\ rest \in Request /\ rest.kind = r.kind /\ r.kind \in {"save", "promotion"}
  BY <1>1, <1>2 DEF Request, Shape, SaveSteps
<1>4. CASE r.kind = "save" /\ row[b].stored
  <2>1. /\ told' = [told EXCEPT ![b] = @ \cup {"duplicate"}]
        /\ req' = [req EXCEPT ![w] = NextInBatch(rest)]
        /\ UNCHANGED <<row, hist, begun>>
    BY <1>4 DEF SaveDedup
  <2> HIDE DEF rest, next, b, r
  <2>2. told \in [Bodies -> SUBSET Answers] /\ begun' \in 0 .. MaxRequests
    BY <2>1 DEF IInv, Shapes, TypeOK
  <2>3. /\ told' \in [Bodies -> SUBSET Answers]
        /\ \A c \in Bodies : "created" \in told'[c] => "created" \in told[c]
    BY <1>2, <2>1, <2>2 DEF Answers
  <2> QED
    BY <1>3, <2>1, <2>2, <2>3, Fallbacks, QuietStep
<1>5. CASE ~ (r.kind = "save" /\ row[b].stored)
  <2>1. req' = [req EXCEPT ![w] = next] /\ UNCHANGED <<row, hist, told, begun>>
    BY <1>5 DEF SaveDedup
  <2>2. /\ next.step = "insert" /\ next.kind = r.kind /\ next.body = b
        /\ next.lock = r.lock /\ next.wrote = r.wrote
        /\ next.scan = r.scan /\ next.held = r.held
    BY <1>1 DEF Request
  <2>3. next \in Request
    BY <1>2, <1>3 DEF Request, Steps, SaveSteps
  <2> HIDE DEF next
  <2>4. Shape(next) /\ ~next.lock /\ Known(next, row, hist)
    BY <1>1, <1>2, <1>3, <2>2
       DEF Shape, Known, SaveSteps, CatchUpSteps, WriteSteps, Writing
  <2> QED
    BY <2>1, <2>3, <2>4, SilentStep
<1> QED
  BY <1>4, <1>5

LEMMA SaveDiscardStep ==
  ASSUME IInv, NEW w \in Workers, SaveDiscard(w)
  PROVE  IInv'
<1> DEFINE r == req[w]
<1>1. r \in Request /\ r.body \in Bodies /\ r.kind = "save"
  BY RequestTypes DEF SaveDiscard, Shape
<1>2. /\ told' = [told EXCEPT ![r.body] = @ \cup {"discarded"}]
      /\ req' = [req EXCEPT ![w] = NextInBatch(r)]
      /\ UNCHANGED <<row, hist, begun>>
  BY DEF SaveDiscard, Answer, IInv, Shapes, TypeOK
<1>3. told \in [Bodies -> SUBSET Answers] /\ begun' \in 0 .. MaxRequests
  BY <1>2 DEF IInv, Shapes, TypeOK
<1> HIDE DEF r
<1>4. /\ told' \in [Bodies -> SUBSET Answers]
      /\ \A c \in Bodies : "created" \in told'[c] => "created" \in told[c]
  BY <1>1, <1>2, <1>3 DEF Answers
<1> QED
  BY <1>1, <1>2, <1>3, <1>4, Fallbacks, QuietStep

LEMMA SaveAnswerStep ==
  ASSUME IInv, NEW w \in Workers, SaveAnswer(w)
  PROVE  IInv'
<1> DEFINE r == req[w]
<1>1. r \in Request /\ r.body \in Bodies /\ r.kind \in {"save", "promotion"}
      /\ Whole(r.body, row)
  BY RequestTypes DEF SaveAnswer, Shape, Known, SaveSteps
<1>2. /\ told' = [told EXCEPT ![r.body] = @ \cup {"created"}]
      /\ req' = [req EXCEPT ![w] = NextInBatch(r)]
      /\ UNCHANGED <<row, hist, begun>>
  BY DEF SaveAnswer, Answer, IInv, Shapes, TypeOK
<1>3. told \in [Bodies -> SUBSET Answers] /\ begun' \in 0 .. MaxRequests
  BY <1>2 DEF IInv, Shapes, TypeOK
<1> HIDE DEF r
<1>4. /\ told' \in [Bodies -> SUBSET Answers]
      /\ \A c \in Bodies : "created" \in told'[c] => "created" \in told[c] \/ Whole(c, row)
  BY <1>1, <1>2, <1>3 DEF Answers
<1> QED
  BY <1>1, <1>2, <1>3, <1>4, Fallbacks, QuietStep

LEMMA SaveRefusedStep ==
  ASSUME IInv, NEW w \in Workers, SaveRefused(w)
  PROVE  IInv'
<1>1. req[w] \in Request /\ req[w].kind \in {"save", "promotion"}
  BY RequestTypes DEF SaveRefused, Shape, SaveSteps
<1>2. req' = [req EXCEPT ![w] = NextInBatch(req[w])] /\ UNCHANGED <<row, hist, told, begun>>
  BY DEF SaveRefused, IInv, Shapes, TypeOK
<1> QED
  BY <1>1, <1>2, Fallbacks, SilentStep

LEMMA SaveFailsStep ==
  ASSUME IInv, NEW w \in Workers, SaveFails(w)
  PROVE  IInv'
<1> DEFINE r == req[w]
           v == [r EXCEPT !.queue = Tail(@)]
<1>1. r \in Request /\ Shape(r) /\ UNCHANGED <<row, hist, told, begun>>
  BY RequestTypes DEF SaveFails
<1>2. CASE r.step \in {"insert", "tier", "chunks"} /\ req' = [req EXCEPT ![w] = NextInBatch(r)]
  <2>1. r.kind \in {"save", "promotion"}
    BY <1>1, <1>2 DEF Shape, SaveSteps
  <2> QED
    BY <1>1, <1>2, <2>1, Fallbacks, SilentStep
<1>3. CASE r.step = "dedup" /\ r.queue # <<>> /\ req' = [req EXCEPT ![w].queue = Tail(@)]
  <2>1. req' = [req EXCEPT ![w] = v]
    BY <1>3
  <2>2. Tail(r.queue) \in Seq(Bodies)
    BY <1>1, <1>3, HeadTailProperties DEF Request
  <2>3. v \in Request
    BY <1>1, <2>2 DEF Request
  <2>4. /\ v.step = r.step /\ v.kind = r.kind /\ v.lock = r.lock
        /\ v.wrote = r.wrote /\ v.scan = r.scan /\ v.held = r.held
    BY <1>1 DEF Request
  <2> HIDE DEF v
  <2>5. Shape(v) /\ ~v.lock /\ Known(v, row, hist)
    BY <1>1, <1>3, <2>4 DEF Shape, Known, SaveSteps, CatchUpSteps, WriteSteps, Writing
  <2> QED
    BY <1>1, <2>1, <2>3, <2>5, SilentStep
<1>4. \/ r.step \in {"insert", "tier", "chunks"} /\ req' = [req EXCEPT ![w] = NextInBatch(r)]
      \/ r.step = "dedup" /\ r.queue # <<>> /\ req' = [req EXCEPT ![w].queue = Tail(@)]
  BY DEF SaveFails
<1> QED
  BY <1>2, <1>3, <1>4

LEMMA StoreStep ==
  ASSUME IInv, NEW w \in Workers, NEW v \in Request, Shape(v), ~v.lock,
         Known(v, row', hist), req' = [req EXCEPT ![w] = v], UNCHANGED <<hist, told, begun>>,
         row' \in [Bodies -> Row],
         \A b \in Bodies : /\ row'[b].type = row[b].type
                           /\ row[b].stored => row'[b].stored
                           /\ row[b].tiered => row'[b].tiered
                           /\ row[b].body => row'[b].body
  PROVE  IInv'
<1>1. /\ hist' \in Seq(Classification) /\ told' \in [Bodies -> SUBSET Answers]
      /\ begun' \in 0 .. MaxRequests
  BY DEF IInv, Shapes, TypeOK
<1>2. Grown /\ Known(v, row', hist')
  BY DEF Grown
<1>3. CreatedIsWhole'
  BY DEF IInv, CreatedIsWhole
<1>4. ClassifiedOnRecord'
  BY DEF IInv, ClassifiedOnRecord
<1> QED
  BY <1>1, <1>2, <1>3, <1>4, OneRequest

LEMMA GotoFields ==
  ASSUME NEW r \in Request, NEW s \in Steps
  PROVE  /\ [r EXCEPT !.step = s] \in Request
         /\ [r EXCEPT !.step = s].step = s /\ [r EXCEPT !.step = s].kind = r.kind
         /\ [r EXCEPT !.step = s].body = r.body /\ [r EXCEPT !.step = s].type = r.type
         /\ [r EXCEPT !.step = s].wrote = r.wrote /\ [r EXCEPT !.step = s].lock = r.lock
         /\ [r EXCEPT !.step = s].scan = r.scan /\ [r EXCEPT !.step = s].held = r.held
BY DEF Request

\* A row is a function, and one of its columns is set.
LEMMA RowFields ==
  ASSUME NEW x \in Row
  PROVE  /\ [x EXCEPT !.stored = TRUE] \in Row /\ [x EXCEPT !.stored = TRUE].stored
         /\ [x EXCEPT !.stored = TRUE].tiered = x.tiered
         /\ [x EXCEPT !.stored = TRUE].body = x.body
         /\ [x EXCEPT !.stored = TRUE].type = x.type
         /\ [x EXCEPT !.tiered = TRUE] \in Row /\ [x EXCEPT !.tiered = TRUE].tiered
         /\ [x EXCEPT !.tiered = TRUE].stored = x.stored
         /\ [x EXCEPT !.tiered = TRUE].body = x.body
         /\ [x EXCEPT !.tiered = TRUE].type = x.type
         /\ [x EXCEPT !.body = TRUE] \in Row /\ [x EXCEPT !.body = TRUE].body
         /\ [x EXCEPT !.body = TRUE].stored = x.stored
         /\ [x EXCEPT !.body = TRUE].tiered = x.tiered
         /\ [x EXCEPT !.body = TRUE].type = x.type
         /\ \A t \in Types :
              /\ [x EXCEPT !.type = t] \in Row /\ [x EXCEPT !.type = t].type = t
              /\ [x EXCEPT !.type = t].stored = x.stored
              /\ [x EXCEPT !.type = t].tiered = x.tiered
              /\ [x EXCEPT !.type = t].body = x.body
BY DEF Row

LEMMA SaveInsertStep ==
  ASSUME IInv, NEW w \in Workers, SaveInsert(w)
  PROVE  IInv'
<1> DEFINE r == req[w]
           v == [r EXCEPT !.step = "tier"]
           x == [row[r.body] EXCEPT !.stored = TRUE]
<1>1. /\ r \in Request /\ Shape(r) /\ Known(r, row, hist)
      /\ r.step = "insert" /\ row \in [Bodies -> Row]
  BY RequestTypes DEF SaveInsert, IInv, Shapes, TypeOK
<1>2. /\ req' = [req EXCEPT ![w] = v] /\ row' = [row EXCEPT ![r.body] = x]
      /\ UNCHANGED <<hist, told, begun>>
  BY DEF SaveInsert, Goto
<1>3. r.body \in Bodies /\ r.kind \in {"save", "promotion"} /\ ~r.lock /\ ~r.wrote
      /\ r.scan = {} /\ r.held = {}
  BY <1>1 DEF Shape, SaveSteps, Writing
<1>4. "tier" \in Steps
  BY DEF Steps, SaveSteps
<1>5. /\ x \in Row /\ x.type = row[r.body].type /\ x.stored
      /\ x.tiered = row[r.body].tiered /\ x.body = row[r.body].body
  BY <1>1, <1>3, RowFields
<1>6. /\ v \in Request /\ v.step = "tier" /\ v.kind = r.kind /\ v.body = r.body
      /\ v.wrote = r.wrote /\ v.lock = r.lock /\ v.scan = r.scan /\ v.held = r.held
  BY <1>1, <1>4, GotoFields
<1> HIDE DEF v, x
<1>7. Shape(v)
  BY <1>3, <1>6 DEF Shape, SaveSteps, CatchUpSteps, WriteSteps, Writing
<1>8. Known(v, row', hist)
  BY <1>1, <1>2, <1>3, <1>5, <1>6 DEF Known, WriteSteps, Writing
<1>9. /\ row' \in [Bodies -> Row]
      /\ \A b \in Bodies : /\ row'[b].type = row[b].type
                           /\ row[b].stored => row'[b].stored
                           /\ row[b].tiered => row'[b].tiered
                           /\ row[b].body => row'[b].body
  BY <1>1, <1>2, <1>3, <1>5
<1> QED
  BY <1>2, <1>3, <1>6, <1>7, <1>8, <1>9, StoreStep

LEMMA SaveTierStep ==
  ASSUME IInv, NEW w \in Workers, SaveTier(w)
  PROVE  IInv'
<1> DEFINE r == req[w]
           v == [r EXCEPT !.step = "chunks"]
           x == [row[r.body] EXCEPT !.tiered = TRUE]
<1>1. /\ r \in Request /\ Shape(r) /\ Known(r, row, hist)
      /\ r.step = "tier" /\ row \in [Bodies -> Row]
  BY RequestTypes DEF SaveTier, IInv, Shapes, TypeOK
<1>2. /\ req' = [req EXCEPT ![w] = v] /\ row' = [row EXCEPT ![r.body] = x]
      /\ UNCHANGED <<hist, told, begun>>
  BY DEF SaveTier, Goto
<1>3. r.body \in Bodies /\ r.kind \in {"save", "promotion"} /\ ~r.lock /\ ~r.wrote
      /\ r.scan = {} /\ r.held = {} /\ row[r.body].stored
  BY <1>1 DEF Shape, Known, SaveSteps, Writing
<1>4. "chunks" \in Steps
  BY DEF Steps, SaveSteps
<1>5. /\ x \in Row /\ x.type = row[r.body].type /\ x.stored = row[r.body].stored
      /\ x.tiered /\ x.body = row[r.body].body
  BY <1>1, <1>3, RowFields
<1>6. /\ v \in Request /\ v.step = "chunks" /\ v.kind = r.kind /\ v.body = r.body
      /\ v.wrote = r.wrote /\ v.lock = r.lock /\ v.scan = r.scan /\ v.held = r.held
  BY <1>1, <1>4, GotoFields
<1> HIDE DEF v, x
<1>7. Shape(v)
  BY <1>3, <1>6 DEF Shape, SaveSteps, CatchUpSteps, WriteSteps, Writing
<1>8. Known(v, row', hist)
  BY <1>1, <1>2, <1>3, <1>5, <1>6 DEF Known, WriteSteps, Writing
<1>9. /\ row' \in [Bodies -> Row]
      /\ \A b \in Bodies : /\ row'[b].type = row[b].type
                           /\ row[b].stored => row'[b].stored
                           /\ row[b].tiered => row'[b].tiered
                           /\ row[b].body => row'[b].body
  BY <1>1, <1>2, <1>3, <1>5
<1> QED
  BY <1>2, <1>3, <1>6, <1>7, <1>8, <1>9, StoreStep

LEMMA SaveChunksStep ==
  ASSUME IInv, NEW w \in Workers, SaveChunks(w)
  PROVE  IInv'
<1> DEFINE r == req[w]
           v == [r EXCEPT !.step = "look"]
           x == [row[r.body] EXCEPT !.body = TRUE]
<1>1. /\ r \in Request /\ Shape(r) /\ Known(r, row, hist)
      /\ r.step = "chunks" /\ row \in [Bodies -> Row]
  BY RequestTypes DEF SaveChunks, IInv, Shapes, TypeOK
<1>2. /\ req' = [req EXCEPT ![w] = v] /\ row' = [row EXCEPT ![r.body] = x]
      /\ UNCHANGED <<hist, told, begun>>
  BY DEF SaveChunks, Goto
<1>3. r.body \in Bodies /\ r.kind \in {"save", "promotion"} /\ ~r.lock /\ ~r.wrote
      /\ r.scan = {} /\ r.held = {} /\ row[r.body].stored /\ row[r.body].tiered
  BY <1>1 DEF Shape, Known, SaveSteps, Writing
<1>4. "look" \in Steps
  BY DEF Steps, SaveSteps
<1>5. /\ x \in Row /\ x.type = row[r.body].type /\ x.stored = row[r.body].stored
      /\ x.tiered = row[r.body].tiered /\ x.body
  BY <1>1, <1>3, RowFields
<1>6. /\ v \in Request /\ v.step = "look" /\ v.kind = r.kind /\ v.body = r.body
      /\ v.wrote = r.wrote /\ v.lock = r.lock /\ v.scan = r.scan /\ v.held = r.held
  BY <1>1, <1>4, GotoFields
<1> HIDE DEF v, x
<1>7. Shape(v)
  BY <1>3, <1>6 DEF Shape, SaveSteps, CatchUpSteps, WriteSteps, Writing
<1>8. Known(v, row', hist)
  BY <1>1, <1>2, <1>3, <1>5, <1>6 DEF Known, Whole, WriteSteps, Writing
<1>9. /\ row' \in [Bodies -> Row]
      /\ \A b \in Bodies : /\ row'[b].type = row[b].type
                           /\ row[b].stored => row'[b].stored
                           /\ row[b].tiered => row'[b].tiered
                           /\ row[b].body => row'[b].body
  BY <1>1, <1>2, <1>3, <1>5
<1> QED
  BY <1>2, <1>3, <1>6, <1>7, <1>8, <1>9, StoreStep

-----------------------------------------------------------------------------
(* The catch-up on its way to a candidate, and the look at what is on      *)
(* record.                                                                 *)

LEMMA CatchUpPickStep ==
  ASSUME IInv, NEW w \in Workers, NEW b \in Bodies, NEW t \in Types, CatchUpPick(w, b, t)
  PROVE  IInv'
<1> DEFINE r == req[w]
           v == [r EXCEPT !.step = "check", !.todo = @ \ {b}, !.body = b, !.type = t]
<1>1. r \in Request /\ Shape(r) /\ r.step = "pick"
  BY RequestTypes DEF CatchUpPick
<1>2. req' = [req EXCEPT ![w] = v] /\ UNCHANGED <<row, hist, told, begun>>
  BY DEF CatchUpPick
<1>3. v \in Request
  BY <1>1 DEF Request, Steps, CatchUpSteps
<1>4. /\ v.step = "check" /\ v.kind = r.kind /\ v.body = b /\ v.type = t /\ v.lock = r.lock
      /\ v.wrote = r.wrote /\ v.scan = r.scan /\ v.held = r.held
  BY <1>1 DEF Request
<1> HIDE DEF v
<1>5. Shape(v) /\ ~v.lock /\ Known(v, row, hist)
  BY <1>1, <1>4 DEF Shape, Known, SaveSteps, CatchUpSteps, WriteSteps, Writing
<1> QED
  BY <1>2, <1>3, <1>5, SilentStep

LEMMA CatchUpCheckStep ==
  ASSUME IInv, NEW w \in Workers, CatchUpCheck(w)
  PROVE  IInv'
<1> DEFINE r == req[w]
           v == [r EXCEPT !.step = "catchupLook"]
<1>1. r \in Request /\ Shape(r) /\ r.step = "check" /\ UNCHANGED <<row, hist, told, begun>>
  BY RequestTypes DEF CatchUpCheck
<1>2. r.kind = "catchup"
  BY <1>1 DEF Shape, CatchUpSteps
<1>3. CASE req' = [req EXCEPT ![w] = v]
  <2>1. "catchupLook" \in Steps
    BY DEF Steps, CatchUpSteps
  <2>2. /\ v \in Request /\ v.step = "catchupLook" /\ v.kind = r.kind /\ v.body = r.body
        /\ v.type = r.type /\ v.wrote = r.wrote /\ v.lock = r.lock
        /\ v.scan = r.scan /\ v.held = r.held
    BY <1>1, <2>1, GotoFields
  <2> HIDE DEF v
  <2>3. Shape(v) /\ ~v.lock /\ Known(v, row, hist)
    BY <1>1, <2>2 DEF Shape, Known, SaveSteps, CatchUpSteps, WriteSteps, Writing
  <2> QED
    BY <1>1, <1>3, <2>2, <2>3, SilentStep
<1>4. CASE req' = [req EXCEPT ![w] = NextCandidate(r)]
  BY <1>1, <1>2, <1>4, Fallbacks, SilentStep
<1>5. req' = [req EXCEPT ![w] = v] \/ req' = [req EXCEPT ![w] = NextCandidate(r)]
  BY DEF CatchUpCheck, Goto, IInv, Shapes, TypeOK
<1> QED
  BY <1>3, <1>4, <1>5

LEMMA SaveLookStep ==
  ASSUME IInv, NEW w \in Workers, NEW t \in Types, SaveLook(w, t)
  PROVE  IInv'
<1> DEFINE r == [req[w] EXCEPT !.type = t]
           next == IF OnRecord(r) THEN "answer" ELSE "write"
           v == [r EXCEPT !.step = next]
<1>1. /\ req[w] \in Request /\ Shape(req[w]) /\ Known(req[w], row, hist)
  BY RequestTypes
<1>2. /\ req' = [req EXCEPT ![w] = v] /\ r.step = "look" /\ next \in {"answer", "write"}
      /\ UNCHANGED <<row, hist, told, begun>>
  BY DEF SaveLook
<1>3. /\ r \in Request /\ r.step = req[w].step /\ r.kind = req[w].kind /\ r.type = t
      /\ r.body = req[w].body /\ r.wrote = req[w].wrote /\ r.lock = req[w].lock
      /\ r.scan = req[w].scan /\ r.held = req[w].held
  BY <1>1 DEF Request
<1> HIDE DEF next, r
<1>4. next \in Steps
  BY <1>2 DEF Steps, SaveSteps, WriteSteps
<1>5. /\ v \in Request /\ v.step = next /\ v.kind = r.kind /\ v.body = r.body /\ v.type = r.type
      /\ v.wrote = r.wrote /\ v.lock = r.lock /\ v.scan = r.scan /\ v.held = r.held
  BY <1>3, <1>4, GotoFields
<1> HIDE DEF v
<1>6. /\ r.kind \in {"save", "promotion"} /\ r.body \in Bodies /\ Whole(r.body, row)
      /\ ~r.lock /\ ~r.wrote /\ r.scan = {} /\ r.held = {}
  BY <1>1, <1>2, <1>3 DEF Shape, Known, SaveSteps, Writing
<1>7. Shape(v) /\ ~v.lock /\ Known(v, row, hist)
  BY <1>2, <1>3, <1>5, <1>6 DEF Shape, Known, SaveSteps, CatchUpSteps, WriteSteps, Writing
<1> QED
  BY <1>2, <1>5, <1>7, SilentStep

LEMMA CatchUpLookStep ==
  ASSUME IInv, NEW w \in Workers, CatchUpLook(w)
  PROVE  IInv'
<1> DEFINE r == req[w]
           next == IF OnRecord(r) THEN "fill" ELSE "write"
           v == [r EXCEPT !.step = next]
<1>1. /\ r \in Request /\ Shape(r) /\ Known(r, row, hist) /\ r.step = "catchupLook"
  BY RequestTypes DEF CatchUpLook
<1>2. /\ req' = [req EXCEPT ![w] = v] /\ next \in {"fill", "write"}
      /\ UNCHANGED <<row, hist, told, begun>>
  BY DEF CatchUpLook, Goto
<1>3. next = "fill" => \E h \in DOMAIN hist : hist[h].body = r.body
  BY DEF OnRecord
<1> HIDE DEF next
<1>4. next \in Steps
  BY <1>2 DEF Steps, CatchUpSteps, WriteSteps
<1>5. /\ v \in Request /\ v.step = next /\ v.kind = r.kind /\ v.body = r.body /\ v.type = r.type
      /\ v.wrote = r.wrote /\ v.lock = r.lock /\ v.scan = r.scan /\ v.held = r.held
  BY <1>1, <1>4, GotoFields
<1> HIDE DEF v
<1>6. /\ r.kind = "catchup" /\ r.body \in Bodies /\ r.type \in Types
      /\ ~r.lock /\ ~r.wrote /\ r.scan = {} /\ r.held = {}
  BY <1>1 DEF Shape, CatchUpSteps, Writing
<1>7. Shape(v) /\ ~v.lock
  BY <1>2, <1>5, <1>6 DEF Shape, SaveSteps, CatchUpSteps, WriteSteps, Writing
<1>8. Known(v, row, hist)
  BY <1>2, <1>3, <1>5, <1>6 DEF Known, WriteSteps, Writing
<1> QED
  BY <1>2, <1>5, <1>7, <1>8, SilentStep

\* A verdict on record says that the item is classified: there is nothing to fill in.
LEMMA CatchUpFillStep ==
  ASSUME IInv, NEW w \in Workers, CatchUpFill(w)
  PROVE  IInv' /\ row' = row
<1> DEFINE r == req[w]
<1>1. /\ r \in Request /\ Shape(r) /\ Known(r, row, hist) /\ r.step = "fill"
  BY RequestTypes DEF CatchUpFill
<1>2. r.kind = "catchup" /\ r.body \in Bodies
  BY <1>1 DEF Shape, CatchUpSteps
<1>3. PICK h \in DOMAIN hist : hist[h].body = r.body
  BY <1>1 DEF Known
<1>4. row[r.body].type # NoType
  BY <1>2, <1>3 DEF IInv, ClassifiedOnRecord
<1>5. row' = row
  BY <1>2, <1>4 DEF CatchUpFill, Matches
<1>6. req' = [req EXCEPT ![w] = NextCandidate(r)] /\ UNCHANGED <<row, hist, told, begun>>
  BY <1>5 DEF CatchUpFill, IInv, Shapes, TypeOK
<1> QED
  BY <1>1, <1>2, <1>5, <1>6, Fallbacks, SilentStep

-----------------------------------------------------------------------------
(* The statements that write a classification.                             *)

LEMMA WriteTypeStep ==
  ASSUME IInv, NEW w \in Workers, WriteType(w)
  PROVE  IInv'
<1> DEFINE r == req[w]
           m == Matches(r)
           v == [r EXCEPT !.step = "retire", !.wrote = m, !.lock = m]
<1>1. /\ r \in Request /\ Shape(r) /\ Known(r, row, hist) /\ r.step = "write"
  BY RequestTypes DEF WriteType
<1>2. /\ req' = [req EXCEPT ![w] = v] /\ (m => RowFree(w, r.body))
      /\ UNCHANGED <<row, hist, told, begun>>
  BY DEF WriteType
<1>3. /\ m \in BOOLEAN
      /\ m = (r.kind = "catchup" => row[r.body].type = NoType)
  BY DEF Matches
<1> HIDE DEF m
<1>4. v \in Request
  BY <1>1, <1>3 DEF Request, Steps, WriteSteps
<1>5. /\ v.step = "retire" /\ v.wrote = m /\ v.lock = m /\ v.kind = r.kind /\ v.body = r.body
      /\ v.type = r.type /\ v.scan = r.scan /\ v.held = r.held
  BY <1>1 DEF Request
<1> HIDE DEF v
<1>6. Shape(v)
  BY <1>1, <1>5 DEF Shape, SaveSteps, CatchUpSteps, WriteSteps, Writing
<1>7. Known(v, row, hist)
  BY <1>1, <1>3, <1>5 DEF Known, WriteSteps, Writing
<1>8. v.lock => RowFree(w, v.body)
  BY <1>2, <1>5
<1> QED
  BY <1>2, <1>4, <1>6, <1>7, <1>8, SilentStep

LEMMA RetireScanStep ==
  ASSUME IInv, NEW w \in Workers, RetireScan(w)
  PROVE  IInv'
<1> DEFINE r == req[w]
           v == [r EXCEPT !.step = "retiring", !.scan = ActiveRows(r.body)]
<1>1. /\ r \in Request /\ Shape(r) /\ Known(r, row, hist) /\ r.step = "retire"
  BY RequestTypes DEF RetireScan
<1>2. req' = [req EXCEPT ![w] = v] /\ UNCHANGED <<row, hist, told, begun>>
  BY DEF RetireScan
<1>3. ActiveRows(r.body) \in SUBSET Nat
  <2>1. hist \in Seq(Classification)
    BY DEF IInv, Shapes, TypeOK
  <2>2. DOMAIN hist \subseteq Nat
    BY <2>1, LenProperties
  <2> QED
    BY <2>2 DEF ActiveRows
<1>4. v \in Request
  BY <1>1, <1>3 DEF Request, Steps, WriteSteps
<1>5. /\ v.step = "retiring" /\ v.wrote = r.wrote /\ v.lock = r.lock /\ v.kind = r.kind
      /\ v.body = r.body /\ v.type = r.type /\ v.scan = ActiveRows(r.body) /\ v.held = r.held
  BY <1>1 DEF Request
<1> HIDE DEF v
<1>6. Shape(v)
  BY <1>1, <1>5 DEF Shape, SaveSteps, CatchUpSteps, WriteSteps, Writing
<1>7. Known(v, row, hist)
  BY <1>1, <1>5 DEF Known, ActiveRows, WriteSteps, Writing
<1>8. v.lock => RowFree(w, v.body)
  BY <1>5, LockIsMine
<1> QED
  BY <1>2, <1>4, <1>6, <1>7, <1>8, SilentStep

LEMMA RetireStep ==
  ASSUME IInv, NEW w \in Workers, NEW h \in DOMAIN hist, Retire(w, h)
  PROVE  IInv'
<1> DEFINE r == req[w]
           S == r.scan \ {h}
           T == IF hist[h].active THEN r.held \cup {h} ELSE r.held
           v == [r EXCEPT !.scan = S, !.held = T]
<1>1. /\ r \in Request /\ Shape(r) /\ Known(r, row, hist) /\ r.step = "retiring" /\ h \in r.scan
  BY RequestTypes DEF Retire
<1>2. /\ req' = [req EXCEPT ![w] = v] /\ UNCHANGED <<row, hist, told, begun>>
  BY DEF Retire
<1>3. /\ S \in SUBSET Nat /\ T \in SUBSET Nat /\ S \cup T \subseteq r.scan \cup r.held
  BY <1>1 DEF Request
<1> HIDE DEF S, T
<1>4. v \in Request
  BY <1>1, <1>3 DEF Request
<1>5. /\ v.step = r.step /\ v.wrote = r.wrote /\ v.lock = r.lock /\ v.kind = r.kind
      /\ v.body = r.body /\ v.type = r.type /\ v.scan = S /\ v.held = T
  BY <1>1 DEF Request
<1> HIDE DEF v
<1>6. Shape(v)
  BY <1>1, <1>5 DEF Shape, SaveSteps, CatchUpSteps, WriteSteps, Writing
<1>7. Known(v, row, hist)
  BY <1>1, <1>3, <1>5 DEF Known, WriteSteps, Writing
<1>8. v.lock => RowFree(w, v.body)
  BY <1>5, LockIsMine
<1> QED
  BY <1>2, <1>4, <1>6, <1>7, <1>8, SilentStep

LEMMA RetiredStep ==
  ASSUME IInv, NEW w \in Workers, Retired(w)
  PROVE  IInv'
<1> DEFINE r == req[w]
<1>1. /\ r \in Request /\ Shape(r) /\ Known(r, row, hist) /\ r.step = "retiring"
  BY RequestTypes DEF Retired
<1>2. PICK next \in {"domain", "commit"} : req' = [req EXCEPT ![w] = [r EXCEPT !.step = next]]
  BY DEF Retired, Goto
<1> DEFINE v == [r EXCEPT !.step = next]
<1>3. next \in Steps
  BY DEF Steps, WriteSteps
<1>4. /\ v \in Request /\ v.step = next /\ v.kind = r.kind /\ v.body = r.body /\ v.type = r.type
      /\ v.wrote = r.wrote /\ v.lock = r.lock /\ v.scan = r.scan /\ v.held = r.held
  BY <1>1, <1>3, GotoFields
<1>5. req' = [req EXCEPT ![w] = v] /\ UNCHANGED <<row, hist, told, begun>>
  BY <1>2 DEF Retired
<1> HIDE DEF v
<1>6. Shape(v)
  BY <1>1, <1>4 DEF Shape, SaveSteps, CatchUpSteps, WriteSteps, Writing
<1>7. Known(v, row, hist)
  BY <1>1, <1>4 DEF Known, WriteSteps, Writing
<1>8. v.lock => RowFree(w, v.body)
  BY <1>4, LockIsMine
<1> QED
  BY <1>4, <1>5, <1>6, <1>7, <1>8, SilentStep

LEMMA WriteDomainStep ==
  ASSUME IInv, NEW w \in Workers, WriteDomain(w)
  PROVE  IInv'
<1> DEFINE r == req[w]
           v == [r EXCEPT !.step = "commit", !.lock = TRUE]
<1>1. /\ r \in Request /\ Shape(r) /\ Known(r, row, hist) /\ r.step = "domain"
  BY RequestTypes DEF WriteDomain
<1>2. /\ req' = [req EXCEPT ![w] = v] /\ RowFree(w, r.body) /\ UNCHANGED <<row, hist, told, begun>>
  BY DEF WriteDomain
<1>3. v \in Request
  BY <1>1 DEF Request, Steps, WriteSteps
<1>4. /\ v.step = "commit" /\ v.wrote = r.wrote /\ v.lock /\ v.kind = r.kind
      /\ v.body = r.body /\ v.type = r.type /\ v.scan = r.scan /\ v.held = r.held
  BY <1>1 DEF Request
<1> HIDE DEF v
<1>5. Shape(v)
  BY <1>1, <1>4 DEF Shape, SaveSteps, CatchUpSteps, WriteSteps, Writing
<1>6. Known(v, row, hist)
  BY <1>1, <1>4 DEF Known, WriteSteps, Writing
<1> QED
  BY <1>2, <1>3, <1>4, <1>5, <1>6, SilentStep

LEMMA ClassifyFailsStep ==
  ASSUME IInv, NEW w \in Workers, ClassifyFails(w)
  PROVE  IInv'
<1> DEFINE r == req[w]
<1>1. /\ r \in Request /\ Shape(r) /\ Known(r, row, hist)
      /\ r.step \in WriteSteps \cup {"look", "check", "catchupLook", "fill"}
  BY RequestTypes DEF ClassifyFails
<1>2. /\ r.kind # "none" /\ r.body \in Bodies
      /\ r.kind # "catchup" => Whole(r.body, row)
  BY <1>1 DEF Shape, Known, WriteSteps, SaveSteps, CatchUpSteps
<1>3. req' = [req EXCEPT ![w] = AfterWrite(r)] /\ UNCHANGED <<row, hist, told, begun>>
  BY DEF ClassifyFails
<1> QED
  BY <1>1, <1>2, <1>3, AfterWriteFits, SilentStep

\* The history a commit leaves: its own row is new, the others keep their verdict.
LEMMA RecordedHistory ==
  ASSUME IInv, NEW r \in Request, r.kind # "none", r.body \in Bodies, r.type \in Types
  PROVE  LET n == Len(hist) IN
         /\ n \in Nat /\ DOMAIN hist = 1 .. n
         /\ Recorded(r) \in Seq(Classification) /\ DOMAIN Recorded(r) = 1 .. n + 1
         /\ \A h \in 1 .. n : /\ Recorded(r)[h].body = hist[h].body
                              /\ Recorded(r)[h].type = hist[h].type
                              /\ Recorded(r)[h].active = (hist[h].active /\ h \notin r.held)
         /\ Recorded(r)[n + 1].body = r.body /\ Recorded(r)[n + 1].type = r.type
         /\ Recorded(r)[n + 1].active = TRUE
<1> DEFINE n == Len(hist)
           s == Retiring(r)
           c == [body |-> r.body, type |-> r.type, version |-> Version(r.kind), active |-> TRUE]
<1>1. hist \in Seq(Classification)
  BY DEF IInv, Shapes, TypeOK
<1>2. n \in Nat /\ DOMAIN hist = 1 .. n
  BY <1>1, LenProperties
<1>3. \A h \in 1 .. n : hist[h] \in Classification
  BY <1>1, ElementOfSeq
<1>4. \A h \in 1 .. n : /\ s[h] \in Classification
                        /\ s[h].body = hist[h].body /\ s[h].type = hist[h].type
                        /\ s[h].active = (hist[h].active /\ h \notin r.held)
  BY <1>2, <1>3 DEF Retiring, Classification
<1>5. s \in Seq(Classification) /\ Len(s) = n
  <2>1. DOMAIN s = 1 .. n
    BY <1>2 DEF Retiring
  <2>2. s = [h \in 1 .. n |-> s[h]]
    BY <1>2 DEF Retiring
  <2> HIDE DEF s
  <2>3. s \in [1 .. n -> Classification]
    BY <1>4, <2>2
  <2> QED
    BY <1>2, <2>3
<1>6. c \in Classification /\ c.body = r.body /\ c.type = r.type /\ c.active = TRUE
  BY DEF Classification, Version
<1>7. Recorded(r) = Append(s, c)
  BY DEF Recorded
<1> HIDE DEF s, c, n
<1>8. /\ Recorded(r) \in Seq(Classification) /\ Len(Recorded(r)) = n + 1
      /\ \A h \in 1 .. n : Recorded(r)[h] = s[h]
      /\ Recorded(r)[n + 1] = c
  BY <1>5, <1>6, <1>7, AppendProperties
<1>9. DOMAIN Recorded(r) = 1 .. n + 1
  BY <1>8, LenProperties
<1> QED
  BY <1>2, <1>4, <1>6, <1>8, <1>9 DEF n

\* The row a commit leaves.
LEMMA CommitRow ==
  ASSUME IInv, NEW w \in Workers, Commit(w)
  PROVE  LET r == req[w] IN
         /\ row' \in [Bodies -> Row]
         /\ \A b \in Bodies :
              /\ row'[b].type = IF r.wrote /\ b = r.body THEN r.type ELSE row[b].type
              /\ row'[b].stored = row[b].stored /\ row'[b].tiered = row[b].tiered
              /\ row'[b].body = row[b].body
<1> DEFINE r == req[w]
           x == [row[r.body] EXCEPT !.type = r.type]
<1>1. /\ r \in Request /\ r.body \in Bodies /\ r.type \in Types /\ row \in [Bodies -> Row]
  BY RequestTypes DEF Commit, Shape, WriteSteps, IInv, Shapes, TypeOK
<1>2. row' = IF r.wrote THEN [row EXCEPT ![r.body] = x] ELSE row
  BY DEF Commit
<1>3. /\ x \in Row /\ x.type = r.type /\ x.stored = row[r.body].stored
      /\ x.tiered = row[r.body].tiered /\ x.body = row[r.body].body
  <2>1. row[r.body] \in Row
    BY <1>1
  <2> HIDE DEF r
  <2> QED
    BY <1>1, <2>1, RowFields
<1> HIDE DEF x
<1>4. CASE r.wrote
  BY <1>1, <1>2, <1>3, <1>4
<1>5. CASE ~r.wrote
  BY <1>1, <1>2, <1>5
<1> QED
  BY <1>4, <1>5

LEMMA CommitStep ==
  ASSUME IInv, NEW w \in Workers, Commit(w)
  PROVE  IInv'
<1> DEFINE r == req[w]
           n == Len(hist)
           v == AfterWrite(r)
<1>1. /\ r \in Request /\ Shape(r) /\ Known(r, row, hist) /\ r.step = "commit"
      /\ req' = [req EXCEPT ![w] = v] /\ hist' = Recorded(r) /\ UNCHANGED <<told, begun>>
  BY RequestTypes DEF Commit
<1>2. /\ r.kind # "none" /\ r.body \in Bodies /\ r.type \in Types /\ (r.wrote => r.lock)
  BY <1>1 DEF Shape, WriteSteps
<1>3. /\ r.kind # "catchup" => Whole(r.body, row)
      /\ ~r.wrote => row[r.body].type # NoType
      /\ \A h \in r.held : hist[h].body = r.body
  BY <1>1 DEF Known, WriteSteps, Writing
<1>4. /\ row' \in [Bodies -> Row]
      /\ \A b \in Bodies :
           /\ row'[b].type = IF r.wrote /\ b = r.body THEN r.type ELSE row[b].type
           /\ row'[b].stored = row[b].stored /\ row'[b].tiered = row[b].tiered
           /\ row'[b].body = row[b].body
  BY CommitRow
<1>5. /\ n \in Nat /\ DOMAIN hist = 1 .. n
      /\ hist' \in Seq(Classification) /\ DOMAIN hist' = 1 .. n + 1
      /\ \A h \in 1 .. n : /\ hist'[h].body = hist[h].body
                           /\ hist'[h].type = hist[h].type
                           /\ hist'[h].active = (hist[h].active /\ h \notin r.held)
      /\ hist'[n + 1].body = r.body /\ hist'[n + 1].type = r.type
      /\ hist'[n + 1].active = TRUE
  BY <1>1, <1>2, RecordedHistory
<1>6. r.type # NoType
  BY <1>2, NullAssumption
<1>7. told' \in [Bodies -> SUBSET Answers] /\ begun' \in 0 .. MaxRequests
  BY <1>1 DEF IInv, Shapes, TypeOK
<1>8. \A b \in Bodies : row'[b].type # row[b].type => RowFree(w, b)
  BY <1>2, <1>4, LockIsMine
<1>9. v \in Request /\ Shape(v) /\ ~v.lock
      /\ ((r.kind # "catchup" => Whole(r.body, row')) => Known(v, row', hist'))
  BY <1>1, <1>2, AfterWriteFits
<1> HIDE DEF v, n, r
<1>10. Known(v, row', hist')
  BY <1>2, <1>3, <1>4, <1>9 DEF Whole
<1>11. Grown
  <2>1. \A b \in Bodies : row[b].type # NoType => row'[b].type # NoType
    BY <1>4, <1>6
  <2>2. DOMAIN hist \subseteq DOMAIN hist'
    BY <1>5
  <2> QED
    BY <1>4, <1>5, <2>1, <2>2 DEF Grown
<1>12. CreatedIsWhole'
  BY <1>1, <1>4 DEF IInv, CreatedIsWhole
<1>13. ClassifiedOnRecord'
  <2> SUFFICES ASSUME NEW b \in Bodies
               PROVE  /\ row'[b].type = NoType <=> \A h \in DOMAIN hist' : hist'[h].body # b
                      /\ row'[b].type # NoType =>
                           /\ \E h \in DOMAIN hist' : hist'[h].body = b /\ hist'[h].active
                           /\ \E h \in DOMAIN hist' :
                                hist'[h].body = b /\ hist'[h].type = row'[b].type
    BY DEF ClassifiedOnRecord
  <2>1. /\ row[b].type = NoType <=> \A h \in DOMAIN hist : hist[h].body # b
        /\ row[b].type # NoType =>
             /\ \E h \in DOMAIN hist : hist[h].body = b /\ hist[h].active
             /\ \E h \in DOMAIN hist : hist[h].body = b /\ hist[h].type = row[b].type
    BY DEF IInv, ClassifiedOnRecord
  <2>2. \A h \in 1 .. n : h \in 1 .. n + 1
    BY <1>5
  <2>3. n + 1 \in 1 .. n + 1 /\ \A h \in 1 .. n + 1 : h \in 1 .. n \/ h = n + 1
    BY <1>5
  <2>4. CASE b = r.body
    <3>1. row'[b].type # NoType
      BY <1>3, <1>4, <1>6, <2>4
    <3>2. n + 1 \in DOMAIN hist' /\ hist'[n + 1].body = b /\ hist'[n + 1].active
      BY <1>5, <2>3, <2>4
    <3>3. \E h \in DOMAIN hist' : hist'[h].body = b /\ hist'[h].type = row'[b].type
      <4>1. CASE r.wrote
        BY <1>4, <1>5, <2>3, <2>4, <4>1
      <4>2. CASE ~r.wrote
        <5>1. PICK h \in 1 .. n : hist[h].body = b /\ hist[h].type = row[b].type
          BY <1>3, <1>5, <2>1, <2>4, <4>2
        <5>2. h \in DOMAIN hist' /\ hist'[h].body = b /\ hist'[h].type = row'[b].type
          BY <1>4, <1>5, <2>2, <4>2, <5>1
        <5> QED
          BY <5>2
      <4> QED
        BY <4>1, <4>2
    <3> QED
      BY <3>1, <3>2, <3>3
  <2>5. CASE b # r.body
    <3>1. row'[b].type = row[b].type
      BY <1>4, <2>5
    <3>2. \A h \in 1 .. n : h \in r.held => hist[h].body # b
      BY <1>3, <2>5
    <3>3. row[b].type = NoType => \A h \in DOMAIN hist' : hist'[h].body # b
      BY <1>5, <2>1, <2>3, <2>5
    <3>4. ASSUME row[b].type # NoType
          PROVE  /\ \E h \in DOMAIN hist' : hist'[h].body = b /\ hist'[h].active
                 /\ \E h \in DOMAIN hist' : hist'[h].body = b /\ hist'[h].type = row[b].type
      <4>1. PICK h \in 1 .. n : hist[h].body = b /\ hist[h].active
        BY <1>5, <2>1, <3>4
      <4>2. PICK k \in 1 .. n : hist[k].body = b /\ hist[k].type = row[b].type
        BY <1>5, <2>1, <3>4
      <4>3. h \in DOMAIN hist' /\ hist'[h].body = b /\ hist'[h].active
        BY <1>5, <2>2, <3>2, <4>1
      <4>4. k \in DOMAIN hist' /\ hist'[k].body = b /\ hist'[k].type = row[b].type
        BY <1>5, <2>2, <4>2
      <4> QED
        BY <4>3, <4>4
    <3> QED
      BY <3>1, <3>3, <3>4
  <2> QED
    BY <2>4, <2>5
<1> QED
  BY <1>1, <1>4, <1>5, <1>7, <1>8, <1>9, <1>10, <1>11, <1>12, <1>13, OneRequest

-----------------------------------------------------------------------------
(* Every step.                                                             *)

LEMMA ProceedStep ==
  ASSUME IInv, NEW w \in Workers, Proceed(w)
  PROVE  IInv'
<1>1. CASE SaveDedup(w) \/ SaveDiscard(w) \/ SaveInsert(w) \/ SaveRefused(w)
  BY <1>1, SaveDedupStep, SaveDiscardStep, SaveInsertStep, SaveRefusedStep
<1>2. CASE SaveTier(w) \/ SaveChunks(w) \/ SaveAnswer(w)
  BY <1>2, SaveTierStep, SaveChunksStep, SaveAnswerStep
<1>3. CASE SaveEnd(w) \/ CatchUpEnd(w)
  BY <1>3, FinishStep DEF SaveEnd, CatchUpEnd
<1>4. CASE \E b \in Bodies, t \in Types : CatchUpPick(w, b, t)
  BY <1>4, CatchUpPickStep
<1>5. CASE CatchUpCheck(w) \/ CatchUpLook(w) \/ CatchUpFill(w)
  BY <1>5, CatchUpCheckStep, CatchUpLookStep, CatchUpFillStep
<1>6. CASE \E t \in Types : SaveLook(w, t)
  BY <1>6, SaveLookStep
<1>7. CASE WriteType(w) \/ RetireScan(w) \/ \E h \in DOMAIN hist : Retire(w, h)
  BY <1>7, WriteTypeStep, RetireScanStep, RetireStep
<1>8. CASE Retired(w) \/ WriteDomain(w) \/ Commit(w)
  BY <1>8, RetiredStep, WriteDomainStep, CommitStep
<1> QED
  BY <1>1, <1>2, <1>3, <1>4, <1>5, <1>6, <1>7, <1>8 DEF Proceed

LEMMA NextInv == IInv /\ [Next]_vars => IInv'
<1> SUFFICES ASSUME IInv, [Next]_vars PROVE IInv'
  OBVIOUS
<1>1. CASE UNCHANGED vars
  BY <1>1 DEF vars, IInv, Shapes, TypeOK, LocksApart, CreatedIsWhole, ClassifiedOnRecord
<1>2. ASSUME NEW w \in Workers,
             Start(w) \/ Proceed(w) \/ SaveFails(w) \/ ClassifyFails(w) \/ Crash(w)
      PROVE  IInv'
  <2>1. CASE Start(w)
    BY <2>1, SaveStartStep, PromotionStartStep, CatchUpSelectStep DEF Start
  <2>2. CASE Crash(w)
    BY <2>2, FinishStep DEF Crash
  <2> QED
    BY <1>2, <2>1, <2>2, ProceedStep, SaveFailsStep, ClassifyFailsStep
<1> QED
  BY <1>1, <1>2 DEF Next

LEMMA Invariant == Spec => []IInv
<1>1. Init => IInv
  BY InitInv
<1> QED
  BY <1>1, NextInv, PTL DEF Spec

\* Rows, history, answers and the local variables of requests keep their shape.
THEOREM TypeCorrect == Spec => []TypeOK
<1>1. IInv => TypeOK
  BY DEF IInv, Shapes
<1> QED
  BY <1>1, Invariant, PTL

\* What a caller is told was created is stored with its tier and its body, however
\* saves, promotions and catch-ups interleave, fail and crash.
THEOREM WholeWhenCreated == Spec => []CreatedIsWhole
<1>1. IInv => CreatedIsWhole
  BY DEF IInv
<1> QED
  BY <1>1, Invariant, PTL

\* The column and the history of classifications agree, although transactions
\* that write them pass one another.
THEOREM RecordMatches == Spec => []ClassifiedOnRecord
<1>1. IInv => ClassifiedOnRecord
  BY DEF IInv
<1> QED
  BY <1>1, Invariant, PTL

LEMMA OnlyCommitsRewrite ==
  ASSUME IInv, Next, NEW b \in Bodies, row[b].type # NoType, row'[b].type # row[b].type
  PROVE  \E w \in Workers : /\ req[w].body = b /\ req[w].step = "commit"
                            /\ req[w].kind \in {"save", "promotion"}
<1>1. PICK w \in Workers :
        Start(w) \/ Proceed(w) \/ SaveFails(w) \/ ClassifyFails(w) \/ Crash(w)
  BY DEF Next
<1>2. row' # row
  OBVIOUS
<1>3. Proceed(w)
  BY <1>1, <1>2 DEF Start, SaveStart, PromotionStart, CatchUpSelect, SaveFails,
                    ClassifyFails, Crash
<1>4. row \in [Bodies -> Row]
  BY DEF IInv, Shapes, TypeOK
<1>5. ~ (SaveInsert(w) \/ SaveTier(w) \/ SaveChunks(w))
  <2>1. req[w].step \in {"insert", "tier", "chunks"} => req[w].body \in Bodies
    BY RequestTypes DEF Shape
  <2>2. \A x \in Row : /\ [x EXCEPT !.stored = TRUE].type = x.type
                       /\ [x EXCEPT !.tiered = TRUE].type = x.type
                       /\ [x EXCEPT !.body = TRUE].type = x.type
    BY RowFields
  <2> QED
    BY <1>4, <2>1, <2>2 DEF SaveInsert, SaveTier, SaveChunks
<1>6. ~ CatchUpFill(w)
  BY <1>2, CatchUpFillStep
<1>7. Commit(w)
  BY <1>2, <1>3, <1>5, <1>6
     DEF Proceed, SaveDedup, SaveEnd, SaveDiscard, SaveRefused, SaveAnswer, CatchUpPick,
         CatchUpEnd, CatchUpCheck, CatchUpLook, SaveLook, WriteType, RetireScan, Retire,
         Retired, WriteDomain
<1>8. req[w].wrote /\ b = req[w].body
  BY <1>7, CommitRow
<1>9. req[w].step = "commit" /\ req[w].kind # "catchup" /\ req[w].kind # "none"
  BY <1>7, <1>8, RequestTypes DEF Commit, Known, Shape, WriteSteps
<1>10. req[w].kind \in {"save", "promotion"}
  BY <1>9, RequestTypes DEF Request, Kinds
<1> QED
  BY <1>8, <1>9, <1>10

\* A type that is set is replaced by the commit of a save or a promotion only.
THEOREM CatchUpFillsOnly == Spec => CatchUpNeverReclassifies
<1>1. IInv /\ [Next]_vars =>
        [\A b \in Bodies :
           row[b].type # NoType /\ row'[b].type # row[b].type =>
             \E w \in Workers : /\ req[w].body = b /\ req[w].step = "commit"
                                /\ req[w].kind \in {"save", "promotion"}]_vars
  BY OnlyCommitsRewrite
<1> QED
  BY <1>1, Invariant, PTL DEF Spec, CatchUpNeverReclassifies
=============================================================================
