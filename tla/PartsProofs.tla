---------------------------- MODULE PartsProofs ----------------------------
(***************************************************************************)
(* Proofs about parts of the system that do not touch each other.          *)
(*                                                                         *)
(* EmbeddingBackfill, for any items, any set of refused chunks, any number *)
(* of runs, every batch size and every limit: types, no circular wait, and *)
(* what a run without a failure promises.                                  *)
(* ScorerCircuit, for any processes and threads: an open circuit is        *)
(* respected, and opened for a cause.  EmbeddingHealth, for any rows: the  *)
(* three reports tell one story.  ClassifyPipeline, for any content and    *)
(* any order of the types in a process: disagreement is a tie.             *)
(* GraphHealth, for any database and any commits of others: a torn report  *)
(* is true, and its scores mean what they say.  CircuitBreaker, for any    *)
(* supplied events: a request is refused for a cause and for no longer.    *)
(* ScopedRetrieval, for any catalog, any request and any commits of        *)
(* others: a search keeps to its scope and finds what is due in it.        *)
(***************************************************************************)
EXTENDS EmbeddingBackfill, ScorerCircuit, EmbeddingHealth, ClassifyPipeline, GraphHealth,
        CircuitBreaker, ScopedRetrieval, SequenceTheorems, FiniteSetTheorems, WellFoundedInduction, TLAPS

-----------------------------------------------------------------------------
(* The embedding backfill.                                                 *)

\* Where a run is says what it holds; it holds only rows before those to come.
Position ==
  \A r \in Runners :
    /\ run[r].step \in {"embed", "update"} => run[r].taken < BatchSize
    /\ run[r].step \in {"idle", "ended"} => run[r].held = {} /\ run[r].todo = {}
    /\ run[r].step # "update" => run[r].asked = {}
    /\ \A c \in run[r].asked : First(c, run[r].todo)
    /\ \A h \in run[r].held, t \in run[r].todo : h < t

\* A listed chunk is to come, in the open batch, refused or embedded.
Accounted ==
  \A r \in Runners : \A c \in run[r].listed :
    \/ c \in run[r].todo \/ c \in run[r].held \/ c \in run[r].failed
    \/ chunk[c] = "embedded"

IInv == TypeOK /\ Position /\ Accounted

LEMMA InitIInv == Init => IInv
<1> SUFFICES ASSUME Init PROVE IInv
  OBVIOUS
<1> USE BatchAssumption, LimitAssumption DEF Init
<1>1. TypeOK
  BY DEF TypeOK, Idle, Run
<1>2. Position
  BY DEF Position, Idle
<1>3. Accounted
  BY DEF Accounted, Idle
<1> QED
  BY <1>1, <1>2, <1>3 DEF IInv

\* A run's record after a step, the others' untouched.
LEMMA OneRun ==
  ASSUME IInv, NEW r \in Runners, NEW v \in Run,
         run' = [run EXCEPT ![r] = v],
         chunk' \in [Chunks -> {"absent", "missing", "embedded"}],
         \A c \in Chunks : chunk[c] = "embedded" => chunk'[c] = "embedded",
         crashes' \in 0 .. MaxCrashes,
         v.step \in {"embed", "update"} => v.taken < BatchSize,
         v.step \in {"idle", "ended"} => v.held = {} /\ v.todo = {},
         v.step # "update" => v.asked = {},
         \A c \in v.asked : First(c, v.todo),
         \A h \in v.held, t \in v.todo : h < t,
         \A c \in v.listed :
           \/ c \in v.todo \/ c \in v.held \/ c \in v.failed
           \/ chunk'[c] = "embedded"
  PROVE  IInv'
<1>0. /\ run'[r] = v
      /\ \A u \in Runners \ {r} : run'[u] = run[u]
  BY DEF IInv, TypeOK
<1>1. TypeOK'
  BY DEF IInv, TypeOK
<1>2. Position'
  <2> SUFFICES ASSUME NEW u \in Runners
               PROVE  /\ run'[u].step \in {"embed", "update"} => run'[u].taken < BatchSize
                      /\ run'[u].step \in {"idle", "ended"} =>
                           run'[u].held = {} /\ run'[u].todo = {}
                      /\ run'[u].step # "update" => run'[u].asked = {}
                      /\ \A c \in run'[u].asked : First(c, run'[u].todo)
                      /\ \A h \in run'[u].held, t \in run'[u].todo : h < t
    BY DEF Position
  <2>1. CASE u = r
    BY <1>0, <2>1
  <2>2. CASE u # r
    BY <1>0, <2>2 DEF IInv, Position
  <2> QED
    BY <2>1, <2>2
<1>3. Accounted'
  <2> SUFFICES ASSUME NEW u \in Runners, NEW c \in run'[u].listed
               PROVE  \/ c \in run'[u].todo \/ c \in run'[u].held \/ c \in run'[u].failed
                      \/ chunk'[c] = "embedded"
    BY DEF Accounted
  <2>1. CASE u = r
    BY <1>0, <2>1
  <2>2. CASE u # r
    <3>1. c \in Chunks
      BY <1>0, <2>2 DEF IInv, TypeOK, Run
    <3> QED
      BY <1>0, <2>2, <3>1 DEF IInv, Accounted
  <2> QED
    BY <2>1, <2>2
<1> QED
  BY <1>1, <1>2, <1>3 DEF IInv

LEMMA SaveStep ==
  ASSUME IInv, NEW B \in Bodies, NEW embedded \in SUBSET B, SaveBody(B, embedded)
  PROVE  IInv'
<1>1. /\ chunk' \in [Chunks -> {"absent", "missing", "embedded"}]
      /\ \A c \in Chunks : chunk[c] = "embedded" => chunk'[c] = "embedded"
  BY DEF IInv, TypeOK, SaveBody
<1>2. TypeOK' /\ Position'
  BY <1>1 DEF IInv, TypeOK, Position, SaveBody
<1>3. Accounted'
  <2> SUFFICES ASSUME NEW u \in Runners, NEW c \in run[u].listed
               PROVE  \/ c \in run[u].todo \/ c \in run[u].held \/ c \in run[u].failed
                      \/ chunk'[c] = "embedded"
    BY DEF Accounted, SaveBody
  <2>1. c \in Chunks
    BY DEF IInv, TypeOK, Run
  <2> QED
    BY <1>1, <2>1 DEF IInv, Accounted
<1> QED
  BY <1>2, <1>3 DEF IInv

LEMMA IdleRun ==
  /\ Idle \in Run
  /\ Idle.step = "idle" /\ Idle.listed = {} /\ Idle.todo = {}
  /\ Idle.asked = {} /\ Idle.held = {} /\ Idle.taken = 0
  BY BatchAssumption DEF Idle, Run

LEMMA ScanStep ==
  ASSUME IInv, NEW r \in Runners, Scan(r)
  PROVE  IInv'
<1> DEFINE s == IF Listed = {} THEN "ended" ELSE "embed"
           v == [Idle EXCEPT !.step = s, !.listed = Listed, !.todo = Listed]
<1>1. Listed \subseteq Chunks
  BY DEF Listed, Eligible
<1>0. s \in {"ended", "embed"} /\ (s = "ended" => Listed = {})
  OBVIOUS
<1>2. v \in Run
  <2> HIDE DEF s
  <2> QED
    BY <1>0, <1>1, IdleRun DEF Run
<1>3. run' = [run EXCEPT ![r] = v] /\ chunk' = chunk /\ crashes' = crashes
  BY DEF Scan
<1>4. /\ v.listed = Listed /\ v.todo = Listed /\ v.taken = 0
      /\ v.asked = {} /\ v.held = {} /\ v.step \in {"ended", "embed"}
      /\ v.step = "ended" => Listed = {}
  <2>1. /\ v.listed = Listed /\ v.todo = Listed /\ v.taken = Idle.taken
        /\ v.asked = Idle.asked /\ v.held = Idle.held /\ v.step = s
    <3> HIDE DEF s
    <3> QED
      BY IdleRun DEF Run
  <2> QED
    BY <1>0, <2>1, IdleRun
<1>5. /\ 0 < BatchSize /\ crashes' \in 0 .. MaxCrashes
      /\ chunk' \in [Chunks -> {"absent", "missing", "embedded"}]
  BY <1>3, BatchAssumption DEF IInv, TypeOK
<1> HIDE DEF v
<1>6. /\ \A c \in v.asked : First(c, v.todo)
      /\ \A h \in v.held, t \in v.todo : h < t
      /\ v.step \in {"embed", "update"} => v.taken < BatchSize
      /\ v.step \in {"idle", "ended"} => v.held = {} /\ v.todo = {}
      /\ v.step # "update" => v.asked = {}
  BY <1>4, <1>5
<1> QED
  BY <1>2, <1>3, <1>4, <1>5, <1>6, OneRun

LEMMA AcceptStep ==
  ASSUME IInv, NEW r \in Runners, NEW c \in Chunks, Accept(r, c)
  PROVE  IInv'
<1> DEFINE v == [run[r] EXCEPT !.step = "update", !.asked = {c}]
<1>0. run[r] \in Run
  BY DEF IInv, TypeOK
<1>1. v \in Run
  BY <1>0 DEF Run
<1>2. run' = [run EXCEPT ![r] = v] /\ chunk' = chunk /\ crashes' = crashes
  BY DEF Accept, IInv, TypeOK
<1>3. /\ v.step = "update" /\ v.asked = {c} /\ v.listed = run[r].listed
      /\ v.todo = run[r].todo /\ v.taken = run[r].taken
      /\ v.held = run[r].held /\ v.failed = run[r].failed
  BY <1>0 DEF Run
<1> HIDE DEF v
<1>4. /\ run[r].step = "embed" /\ First(c, run[r].todo)
  BY DEF Accept
<1>5. /\ chunk' \in [Chunks -> {"absent", "missing", "embedded"}]
      /\ crashes' \in 0 .. MaxCrashes
      /\ \A k \in Chunks : chunk[k] = "embedded" => chunk'[k] = "embedded"
  BY <1>2 DEF IInv, TypeOK
<1>6. /\ v.step \in {"embed", "update"} => v.taken < BatchSize
      /\ v.step \in {"idle", "ended"} => v.held = {} /\ v.todo = {}
      /\ v.step # "update" => v.asked = {}
      /\ \A k \in v.asked : First(k, v.todo)
      /\ \A h \in v.held, t \in v.todo : h < t
  BY <1>3, <1>4 DEF IInv, Position
<1>7. \A k \in v.listed :
        k \in v.todo \/ k \in v.held \/ k \in v.failed \/ chunk'[k] = "embedded"
  BY <1>2, <1>3 DEF IInv, Accounted
<1> QED
  BY <1>1, <1>2, <1>5, <1>6, <1>7, OneRun

\* What is left after the first chunk of the list, wherever it went.
LEMMA DealtRun ==
  ASSUME IInv, NEW r \in Runners, NEW c \in Chunks, First(c, run[r].todo),
         run[r].step \in {"embed", "update"}
  PROVE  LET v == Dealt(run[r], c)
         IN  /\ v \in Run
             /\ v.asked = {} /\ v.todo = run[r].todo \ {c}
             /\ v.listed = run[r].listed /\ v.held = run[r].held
             /\ v.failed = run[r].failed
             /\ v.step \in {"embed", "commit"}
             /\ v.step = "embed" => v.taken < BatchSize
             /\ \A h \in v.held \cup {c}, t \in v.todo : h < t
<1> DEFINE v == Dealt(run[r], c)
<1>0. run[r] \in Run /\ run[r].taken < BatchSize
  BY DEF IInv, TypeOK, Position
<1>1. /\ run[r].taken \in Nat /\ run[r].taken + 1 \in 0 .. BatchSize
      /\ run[r].taken + 1 # BatchSize => run[r].taken + 1 < BatchSize
  BY <1>0, BatchAssumption DEF Run
<1>2. /\ v.asked = {} /\ v.todo = run[r].todo \ {c}
      /\ v.listed = run[r].listed /\ v.held = run[r].held
      /\ v.failed = run[r].failed /\ v.taken = run[r].taken + 1
      /\ v.step = StepAfter(run[r].todo \ {c}, run[r].taken + 1)
  BY <1>0 DEF Dealt, Run
<1>3. /\ v.step \in {"embed", "commit"}
      /\ v.step = "embed" => v.taken < BatchSize
  BY <1>1, <1>2 DEF StepAfter
<1>4. v \in Run
  BY <1>0, <1>1 DEF Dealt, Run, StepAfter
<1>5. \A h \in v.held \cup {c}, t \in v.todo : h < t
  <2>1. run[r].todo \subseteq Nat /\ c \in Nat
    BY <1>0, ChunksAssumption DEF Run
  <2> QED
    BY <1>2, <2>1 DEF First, IInv, Position
<1> QED
  BY <1>2, <1>3, <1>4, <1>5

LEMMA RefuseStep ==
  ASSUME IInv, NEW r \in Runners, NEW c \in Chunks, Refuse(r, c)
  PROVE  IInv'
<1> DEFINE d == Dealt(run[r], c)
           v == [d EXCEPT !.failed = @ \cup {c}]
<1>1. /\ d \in Run
      /\ d.asked = {} /\ d.todo = run[r].todo \ {c}
      /\ d.listed = run[r].listed /\ d.held = run[r].held
      /\ d.failed = run[r].failed
      /\ d.step \in {"embed", "commit"}
      /\ d.step = "embed" => d.taken < BatchSize
      /\ \A h \in d.held \cup {c}, t \in d.todo : h < t
  BY DealtRun DEF Refuse
<1>2. run' = [run EXCEPT ![r] = v] /\ chunk' = chunk /\ crashes' = crashes
  BY DEF Refuse
<1> HIDE DEF d
<1>3. v \in Run
  BY <1>1 DEF Run
<1>4. /\ v.step = d.step /\ v.listed = d.listed /\ v.todo = d.todo
      /\ v.asked = d.asked /\ v.taken = d.taken /\ v.held = d.held
      /\ v.failed = d.failed \cup {c}
  BY <1>1 DEF Run
<1>5. \A b \in v.listed :
        \/ b \in v.todo \/ b \in v.held \/ b \in v.failed \/ chunk[b] = "embedded"
  BY <1>1, <1>4 DEF IInv, Accounted
<1> HIDE DEF v
<1> QED
  BY <1>1, <1>2, <1>3, <1>4, <1>5, OneRun DEF IInv, TypeOK

LEMMA UpdateStep ==
  ASSUME IInv, NEW r \in Runners, NEW c \in Chunks, Update(r, c)
  PROVE  IInv'
<1> DEFINE d == Dealt(run[r], c)
           v == [d EXCEPT !.held = @ \cup {c}]
<1>1. /\ d \in Run
      /\ d.asked = {} /\ d.todo = run[r].todo \ {c}
      /\ d.listed = run[r].listed /\ d.held = run[r].held
      /\ d.failed = run[r].failed
      /\ d.step \in {"embed", "commit"}
      /\ d.step = "embed" => d.taken < BatchSize
      /\ \A h \in d.held \cup {c}, t \in d.todo : h < t
  BY DealtRun DEF Update, IInv, Position
<1>2. run' = [run EXCEPT ![r] = v] /\ chunk' = chunk /\ crashes' = crashes
  BY DEF Update
<1> HIDE DEF d
<1>3. v \in Run
  BY <1>1 DEF Run
<1>4. /\ v.step = d.step /\ v.listed = d.listed /\ v.todo = d.todo
      /\ v.asked = d.asked /\ v.taken = d.taken /\ v.held = d.held \cup {c}
      /\ v.failed = d.failed
  BY <1>1 DEF Run
<1>5. \A b \in v.listed :
        \/ b \in v.todo \/ b \in v.held \/ b \in v.failed \/ chunk[b] = "embedded"
  BY <1>1, <1>4 DEF IInv, Accounted
<1> HIDE DEF v
<1> QED
  BY <1>1, <1>2, <1>3, <1>4, <1>5, OneRun DEF IInv, TypeOK

LEMMA CommitStep ==
  ASSUME IInv, NEW r \in Runners, Commit(r)
  PROVE  IInv'
<1> DEFINE v == [run[r] EXCEPT !.step = StepAfterCommit(run[r].todo),
                               !.held = {}, !.taken = 0]
<1>0. run[r] \in Run /\ run[r].step = "commit"
  BY DEF IInv, TypeOK, Commit
<1>1. v \in Run
  <2>1. /\ StepAfterCommit(run[r].todo) \in {"idle", "embed", "update", "commit", "ended"}
        /\ 0 \in 0 .. BatchSize
    BY BatchAssumption DEF StepAfterCommit
  <2> QED
    BY <1>0, <2>1 DEF Run
<1>2. run' = [run EXCEPT ![r] = v] /\ crashes' = crashes
  BY DEF Commit, IInv, TypeOK
<1>3. /\ v.step = StepAfterCommit(run[r].todo) /\ v.listed = run[r].listed
      /\ v.todo = run[r].todo /\ v.asked = run[r].asked /\ v.taken = 0
      /\ v.held = {} /\ v.failed = run[r].failed
  BY <1>0 DEF Run
<1>4. /\ chunk' \in [Chunks -> {"absent", "missing", "embedded"}]
      /\ \A c \in Chunks : chunk[c] = "embedded" => chunk'[c] = "embedded"
      /\ \A c \in run[r].held : chunk'[c] = "embedded"
  BY <1>0 DEF Commit, IInv, TypeOK, Run
<1>5. \A c \in v.listed :
        \/ c \in v.todo \/ c \in v.held \/ c \in v.failed \/ chunk'[c] = "embedded"
  BY <1>0, <1>3, <1>4 DEF IInv, Accounted, Run
<1>6. /\ v.step \in {"ended", "embed"} /\ v.asked = {}
      /\ v.step = "ended" => v.todo = {}
  BY <1>0, <1>3 DEF StepAfterCommit, IInv, Position
<1> HIDE DEF v
<1>7. /\ \A c \in v.asked : First(c, v.todo)
      /\ \A h \in v.held, t \in v.todo : h < t
      /\ v.step \in {"embed", "update"} => v.taken < BatchSize
      /\ v.step \in {"idle", "ended"} => v.held = {} /\ v.todo = {}
      /\ v.step # "update" => v.asked = {}
  BY <1>3, <1>6, BatchAssumption
<1>8. crashes' \in 0 .. MaxCrashes
  BY <1>2 DEF IInv, TypeOK
<1> QED
  BY <1>1, <1>2, <1>4, <1>5, <1>7, <1>8, OneRun

LEMMA CrashStep ==
  ASSUME IInv, NEW r \in Runners, Crash(r)
  PROVE  IInv'
<1>1. run' = [run EXCEPT ![r] = Idle] /\ chunk' = chunk
  BY DEF Crash
<1>2. crashes' \in 0 .. MaxCrashes
  BY LimitAssumption DEF Crash, IInv, TypeOK
<1> QED
  BY <1>1, <1>2, IdleRun, OneRun DEF IInv, TypeOK

LEMMA NextIInv == IInv /\ [Next]_vars => IInv'
<1> SUFFICES ASSUME IInv, [Next]_vars PROVE IInv'
  OBVIOUS
<1>1. CASE \E B \in Bodies : \E embedded \in SUBSET B : SaveBody(B, embedded)
  BY <1>1, SaveStep
<1>2. ASSUME NEW r \in Runners, Scan(r) \/ Proceed(r) \/ Crash(r)
      PROVE  IInv'
  <2>1. CASE Scan(r)
    BY <2>1, ScanStep
  <2>2. CASE \E c \in Chunks : Accept(r, c)
    BY <2>2, AcceptStep
  <2>3. CASE \E c \in Chunks : Refuse(r, c)
    BY <2>3, RefuseStep
  <2>4. CASE \E c \in Chunks : Update(r, c)
    BY <2>4, UpdateStep
  <2>5. CASE Commit(r)
    BY <2>5, CommitStep
  <2>6. CASE Crash(r)
    BY <2>6, CrashStep
  <2> QED
    BY <1>2, <2>1, <2>2, <2>3, <2>4, <2>5, <2>6 DEF Proceed
<1>3. CASE UNCHANGED vars
  BY <1>3 DEF vars, IInv, TypeOK, Position, Accounted
<1> QED
  BY <1>1, <1>2, <1>3 DEF Next

THEOREM Invariance == Spec => []IInv
  BY InitIInv, NextIInv, PTL DEF Spec

-----------------------------------------------------------------------------
(* Of the runs that wait, the one that wants the last chunk waits for none *)
(* that waits: whoever holds its chunk wants a later one.                  *)

\* Any set of naturals below a bound has a greatest member.
LEMMA GreatestBelow ==
  ASSUME NEW S, S # {}, S \subseteq Nat, NEW n \in Nat, \A s \in S : s <= n
  PROVE  \E m \in S : \A s \in S : s <= m
<1> DEFINE D == {n - s : s \in S}
           R == OpToRel(<, Nat)
<1>0. \A s \in S : n - s \in Nat
  OBVIOUS
<1>1. D \subseteq Nat /\ D # {}
  BY <1>0, Zenon
<1>2. \E x \in D : \A y \in D : ~ (<<y, x>> \in R)
  <2> HIDE DEF D, R
  <2>1. IsWellFoundedOn(R, Nat)
    BY NatLessThanWellFounded DEF R
  <2> QED
    BY <1>1, <2>1, WFMin
<1>3. PICK x \in D : \A y \in D : ~ (y < x)
  BY <1>1, <1>2 DEF OpToRel
<1>4. PICK m \in S : x = n - m
  OBVIOUS
<1>5. ASSUME NEW s \in S PROVE s <= m
  <2>1. ~ (n - s < n - m)
    BY <1>3, <1>4
  <2>2. s \in Nat /\ m \in Nat
    OBVIOUS
  <2> HIDE DEF D, R
  <2> QED
    BY <2>1, <2>2
<1> QED
  BY <1>5

LEMMA NoCircleFromIInv ==
  ASSUME IInv, NEW n \in Nat, \A c \in Chunks : c <= n
  PROVE  NoCircularWait
<1> SUFFICES ASSUME NEW S \in SUBSET Runners, S # {},
                    \A r \in S : \E u \in S : WaitsFor(r, u)
             PROVE  FALSE
  BY DEF NoCircularWait
<1> DEFINE W == UNION {run[r].asked : r \in S}
<1>0. Chunks \subseteq Nat
  BY ChunksAssumption
<1>1. \A r \in S : run[r].asked \subseteq Chunks /\ run[r].todo \subseteq Chunks
                   /\ run[r].held \subseteq Chunks
  BY DEF IInv, TypeOK, Run
<1>2. W \subseteq Chunks
  BY <1>1
<1>3. W # {}
  BY DEF WaitsFor
<1>4. PICK m \in W : \A w \in W : w <= m
  <2> HIDE DEF W
  <2> QED
    BY <1>0, <1>2, <1>3, GreatestBelow
<1>5. PICK r \in S : m \in run[r].asked
  OBVIOUS
<1>6. PICK u \in S : WaitsFor(r, u)
  OBVIOUS
<1>7. m \in run[u].held
  <2>1. \A c \in run[r].asked : First(c, run[r].todo)
    BY DEF IInv, Position
  <2>2. PICK h \in run[r].asked : h \in run[u].held
    BY <1>6 DEF WaitsFor
  <2>3. h <= m /\ m <= h
    BY <1>5, <2>1, <2>2 DEF First
  <2>4. h \in Nat /\ m \in Nat
    BY <1>0, <1>1, <1>5, <2>2
  <2> QED
    BY <2>2, <2>3, <2>4
<1>8. PICK k : k \in run[u].asked
  BY DEF WaitsFor
<1>9. k \in run[u].todo
  BY <1>8 DEF IInv, Position, First
<1>10. m < k
  BY <1>7, <1>9 DEF IInv, Position
<1>11. k \in W
  BY <1>8
<1>12. k <= m
  BY <1>4, <1>11
<1>13. k \in Nat /\ m \in Nat
  BY <1>0, <1>2, <1>11
<1> QED
  BY <1>10, <1>12, <1>13

LEMMA SuccessFromIInv == IInv => SuccessMeansEmbedded
<1> SUFFICES ASSUME IInv, NEW r \in Runners, run[r].step = "ended",
                    run[r].failed = {}, NEW c \in run[r].listed
             PROVE  chunk[c] = "embedded"
  BY DEF SuccessMeansEmbedded
<1>1. run[r].todo = {} /\ run[r].held = {}
  BY DEF IInv, Position
<1> QED
  BY <1>1 DEF IInv, Accounted

-----------------------------------------------------------------------------
\* Every reachable state of the runs is well typed: in particular no batch
\* exceeds BatchSize, and a COMMIT comes every BatchSize chunks.
THEOREM BackfillTypes == Spec => []TypeOK
<1>1. IInv => TypeOK
  BY DEF IInv
<1> QED
  BY Invariance, <1>1, PTL

\* Runs never wait for one another in a circle, however many there are: the
\* database has no deadlock to break between them.
THEOREM NoDeadlock ==
  ASSUME NEW n \in Nat, \A c \in Chunks : c <= n
  PROVE  Spec => []NoCircularWait
<1>1. IInv => NoCircularWait
  BY NoCircleFromIInv
<1> QED
  BY Invariance, <1>1, PTL

\* A run that ends without a failure leaves every chunk it listed embedded.
THEOREM SuccessIsComplete == Spec => []SuccessMeansEmbedded
<1>1. IInv => SuccessMeansEmbedded
  BY SuccessFromIInv
<1> QED
  BY Invariance, <1>1, PTL

-----------------------------------------------------------------------------
(* The circuit of the scorer.                                              *)

\* Where a look of a call is.
LookOf(c) ==
  /\ {"step", "look", "told", "overwritten", "answer", "circuit_open", "list", "now", "records"} \subseteq DOMAIN c
  /\ c.look \in {1, 2} /\ c.told \in Nat

\* Until when anything in the system says the circuit is open.
NeverLonger ==
  /\ expires_at <= lastOpen + open_duration_seconds
  /\ \A p \in Processes : memory[p].until <= lastOpen + open_duration_seconds
  /\ \A t \in Threads : call[t].told <= lastOpen + open_duration_seconds

\* A look that has taken the row over finds it in memory, unless it was overwritten.
TakenOver(t) ==
  /\ call[t].step = "sync" => call[t].told = 0
  /\ call[t].step = "again" =>
       call[t].told <= memory[home[t]].until \/ call[t].told <= clock \/ call[t].overwritten
  /\ call[t].step = "send" => call[t].told <= clock \/ call[t].overwritten

CircuitInv ==
  /\ clock \in Nat /\ lastOpen \in Nat /\ expires_at \in Nat /\ lastOpen <= clock
  /\ home \in [Threads -> Processes]
  /\ DOMAIN memory = Processes /\ DOMAIN call = Threads
  /\ \A p \in Processes : DOMAIN memory[p] = {"until", "failures"} /\ memory[p].until \in Nat
  /\ \A t \in Threads : LookOf(call[t]) /\ TakenOver(t)
  /\ NeverLonger

\* A step of a call that leaves what the processes remember alone.
LEMMA CallGoesOn ==
  ASSUME CircuitInv, NEW t \in Threads, NEW c, LookOf(c), call' = [call EXCEPT ![t] = c],
         UNCHANGED <<clock, home, memory, expires_at, lastOpen>>,
         c.told <= lastOpen + open_duration_seconds,
         c.step = "sync" => c.told = 0,
         c.step = "again" => c.told <= memory[home[t]].until \/ c.told <= clock \/ c.overwritten,
         c.step = "send" => c.told <= clock \/ c.overwritten
  PROVE  CircuitInv'
<1>1. DOMAIN call' = Threads /\ call'[t] = c /\ \A u \in Threads : u # t => call'[u] = call[u]
  BY DEF CircuitInv
<1>2. \A u \in Threads : LookOf(call'[u]) /\ TakenOver(u)'
  <2>1. TAKE u \in Threads
  <2>2. CASE u = t
    BY <1>1, <2>2 DEF CircuitInv, TakenOver
  <2>3. CASE u # t
    BY <1>1, <2>3 DEF CircuitInv, TakenOver
  <2> QED
    BY <2>2, <2>3
<1>3. NeverLonger'
  BY <1>1 DEF CircuitInv, NeverLonger
<1> QED
  BY <1>1, <1>2, <1>3 DEF CircuitInv, LookOf

\* A limit counted from an earlier moment is one counted from a later one.
LEMMA LaterLimit ==
  ASSUME NEW a \in Nat, NEW b \in Nat, NEW d \in Nat, NEW m \in Nat, a <= b, m <= a + d
  PROVE  m <= b + d
  OBVIOUS

\* A thread writes until when its process takes the circuit to be open.
LEMMA UntilIsWritten ==
  ASSUME CircuitInv, NEW t \in Threads, NEW until \in Nat, NEW step \in {"again", "answered", "persist"},
         WriteUntil(t, until, step), UNCHANGED <<clock, home, expires_at>>,
         step = "again" => until = call[t].told,
         lastOpen' \in {lastOpen, clock}, until <= lastOpen' + open_duration_seconds
  PROVE  CircuitInv'
<1> USE CircuitAssumption
<1>1. /\ DOMAIN memory' = Processes /\ memory'[home[t]].until = until
      /\ \A p \in Processes : DOMAIN memory'[p] = {"until", "failures"}
      /\ \A p \in Processes : p # home[t] => memory'[p] = memory[p]
  BY DEF WriteUntil, CircuitInv
<1>2. call'[t] = [call[t] EXCEPT !.step = step] /\ DOMAIN call' = Threads
  BY DEF WriteUntil
<1>3. ASSUME NEW u \in Threads, u # t
      PROVE  \/ call'[u] = call[u] /\ (home[u] = home[t] => ~(until < call[u].told))
             \/ call'[u] = [call[u] EXCEPT !.overwritten = TRUE]
  BY <1>3 DEF WriteUntil
<1>4. ASSUME NEW u \in Threads
      PROVE  LookOf(call'[u]) /\ TakenOver(u)' /\ call'[u].told = call[u].told
  <2>1. home[u] \in Processes /\ home[t] \in Processes /\ LookOf(call[u]) /\ TakenOver(u) /\ memory[home[u]].until \in Nat
    BY DEF CircuitInv
  <2>2. CASE u = t
    BY <1>1, <1>2, <2>1, <2>2 DEF LookOf, TakenOver
  <2>3. CASE u # t /\ call'[u] = [call[u] EXCEPT !.overwritten = TRUE]
    BY <2>1, <2>3 DEF LookOf, TakenOver
  <2>4. CASE u # t /\ call'[u] = call[u] /\ (home[u] = home[t] => ~(until < call[u].told))
    <3>1. call[u].told \in Nat
      BY <2>1 DEF LookOf
    <3>2. home[u] = home[t] => call[u].told <= memory'[home[u]].until
      BY <1>1, <2>4, <3>1
    <3>3. home[u] # home[t] => memory'[home[u]] = memory[home[u]]
      BY <1>1, <2>1
    <3> QED
      BY <2>1, <2>4, <3>2, <3>3 DEF LookOf, TakenOver
  <2> QED
    BY <1>3, <2>2, <2>3, <2>4
<1>5. lastOpen' \in Nat /\ lastOpen' <= clock' /\ lastOpen <= lastOpen'
  BY DEF CircuitInv
<1>6. NeverLonger'
  <2>1. \A p \in Processes : memory'[p].until <= lastOpen' + open_duration_seconds
    <3>1. TAKE p \in Processes
    <3>2. memory[p].until \in Nat /\ memory[p].until <= lastOpen + open_duration_seconds /\ lastOpen \in Nat
      BY DEF CircuitInv, NeverLonger
    <3>3. memory[p].until <= lastOpen' + open_duration_seconds
      BY <1>5, <3>2
    <3>4. CASE p = home[t]
      BY <1>1, <3>4
    <3>5. CASE p # home[t]
      BY <1>1, <3>3, <3>5
    <3> QED
      BY <3>4, <3>5
  <2>2. \A u \in Threads : call'[u].told <= lastOpen' + open_duration_seconds
    <3>1. \A u \in Threads : call[u].told \in Nat /\ call[u].told <= lastOpen + open_duration_seconds
      BY DEF CircuitInv, NeverLonger, LookOf
    <3>2. \A u \in Threads : call'[u].told = call[u].told
      BY <1>4
    <3>3. lastOpen \in Nat /\ lastOpen' \in Nat /\ open_duration_seconds \in Nat /\ lastOpen <= lastOpen'
      BY <1>5 DEF CircuitInv
    <3>4. \A u \in Threads : call[u].told <= lastOpen' + open_duration_seconds
      BY ONLY <3>1, <3>3, LaterLimit
    <3> QED
      BY <3>2, <3>4
  <2>3. expires_at' <= lastOpen' + open_duration_seconds
    <3>1. expires_at' \in Nat /\ lastOpen \in Nat /\ lastOpen' \in Nat /\ open_duration_seconds \in Nat /\ lastOpen <= lastOpen'
      BY <1>5 DEF CircuitInv
    <3>2. expires_at' <= lastOpen + open_duration_seconds \/ expires_at' <= lastOpen' + open_duration_seconds
      BY DEF CircuitInv, NeverLonger
    <3> QED
      BY ONLY <3>1, <3>2, LaterLimit
  <2> QED
    BY <2>1, <2>2, <2>3 DEF NeverLonger
<1>7. \A p \in Processes : memory'[p].until \in Nat
  BY <1>1 DEF CircuitInv
<1> QED
  BY <1>1, <1>2, <1>4, <1>5, <1>6, <1>7 DEF CircuitInv

\* The list of failures is no matter of the looks.
LEMMA ListIsWritten ==
  ASSUME CircuitInv, NEW t \in Threads, NEW list, NEW c, LookOf(c), c.told = call[t].told,
         c.step \notin {"sync", "again", "send"}, call' = [call EXCEPT ![t] = c],
         memory' = [memory EXCEPT ![home[t]].failures = list], UNCHANGED <<clock, home, expires_at, lastOpen>>
  PROVE  CircuitInv'
<1>1. /\ DOMAIN memory' = Processes
      /\ \A p \in Processes : DOMAIN memory'[p] = {"until", "failures"} /\ memory'[p].until = memory[p].until
  BY DEF CircuitInv
<1>2. DOMAIN call' = Threads /\ call'[t] = c /\ \A u \in Threads : u # t => call'[u] = call[u]
  BY DEF CircuitInv
<1>3. \A u \in Threads : LookOf(call'[u]) /\ TakenOver(u)'
  <2>1. TAKE u \in Threads
  <2>2. CASE u = t
    BY <1>2, <2>2 DEF TakenOver
  <2>3. CASE u # t
    BY <1>1, <1>2, <2>3 DEF CircuitInv, TakenOver
  <2> QED
    BY <2>2, <2>3
<1>4. NeverLonger'
  BY <1>1, <1>2 DEF CircuitInv, NeverLonger
<1> QED
  BY <1>1, <1>2, <1>3, <1>4 DEF CircuitInv

LEMMA CircuitThreadStep ==
  ASSUME CircuitInv, NEW t \in Threads, ThreadStep(t)
  PROVE  CircuitInv'
<1> USE CircuitAssumption
<1> DEFINE c == call[t]
<1>1. LookOf(c) /\ TakenOver(t) /\ c.told <= lastOpen + open_duration_seconds
  BY DEF CircuitInv, NeverLonger
<1>2. clock \in Nat /\ lastOpen \in Nat /\ lastOpen <= clock
  BY DEF CircuitInv
<1>3. ASSUME NEW n, n \in {NoCall, [NoCall EXCEPT !.records = FALSE, !.look = 2]}, NEW blank, Begin(t, n, blank)
      PROVE  CircuitInv'
  <2> DEFINE d == [n EXCEPT !.step = IF blank THEN "answered" ELSE "look",
                            !.answer = IF blank THEN "empty_content" ELSE "none"]
  <2>0. LookOf(n) /\ n.told = 0
    <3>1. LookOf(NoCall) /\ NoCall.told = 0
      BY DEF LookOf, NoCall
    <3>2. CASE n = NoCall
      BY <3>1, <3>2
    <3>3. CASE n = [NoCall EXCEPT !.records = FALSE, !.look = 2]
      BY <3>3 DEF LookOf, NoCall
    <3> QED
      BY <1>3, <3>2, <3>3
  <2>1. LookOf(d) /\ d.told = 0 /\ d.step \in {"answered", "look"}
    <3> DEFINE step == IF blank THEN "answered" ELSE "look"
               answer == IF blank THEN "empty_content" ELSE "none"
    <3>1. step \in {"answered", "look"}
      OBVIOUS
    <3> HIDE DEF step, answer
    <3>2. d = [n EXCEPT !.step = step, !.answer = answer]
      BY DEF step, answer
    <3>3. LookOf([n EXCEPT !.step = step, !.answer = answer])
      BY <2>0 DEF LookOf
    <3> QED
      BY <2>0, <3>1, <3>2, <3>3 DEF LookOf
  <2>2. call' = [call EXCEPT ![t] = d] /\ UNCHANGED <<clock, home, memory, expires_at, lastOpen>>
    BY <1>3 DEF Begin
  <2> HIDE DEF d
  <2>3. d.told <= lastOpen + open_duration_seconds
    BY <1>2, <2>1
  <2> QED
    BY <2>1, <2>2, <2>3, CallGoesOn
<1>4. CASE Look(t)
  <2> DEFINE b == [c EXCEPT !.told = 0, !.overwritten = FALSE]
             d == IF ClosedInMemory(t) THEN [b EXCEPT !.step = "sync"] ELSE Looked(b, TRUE)
  <2>1. LookOf(d) /\ d.told = 0 /\ d.step \in {"sync", "look", "answered"}
    <3>1. LookOf(b) /\ b.told = 0 /\ b.look = c.look
      BY <1>1 DEF LookOf
    <3>2. CASE ClosedInMemory(t)
      BY <3>1, <3>2 DEF LookOf
    <3>3. CASE ~ClosedInMemory(t)
      BY <3>1, <3>3 DEF LookOf, Looked
    <3> QED
      BY <3>2, <3>3
  <2>2. call' = [call EXCEPT ![t] = d] /\ UNCHANGED <<clock, home, memory, expires_at, lastOpen>>
    BY <1>4 DEF Look
  <2> HIDE DEF d
  <2>3. d.told <= lastOpen + open_duration_seconds
    BY <1>2, <2>1
  <2> QED
    BY <2>1, <2>2, <2>3, CallGoesOn
<1>5. CASE SelectRow(t)
  <2>1. CASE call' = [call EXCEPT ![t].step = "take", ![t].told = expires_at]
    <3> DEFINE d == [c EXCEPT !.step = "take", !.told = expires_at]
    <3>1. LookOf(d) /\ d.told = expires_at /\ d.step = "take"
      BY <1>1 DEF LookOf, CircuitInv
    <3>2. call' = [call EXCEPT ![t] = d] /\ UNCHANGED <<clock, home, memory, expires_at, lastOpen>>
      BY <1>5, <2>1 DEF SelectRow
    <3>3. expires_at <= lastOpen + open_duration_seconds
      BY DEF CircuitInv, NeverLonger
    <3> HIDE DEF d
    <3> QED
      BY <1>2, <3>1, <3>2, <3>3, CallGoesOn
  <2>2. CASE call' = [call EXCEPT ![t].step = "again"]
    <3> DEFINE d == [c EXCEPT !.step = "again"]
    <3>1. LookOf(d) /\ d.told = 0 /\ d.step = "again"
      BY <1>1, <1>5 DEF LookOf, TakenOver, SelectRow
    <3>2. call' = [call EXCEPT ![t] = d] /\ UNCHANGED <<clock, home, memory, expires_at, lastOpen>>
      BY <1>5, <2>2 DEF SelectRow
    <3> HIDE DEF d
    <3>3. d.told <= clock /\ d.told <= lastOpen + open_duration_seconds
      BY <1>2, <3>1
    <3> QED
      BY <3>1, <3>2, <3>3, CallGoesOn
  <2> QED
    BY <1>5, <2>1, <2>2 DEF SelectRow
<1>6. CASE TakeRow(t)
  BY <1>1, <1>6, UntilIsWritten DEF TakeRow, LookOf
<1>7. CASE LookAgain(t)
  <2> DEFINE d == Looked(c, ~ClosedInMemory(t))
  <2>1. LookOf(d) /\ d.told = c.told /\ d.overwritten = c.overwritten
    BY <1>1 DEF LookOf, Looked
  <2>2. d.step \in {"look", "answered", "send"} /\ (d.step = "send" => ClosedInMemory(t))
    BY <1>1 DEF LookOf, Looked
  <2>3. call' = [call EXCEPT ![t] = d] /\ UNCHANGED <<clock, home, memory, expires_at, lastOpen>>
    BY <1>7 DEF LookAgain
  <2>4. d.step = "send" => d.told <= clock \/ d.overwritten
    <3>1. memory[home[t]].until \in Nat /\ c.told \in Nat
      BY <1>1 DEF CircuitInv, LookOf
    <3>2. c.told <= memory[home[t]].until \/ c.told <= clock \/ c.overwritten
      BY <1>1, <1>7 DEF LookAgain, TakenOver
    <3> QED
      BY <1>2, <2>1, <2>2, <3>1, <3>2 DEF ClosedInMemory
  <2> HIDE DEF d
  <2> QED
    BY <1>1, <2>1, <2>2, <2>3, <2>4, CallGoesOn
<1>8. CASE Send(t) \/ FilterFailures(t) \/ CountFailures(t)
  <2>1. \E d : /\ LookOf(d) /\ d.told = c.told /\ d.step \notin {"sync", "again", "send"}
               /\ call' = [call EXCEPT ![t] = d]
    <3>1. CASE Send(t)
      <4>1. PICK how \in {"success", "failure", "permanent", "no_api_key"} :
              call' = [call EXCEPT ![t].step = IF call[t].records /\ how \in {"success", "failure"} THEN how ELSE "answered",
                                   ![t].answer = CASE how = "success" -> "scored"
                                                   [] how = "no_api_key" -> "no_api_key"
                                                   [] OTHER -> "api_error",
                                   ![t].circuit_open = @ \/ how # "success"]
        BY <3>1 DEF Send
      <4> DEFINE step == IF call[t].records /\ how \in {"success", "failure"} THEN how ELSE "answered"
                 answer == CASE how = "success" -> "scored"
                             [] how = "no_api_key" -> "no_api_key"
                             [] OTHER -> "api_error"
                 open == c.circuit_open \/ how # "success"
                 d == [c EXCEPT !.step = step, !.answer = answer, !.circuit_open = open]
      <4>2. call' = [call EXCEPT ![t] = d]
        BY <1>1, <4>1 DEF LookOf
      <4>3. step \in {"success", "failure", "answered"}
        OBVIOUS
      <4> HIDE DEF step, answer, open
      <4>4. LookOf(d) /\ d.told = c.told /\ d.step = step
        BY <1>1 DEF LookOf
      <4> QED
        BY <4>2, <4>3, <4>4
    <3>2. CASE FilterFailures(t)
      <4>1. PICK list : call' = [call EXCEPT ![t].step = "bind", ![t].now = clock, ![t].list = list]
        BY <3>2 DEF FilterFailures
      <4> DEFINE d == [c EXCEPT !.step = "bind", !.now = clock, !.list = list]
      <4>2. LookOf(d) /\ d.told = c.told /\ d.step = "bind" /\ call' = [call EXCEPT ![t] = d]
        BY <1>1, <4>1 DEF LookOf
      <4> QED
        BY <4>2
    <3>3. CASE CountFailures(t)
      <4>1. PICK step \in {"open", "answered"} : call' = [call EXCEPT ![t].step = step]
        BY <3>3 DEF CountFailures
      <4> DEFINE d == [c EXCEPT !.step = step]
      <4>2. LookOf(d) /\ d.told = c.told /\ d.step = step /\ call' = [call EXCEPT ![t] = d]
        BY <1>1, <4>1 DEF LookOf
      <4> QED
        BY <4>2
    <3> QED
      BY <1>8, <3>1, <3>2, <3>3
  <2>2. UNCHANGED <<clock, home, memory, expires_at, lastOpen>>
    BY <1>8 DEF Send, FilterFailures, CountFailures
  <2> QED
    BY <1>1, <2>1, <2>2, CallGoesOn
<1>9. CASE ForgetFailures(t) \/ BindFailures(t) \/ AppendFailure(t)
  <2>1. PICK list : memory' = [memory EXCEPT ![home[t]].failures = list]
    BY <1>9 DEF ForgetFailures, BindFailures, AppendFailure
  <2>2. \E d : /\ LookOf(d) /\ d.told = c.told /\ d.step \notin {"sync", "again", "send"}
               /\ call' = [call EXCEPT ![t] = d]
    <3>1. CASE ForgetFailures(t)
      <4> DEFINE d == [c EXCEPT !.step = "close"]
      <4>1. LookOf(d) /\ d.told = c.told /\ d.step = "close" /\ call' = [call EXCEPT ![t] = d]
        BY <1>1, <3>1 DEF LookOf, ForgetFailures
      <4> QED
        BY <4>1
    <3>2. CASE BindFailures(t)
      <4> DEFINE d == [c EXCEPT !.step = "append", !.list = <<>>]
      <4>1. LookOf(d) /\ d.told = c.told /\ d.step = "append" /\ call' = [call EXCEPT ![t] = d]
        BY <1>1, <3>2 DEF LookOf, BindFailures
      <4> QED
        BY <4>1
    <3>3. CASE AppendFailure(t)
      <4> DEFINE d == [c EXCEPT !.step = "count", !.now = 0]
      <4>1. LookOf(d) /\ d.told = c.told /\ d.step = "count" /\ call' = [call EXCEPT ![t] = d]
        BY <1>1, <3>3 DEF LookOf, AppendFailure
      <4> QED
        BY <4>1
    <3> QED
      BY <1>9, <3>1, <3>2, <3>3
  <2>3. UNCHANGED <<clock, home, expires_at, lastOpen>>
    BY <1>9 DEF ForgetFailures, BindFailures, AppendFailure
  <2> QED
    BY <2>1, <2>2, <2>3, ListIsWritten
<1>10. CASE CloseInMemory(t)
  BY <1>2, <1>10, UntilIsWritten DEF CloseInMemory
<1>11. CASE OpenCircuit(t)
  BY <1>2, <1>11, UntilIsWritten DEF OpenCircuit
<1>12. CASE PersistCircuit(t)
  <2> DEFINE d == [c EXCEPT !.step = "answered"]
  <2>1. LookOf(d) /\ d.told = c.told /\ d.step = "answered" /\ call' = [call EXCEPT ![t] = d]
    BY <1>1, <1>12 DEF LookOf, PersistCircuit
  <2> HIDE DEF d
  <2>2. DOMAIN call' = Threads /\ call'[t] = d /\ \A u \in Threads : u # t => call'[u] = call[u]
    BY <2>1 DEF CircuitInv
  <2>3. \A u \in Threads : LookOf(call'[u]) /\ call'[u].told = call[u].told
    BY <2>1, <2>2 DEF CircuitInv
  <2>4. UNCHANGED <<clock, home, memory>>
    BY <1>12 DEF PersistCircuit
  <2>5. \A u \in Threads : TakenOver(u)'
    BY <2>1, <2>2, <2>4 DEF CircuitInv, TakenOver
  <2>6. expires_at' \in Nat /\ lastOpen' \in Nat /\ lastOpen <= lastOpen' /\ lastOpen' <= clock
        /\ expires_at' <= lastOpen' + open_duration_seconds
    BY <1>2, <1>12 DEF PersistCircuit, CircuitInv, NeverLonger
  <2>7. NeverLonger'
    <3>1. \A u \in Threads : call[u].told \in Nat /\ call[u].told <= lastOpen + open_duration_seconds
      BY DEF CircuitInv, NeverLonger, LookOf
    <3>2. \A p \in Processes : memory[p].until \in Nat /\ memory[p].until <= lastOpen + open_duration_seconds
      BY DEF CircuitInv, NeverLonger
    <3>3. \A u \in Threads : call'[u].told <= lastOpen' + open_duration_seconds
      BY <1>2, <2>3, <2>6, <3>1
    <3>4. \A p \in Processes : memory[p].until <= lastOpen' + open_duration_seconds
      BY <1>2, <2>6, <3>2
    <3> QED
      BY <2>4, <2>6, <3>3, <3>4 DEF NeverLonger
  <2> QED
    BY <2>2, <2>3, <2>4, <2>5, <2>6, <2>7 DEF CircuitInv
<1> QED
  BY <1>3, <1>4, <1>5, <1>6, <1>7, <1>8, <1>9, <1>10, <1>11, <1>12 DEF ThreadStep, ScoreContent, Annotate

LEMMA CircuitStep == CircuitInv /\ [CircuitNext]_circuitVars => CircuitInv'
<1> SUFFICES ASSUME CircuitInv, [CircuitNext]_circuitVars PROVE CircuitInv'
  OBVIOUS
<1> USE CircuitAssumption
<1>1. CASE Tick
  <2>1. clock' = clock + 1 /\ UNCHANGED <<home, memory, expires_at, call, lastOpen>>
    BY <1>1 DEF Tick
  <2>2. \A t \in Threads : TakenOver(t)'
    BY <2>1 DEF CircuitInv, TakenOver, LookOf
  <2> QED
    BY <2>1, <2>2 DEF CircuitInv, NeverLonger, LookOf
<1>2. ASSUME NEW p \in Processes, Restart(p)
      PROVE  CircuitInv'
  <2>1. /\ UNCHANGED <<clock, home, expires_at, lastOpen>> /\ memory' = [memory EXCEPT ![p] = Fresh]
        /\ call' = [t \in Threads |-> IF home[t] = p THEN NoCall ELSE call[t]]
    BY <1>2 DEF Restart
  <2>2. DOMAIN Fresh = {"until", "failures"} /\ Fresh.until = 0
    BY DEF Fresh
  <2>3. LookOf(NoCall) /\ NoCall.told = 0 /\ NoCall.step = "idle"
    BY DEF LookOf, NoCall
  <2>4. /\ DOMAIN memory' = Processes /\ \A q \in Processes : memory'[q] = IF q = p THEN Fresh ELSE memory[q]
        /\ DOMAIN call' = Threads /\ \A t \in Threads : call'[t] = IF home[t] = p THEN NoCall ELSE call[t]
    BY <2>1 DEF CircuitInv
  <2>5. \A t \in Threads : LookOf(call'[t]) /\ TakenOver(t)'
    BY <2>1, <2>3, <2>4 DEF CircuitInv, TakenOver
  <2>6. NeverLonger'
    BY <2>1, <2>2, <2>3, <2>4 DEF CircuitInv, NeverLonger
  <2> QED
    BY <2>1, <2>2, <2>4, <2>5, <2>6 DEF CircuitInv
<1>3. CASE UNCHANGED circuitVars
  <2>1. UNCHANGED <<clock, home, memory, expires_at, call, lastOpen>>
    BY <1>3 DEF circuitVars
  <2> QED
    BY <2>1 DEF CircuitInv, NeverLonger, TakenOver, LookOf
<1> QED
  BY <1>1, <1>2, <1>3, CircuitThreadStep DEF CircuitNext

THEOREM CircuitInvariance == CircuitSpec => []CircuitInv
<1>1. CircuitInit => CircuitInv
  BY CircuitAssumption DEF CircuitInit, CircuitInv, NeverLonger, TakenOver, LookOf, NoCall, Fresh
<1> QED
  BY <1>1, CircuitStep, PTL DEF CircuitSpec

\* An open circuit is respected in every process, by any number of threads, over restarts
\* (scorer.py, _is_circuit_open, _open_circuit).
THEOREM OpenCircuitIsRespected == CircuitSpec => []OpenIsRespected
<1>1. CircuitInv => OpenIsRespected
  BY DEF CircuitInv, NeverLonger, TakenOver, OpenIsRespected
<1> QED
  BY <1>1, CircuitInvariance, PTL

-----------------------------------------------------------------------------
(* The window of the scorer's failures.  What is shown of all sequences is *)
(* shown by induction, for a set that has the empty one and every longer   *)
(* one of each it has.                                                     *)

LEMMA LeastOf ==
  ASSUME NEW S \in SUBSET Nat, S # {}
  PROVE  \E m \in S : \A s \in S : m <= s
<1> DEFINE R == OpToRel(<, Nat)
<1>1. \E x \in S : \A y \in S : ~ (<<y, x>> \in R)
  <2>1. IsWellFoundedOn(R, Nat)
    BY NatLessThanWellFounded
  <2> HIDE DEF R
  <2> QED
    BY <2>1, WFMin
<1>2. PICK x \in S : \A y \in S : ~ (y < x)
  BY <1>1 DEF OpToRel
<1>3. ASSUME NEW y \in S PROVE x <= y
  <2>1. ~ (y < x) /\ x \in Nat /\ y \in Nat
    BY <1>2
  <2> HIDE DEF R
  <2> QED
    BY <2>1
<1> QED
  BY <1>3

LEMMA InductionOverNat ==
  ASSUME NEW T, 0 \in T, \A n \in Nat : n \in T => n + 1 \in T
  PROVE  Nat \subseteq T
<1> SUFFICES ASSUME Nat \ T # {} PROVE FALSE
  OBVIOUS
<1>1. PICK m \in Nat \ T : \A s \in Nat \ T : m <= s
  BY LeastOf
<1>2. m - 1 \in Nat /\ (m - 1) + 1 = m /\ ~ (m <= m - 1)
  BY <1>1
<1>3. m - 1 \in T
  BY <1>1, <1>2
<1> QED
  BY <1>1, <1>2, <1>3

LEMMA InductionOverSeq ==
  ASSUME NEW T, <<>> \in T, \A s \in Seq(Nat), e \in Nat : s \in T => Append(s, e) \in T
  PROVE  Seq(Nat) \subseteq T
<1> DEFINE L == {n \in Nat : \A s \in Seq(Nat) : Len(s) = n => s \in T}
<1>1. 0 \in L
  <2>1. \A s \in Seq(Nat) : Len(s) = 0 => s = <<>>
    BY EmptySeq
  <2> QED
    BY <2>1
<1>2. ASSUME NEW n \in Nat, n \in L
      PROVE  n + 1 \in L
  <2>1. ASSUME NEW s \in Seq(Nat), Len(s) = n + 1
        PROVE  s \in T
    <3> DEFINE front == SubSeq(s, 1, n)
    <3>1. s[n + 1] \in Nat
      BY <2>1
    <3>2. front \in Seq(Nat) /\ Len(front) = n /\ \A i \in 1 .. n : front[i] = s[i]
      <4>1. \A i \in 1 .. n : s[i] \in Nat
        BY <2>1
      <4> QED
        BY <2>1, <4>1, SubSeqProperties
    <3> HIDE DEF front
    <3>3. Append(front, s[n + 1]) = s
      <4>1. /\ Append(front, s[n + 1]) \in Seq(Nat) /\ Len(Append(front, s[n + 1])) = n + 1
            /\ \A i \in 1 .. n : Append(front, s[n + 1])[i] = s[i]
            /\ Append(front, s[n + 1])[n + 1] = s[n + 1]
        BY <3>1, <3>2, AppendProperties
      <4>2. \A i \in 1 .. n + 1 : i \in 1 .. n \/ i = n + 1
        OBVIOUS
      <4>3. \A i \in 1 .. n + 1 : Append(front, s[n + 1])[i] = s[i]
        BY <4>1, <4>2
      <4> QED
        BY <2>1, <4>1, <4>3, SeqEqual
    <3>4. front \in T
      BY <1>2, <3>2
    <3> QED
      BY <3>1, <3>2, <3>3, <3>4
  <2> QED
    BY <2>1
<1>3. Nat \subseteq L
  <2> HIDE DEF L
  <2> QED
    BY <1>1, <1>2, InductionOverNat
<1>4. \A s \in Seq(Nat) : Len(s) \in Nat
  OBVIOUS
<1> QED
  BY <1>3, <1>4

\* Within is made by a recursive function, of which there is one.
Keeping(f, s, a, n) ==
  f = [i \in 0 .. n |->
         IF i = 0 THEN <<>> ELSE IF a - s[i] < window_seconds THEN Append(f[i - 1], s[i]) ELSE f[i - 1]]

LEMMA KeepingGoesOn ==
  ASSUME NEW s, NEW a, NEW n \in Nat, NEW g, Keeping(g, s, a, n)
  PROVE  \E f : Keeping(f, s, a, n + 1)
<1> DEFINE Next1 == IF a - s[n + 1] < window_seconds THEN Append(g[n], s[n + 1]) ELSE g[n]
           f == [i \in 0 .. n + 1 |-> IF i <= n THEN g[i] ELSE Next1]
           Body(i) == IF i = 0 THEN <<>>
                      ELSE IF a - s[i] < window_seconds THEN Append(f[i - 1], s[i]) ELSE f[i - 1]
<1>1. \A i \in 0 .. n : g[i] = IF i = 0 THEN <<>>
                              ELSE IF a - s[i] < window_seconds THEN Append(g[i - 1], s[i]) ELSE g[i - 1]
  BY DEF Keeping
<1>2. ASSUME NEW i \in 0 .. n + 1 PROVE f[i] = Body(i)
  <2>1. CASE i <= n
    <3>1. i \in 0 .. n /\ f[i] = g[i] /\ (i # 0 => i - 1 \in 0 .. n + 1 /\ i - 1 <= n)
      BY <2>1
    <3>2. i # 0 => f[i - 1] = g[i - 1]
      BY <3>1
    <3> QED
      BY <1>1, <3>1, <3>2
  <2>2. CASE ~ (i <= n)
    <3>1. i = n + 1 /\ i # 0 /\ i - 1 = n /\ n \in 0 .. n + 1
      BY <2>2
    <3>2. f[i] = Next1 /\ f[n] = g[n]
      BY <2>2, <3>1
    <3> QED
      BY <3>1, <3>2
  <2> QED
    BY <2>1, <2>2
<1>3. f = [i \in 0 .. n + 1 |-> Body(i)]
  <2> HIDE DEF Body, Next1
  <2> QED
    BY <1>2
<1>4. Keeping(f, s, a, n + 1)
  <2> HIDE DEF f
  <2> QED
    BY <1>3 DEF Keeping
<1> QED
  BY <1>4

LEMMA KeepingExists ==
  ASSUME NEW s, NEW a, NEW n \in Nat
  PROVE  \E f : Keeping(f, s, a, n)
<1> DEFINE T == {k \in Nat : \E f : Keeping(f, s, a, k)}
<1>1. 0 \in T
  <2> DEFINE f == [i \in 0 .. 0 |-> <<>>]
  <2>1. f = [i \in 0 .. 0 |->
               IF i = 0 THEN <<>> ELSE IF a - s[i] < window_seconds THEN Append(f[i - 1], s[i]) ELSE f[i - 1]]
    OBVIOUS
  <2>2. Keeping(f, s, a, 0)
    BY <2>1 DEF Keeping
  <2> QED
    BY <2>2
<1>2. \A k \in Nat : k \in T => k + 1 \in T
  BY KeepingGoesOn
<1>3. Nat \subseteq T
  <2> HIDE DEF T
  <2> QED
    BY <1>1, <1>2, InductionOverNat
<1> QED
  BY <1>3

LEMMA WithinByKeeping ==
  ASSUME NEW s \in Seq(Nat), NEW a
  PROVE  \E f : Keeping(f, s, a, Len(s)) /\ Within(s, a) = f[Len(s)]
<1>1. \E f : Keeping(f, s, a, Len(s))
  <2>1. Len(s) \in Nat
    OBVIOUS
  <2> QED
    BY <2>1, KeepingExists
<1> DEFINE f == CHOOSE f : Keeping(f, s, a, Len(s))
<1>2. Keeping(f, s, a, Len(s))
  <2>1. PICK g : Keeping(g, s, a, Len(s))
    BY <1>1
  <2> QED
    BY <2>1, Zenon
<1>3. Within(s, a) = f[Len(s)]
  BY DEF Within, Keeping
<1> QED
  BY <1>2, <1>3

\* What it makes of a common beginning is the same.
Begins(s, u, m) == \A i \in 1 .. m : s[i] = u[i]

LEMMA SameBeginning ==
  ASSUME NEW s, NEW u, NEW a, NEW m \in Nat, NEW n \in Nat, NEW f, NEW g,
         m <= n, Keeping(f, s, a, m), Keeping(g, u, a, n), Begins(s, u, m)
  PROVE  \A i \in 0 .. m : f[i] = g[i]
<1> DEFINE T == {i \in Nat : i <= m => f[i] = g[i]}
<1>1. /\ \A i \in 0 .. m : f[i] = IF i = 0 THEN <<>>
            ELSE IF a - s[i] < window_seconds THEN Append(f[i - 1], s[i]) ELSE f[i - 1]
      /\ \A i \in 0 .. n : g[i] = IF i = 0 THEN <<>>
            ELSE IF a - u[i] < window_seconds THEN Append(g[i - 1], u[i]) ELSE g[i - 1]
  BY DEF Keeping
<1>2. 0 \in T
  BY <1>1
<1>3. ASSUME NEW i \in Nat, i \in T PROVE i + 1 \in T
  <2>1. CASE i + 1 <= m
    <3>1. i + 1 \in 0 .. m /\ i + 1 \in 0 .. n /\ i + 1 \in 1 .. m /\ i + 1 # 0 /\ (i + 1) - 1 = i /\ i <= m
      BY <2>1
    <3>2. f[i] = g[i] /\ s[i + 1] = u[i + 1]
      BY <1>3, <3>1 DEF Begins
    <3>3. f[i + 1] = g[i + 1]
      BY <1>1, <3>1, <3>2
    <3> QED
      BY <3>3
  <2>2. CASE ~ (i + 1 <= m)
    BY <2>2
  <2> QED
    BY <2>1, <2>2
<1>4. Nat \subseteq T
  <2> HIDE DEF T
  <2> QED
    BY <1>2, <1>3, InductionOverNat
<1> QED
  BY <1>4

LEMMA WithinEmpty ==
  ASSUME NEW a
  PROVE  Within(<<>>, a) = <<>>
<1>1. <<>> \in Seq(Nat) /\ Len(<<>>) = 0
  OBVIOUS
<1>2. PICK f : Keeping(f, <<>>, a, 0) /\ Within(<<>>, a) = f[0]
  BY <1>1, WithinByKeeping
<1> QED
  BY <1>2 DEF Keeping

LEMMA WithinAppend ==
  ASSUME NEW s \in Seq(Nat), NEW e \in Nat, NEW a
  PROVE  Within(Append(s, e), a) =
           IF a - e < window_seconds THEN Append(Within(s, a), e) ELSE Within(s, a)
<1> DEFINE t == Append(s, e)
           n == Len(s)
<1>1. /\ t \in Seq(Nat) /\ Len(t) = n + 1 /\ n \in Nat /\ t[n + 1] = e
      /\ \A i \in 1 .. n : s[i] = t[i]
  BY AppendProperties
<1>2. PICK f : Keeping(f, s, a, n) /\ Within(s, a) = f[n]
  BY WithinByKeeping
<1> HIDE DEF t, n
<1>3. PICK g : Keeping(g, t, a, n + 1) /\ Within(t, a) = g[n + 1]
  BY <1>1, WithinByKeeping
<1>4. f[n] = g[n]
  <2>1. n <= n + 1 /\ n \in 0 .. n /\ n + 1 \in Nat
    BY <1>1
  <2>2. \A i \in 0 .. n : f[i] = g[i]
    <3> DEFINE k == n + 1
    <3>1. n \in Nat /\ k \in Nat /\ n <= k /\ t \in Seq(Nat)
      BY <1>1, <2>1
    <3>2. Keeping(f, s, a, n) /\ Keeping(g, t, a, k) /\ Begins(s, t, n)
      BY <1>1, <1>2, <1>3 DEF Begins
    <3> HIDE DEF k
    <3> QED
      BY <3>1, <3>2, SameBeginning
  <2> QED
    BY <2>1, <2>2
<1>5. g[n + 1] = IF a - t[n + 1] < window_seconds THEN Append(g[n], t[n + 1]) ELSE g[n]
  <2>1. \A i \in 0 .. n + 1 : g[i] = IF i = 0 THEN <<>>
            ELSE IF a - t[i] < window_seconds THEN Append(g[i - 1], t[i]) ELSE g[i - 1]
    BY <1>3 DEF Keeping
  <2>2. n + 1 \in 0 .. n + 1 /\ n + 1 # 0 /\ (n + 1) - 1 = n
    BY <1>1
  <2> QED
    BY <2>1, <2>2
<1> QED
  BY <1>1, <1>2, <1>3, <1>4, <1>5 DEF t

LEMMA WithinShorter ==
  ASSUME NEW s \in Seq(Nat), NEW a
  PROVE  Within(s, a) \in Seq(Nat) /\ Len(Within(s, a)) <= Len(s)
<1> DEFINE T == {u \in Seq(Nat) : Within(u, a) \in Seq(Nat) /\ Len(Within(u, a)) <= Len(u)}
<1>1. <<>> \in T
  <2>1. <<>> \in Seq(Nat) /\ Len(<<>>) <= Len(<<>>)
    OBVIOUS
  <2> QED
    BY <2>1, WithinEmpty
<1>2. ASSUME NEW u \in Seq(Nat), NEW e \in Nat, u \in T
      PROVE  Append(u, e) \in T
  <2>1. Append(u, e) \in Seq(Nat) /\ Len(Append(u, e)) = Len(u) + 1 /\ Len(u) \in Nat
    BY AppendProperties
  <2> DEFINE w == Within(u, a)
  <2>2. w \in Seq(Nat) /\ Len(w) <= Len(u) /\ Len(w) \in Nat
    BY <1>2
  <2> HIDE DEF w
  <2>3. Append(w, e) \in Seq(Nat) /\ Len(Append(w, e)) = Len(w) + 1
    BY <2>2, AppendProperties
  <2>4. Within(Append(u, e), a) \in {Append(w, e), w}
    BY WithinAppend DEF w
  <2>5. \A v \in {Append(w, e), w} : v \in Seq(Nat) /\ Len(v) <= Len(u) + 1
    <3>1. \A x, y \in Nat : x <= y => x <= y + 1 /\ x + 1 <= y + 1
      OBVIOUS
    <3>2. Len(w) <= Len(u) + 1 /\ Len(w) + 1 <= Len(u) + 1
      BY <2>1, <2>2, <3>1
    <3> QED
      BY <2>2, <2>3, <3>2
  <2>6. Within(Append(u, e), a) \in Seq(Nat) /\ Len(Within(Append(u, e), a)) <= Len(u) + 1
    BY <2>4, <2>5
  <2> QED
    BY <2>1, <2>6
<1>3. Seq(Nat) \subseteq T
  <2> HIDE DEF T
  <2> QED
    BY <1>1, <1>2, InductionOverSeq
<1> QED
  BY <1>3

\* What is left of what was left earlier is what is left.
LEMMA WithinWithin ==
  ASSUME NEW s \in Seq(Nat), NEW a \in Nat, NEW b \in Nat, a <= b
  PROVE  Within(Within(s, a), b) = Within(s, b)
<1> DEFINE T == {u \in Seq(Nat) : Within(Within(u, a), b) = Within(u, b)}
<1>1. <<>> \in T
  BY WithinEmpty
<1>2. ASSUME NEW u \in Seq(Nat), NEW e \in Nat, u \in T
      PROVE  Append(u, e) \in T
  <2>1. Append(u, e) \in Seq(Nat) /\ Within(u, a) \in Seq(Nat)
    BY WithinShorter, AppendProperties
  <2>2. Within(Within(u, a), b) = Within(u, b)
    BY <1>2
  <2>3. CASE a - e < window_seconds
    <3>1. Within(Append(u, e), a) = Append(Within(u, a), e)
      BY <2>3, WithinAppend
    <3>2. Within(Append(Within(u, a), e), b) =
            IF b - e < window_seconds THEN Append(Within(Within(u, a), b), e) ELSE Within(Within(u, a), b)
      BY <2>1, WithinAppend
    <3> QED
      BY <2>1, <2>2, <3>1, <3>2, WithinAppend
  <2>4. CASE ~ (a - e < window_seconds)
    <3>1. ~ (b - e < window_seconds)
      BY <2>4, CircuitAssumption
    <3> QED
      BY <2>1, <2>2, <2>4, <3>1, WithinAppend
  <2> QED
    BY <2>3, <2>4
<1>3. Seq(Nat) \subseteq T
  <2> HIDE DEF T
  <2> QED
    BY <1>1, <1>2, InductionOverSeq
<1> QED
  BY <1>3
\* The failures of a process since its last success, and when the latest was.
Since(h) == SubSeq(h.failures, h.success + 1, Len(h.failures))
Latest(s) == IF Len(s) = 0 THEN 0 ELSE s[Len(s)]

\* A process remembers no more failures than it had.
History(m, h) ==
  /\ m \in Seq(Nat) /\ h.failures \in Seq(Nat) /\ h.success \in 0 .. Len(h.failures)
  /\ h = [failures |-> h.failures, success |-> h.success]
  /\ Len(m) <= Len(h.failures)

\* Nor does the list a call is about to write hold more; who opens the circuit has seen enough.
Bounded(c, h, at) ==
  /\ c.step = "bind" => c.list \in Seq(Nat) /\ Len(c.list) <= Len(h.failures)
  /\ c.step \in {"bind", "append"} => c.now \in Nat /\ c.now <= at
  /\ c.step \in {"open", "persist"} => Len(h.failures) >= failure_threshold

\* What a process remembers that has one thread: what was left of the window at the latest failure.
Own(c, m, h, at) ==
  /\ Latest(Since(h)) <= at
  /\ c.step \in {"bind", "append"} => Latest(Since(h)) <= c.now
  /\ c.step = "bind" => c.list = Within(Since(h), c.now)
  /\ c.step = "append" => m = Within(Since(h), c.now)
  /\ c.step # "append" => m = Within(Since(h), Latest(Since(h)))
  /\ c.step \in {"open", "persist"} => Len(m) >= failure_threshold

CauseInv ==
  /\ DOMAIN past = Processes
  /\ \A p \in Processes : History(memory[p].failures, past[p])
  /\ \A t \in Threads :
       /\ Bounded(call[t], past[home[t]], clock)
       /\ Alone(t) => Own(call[t], memory[home[t]].failures, past[home[t]], clock)

LEMMA SinceIs ==
  ASSUME NEW h, NEW m, History(m, h)
  PROVE  /\ Since(h) \in Seq(Nat)
         /\ Len(Since(h)) = Len(h.failures) - h.success
         /\ \A i \in 1 .. Len(h.failures) - h.success : Since(h)[i] = h.failures[i + h.success]
<1> DEFINE f == h.failures
           k == h.success
           n == Len(f)
<1>1. f \in Seq(Nat) /\ n \in Nat /\ k \in 0 .. n
  BY DEF History
<1>2. Since(h) = SubSeq(f, k + 1, n)
  BY DEF Since
<1> HIDE DEF f, k
<1>3. \A i \in k + 1 .. n : f[i] \in Nat
  BY <1>1
<1>4. /\ SubSeq(f, k + 1, n) \in Seq(Nat) /\ Len(SubSeq(f, k + 1, n)) = n - k
      /\ \A i \in 1 .. n - k : SubSeq(f, k + 1, n)[i] = f[i + k]
  <2> DEFINE q == k + 1
             r == SubSeq(f, q, n)
  <2>1. q \in Int /\ n \in Int /\ n - q + 1 = n - k /\ n - k \in Nat /\ (q <= n \/ n - k = 0)
    BY <1>1
  <2>2. \A i \in 1 .. n - k : q + i - 1 = i + k
    BY <1>1
  <2>3. \A i \in q .. n : f[i] \in Nat
    BY <1>3
  <2> HIDE DEF q
  <2>4. /\ r \in Seq(Nat) /\ Len(r) = IF q <= n THEN n - q + 1 ELSE 0
        /\ \A i \in 1 .. n - q + 1 : r[i] = f[q + i - 1]
    BY <2>1, <2>3, SubSeqProperties
  <2> HIDE DEF r
  <2>5. Len(r) = n - k /\ \A i \in 1 .. n - k : r[i] = f[i + k]
    BY <2>1, <2>2, <2>4
  <2> QED
    BY <2>4, <2>5 DEF q, r
<1> QED
  BY <1>2, <1>4 DEF f, k

LEMMA SinceGrows ==
  ASSUME NEW h, NEW m, NEW e \in Nat, History(m, h)
  PROVE  Since([failures |-> Append(h.failures, e), success |-> h.success]) = Append(Since(h), e)
<1> DEFINE f == h.failures
           k == h.success
           n == Len(f)
           g == [failures |-> Append(f, e), success |-> k]
           s == Since(h)
           r == Since(g)
<1>1. f \in Seq(Nat) /\ n \in Nat /\ k \in 0 .. n
  BY DEF History
<1>2. Append(f, e) \in Seq(Nat) /\ Len(Append(f, e)) = n + 1 /\ Append(f, e)[n + 1] = e
      /\ \A i \in 1 .. n : Append(f, e)[i] = f[i]
  BY <1>1, AppendProperties
<1>3. g.failures = Append(f, e) /\ g.success = k
  OBVIOUS
<1>4. /\ s \in Seq(Nat) /\ Len(s) = n - k
      /\ \A i \in 1 .. n - k : s[i] = f[i + k]
  BY SinceIs
<1>5. /\ r \in Seq(Nat) /\ Len(r) = (n + 1) - k
      /\ \A i \in 1 .. (n + 1) - k : r[i] = Append(f, e)[i + k]
  <2>1. History(<<>>, g)
    <3>1. <<>> \in Seq(Nat) /\ Len(<<>>) = 0 /\ k \in 0 .. n + 1 /\ 0 <= n + 1
      BY <1>1
    <3> QED
      BY <1>2, <1>3, <3>1 DEF History
  <2> HIDE DEF g
  <2>2. /\ r \in Seq(Nat) /\ Len(r) = Len(g.failures) - g.success
        /\ \A i \in 1 .. Len(g.failures) - g.success : r[i] = g.failures[i + g.success]
    BY <2>1, SinceIs
  <2> HIDE DEF r
  <2> QED
    BY <1>2, <1>3, <2>2
<1> HIDE DEF f, k, s, r
<1>6. /\ Append(s, e) \in Seq(Nat) /\ Len(Append(s, e)) = (n - k) + 1 /\ Append(s, e)[(n - k) + 1] = e
      /\ \A i \in 1 .. n - k : Append(s, e)[i] = s[i]
  BY <1>4, AppendProperties
<1>7. (n + 1) - k = (n - k) + 1 /\ n - k \in Nat
  BY <1>1
<1>8. ASSUME NEW i \in 1 .. (n - k) + 1
      PROVE  r[i] = Append(s, e)[i]
  <2>1. CASE i = (n - k) + 1
    <3>1. i + k = n + 1
      BY <1>1, <2>1
    <3> QED
      BY <1>2, <1>5, <1>6, <1>7, <2>1, <3>1
  <2>2. CASE i \in 1 .. n - k
    <3>1. i + k \in 1 .. n /\ i \in 1 .. (n + 1) - k
      BY <1>1, <2>2
    <3>2. r[i] = f[i + k]
      BY <1>2, <1>5, <3>1
    <3>3. Append(s, e)[i] = f[i + k]
      BY <1>4, <1>6, <2>2
    <3> QED
      BY <3>2, <3>3
  <2>3. i = (n - k) + 1 \/ i \in 1 .. n - k
    BY <1>7
  <2> QED
    BY <2>1, <2>2, <2>3
<1>9. r = Append(s, e)
  BY <1>5, <1>6, <1>7, <1>8, SeqEqual
<1> QED
  BY <1>9 DEF f, k, s, r

LEMMA LatestIsNat ==
  ASSUME NEW s \in Seq(Nat)
  PROVE  Latest(s) \in Nat
<1>1. CASE Len(s) = 0
  BY <1>1 DEF Latest
<1>2. CASE Len(s) # 0
  <2>1. Len(s) \in 1 .. Len(s)
    BY <1>2
  <2> QED
    BY <1>2, <2>1 DEF Latest
<1> QED
  BY <1>1, <1>2

\* A step of one thread, told by what it leaves of its call, its process's list and its history.
LEMMA ThreadKeeps ==
  ASSUME CircuitInv, CauseInv, NEW t \in Threads, NEW d, NEW m, NEW h,
         UNCHANGED <<clock, home>>, DOMAIN past' = Processes,
         call'[t] = d, memory'[home[t]].failures = m, past'[home[t]] = h,
         \A u \in Threads : u # t =>
           call'[u].step = call[u].step /\ call'[u].list = call[u].list /\ call'[u].now = call[u].now,
         \A p \in Processes : p # home[t] => memory'[p].failures = memory[p].failures /\ past'[p] = past[p],
         History(m, h), Len(past[home[t]].failures) <= Len(h.failures),
         Bounded(d, h, clock), Alone(t) => Own(d, m, h, clock)
  PROVE  CauseInv'
<1>1. home[t] \in Processes /\ \A u \in Threads : home[u] \in Processes
  BY DEF CircuitInv
<1>2. \A p \in Processes : History(memory'[p].failures, past'[p])
  BY DEF CauseInv
<1>3. \A p \in Processes : Len(past[p].failures) \in Nat /\ Len(past'[p].failures) \in Nat
                           /\ Len(past[p].failures) <= Len(past'[p].failures)
  <2>1. \A p \in Processes : past[p].failures \in Seq(Nat) /\ past'[p].failures \in Seq(Nat)
    BY <1>2 DEF CauseInv, History
  <2>2. \A p \in Processes : Len(past[p].failures) \in Nat /\ Len(past'[p].failures) \in Nat
    BY <2>1
  <2> QED
    BY <2>2
<1>4. ASSUME NEW u \in Threads, u # t
      PROVE  /\ Bounded(call'[u], past'[home[u]], clock)
             /\ Alone(u) => Own(call'[u], memory'[home[u]].failures, past'[home[u]], clock)
  <2>1. call'[u].step = call[u].step /\ call'[u].list = call[u].list /\ call'[u].now = call[u].now
    BY <1>4
  <2>2. Bounded(call'[u], past'[home[u]], clock)
    <3>1. Bounded(call[u], past[home[u]], clock)
      BY DEF CauseInv
    <3>2. /\ Len(past[home[u]].failures) \in Nat /\ Len(past'[home[u]].failures) \in Nat
          /\ Len(past[home[u]].failures) <= Len(past'[home[u]].failures) /\ failure_threshold \in Nat
      BY <1>1, <1>3, CircuitAssumption
    <3>3. call[u].list \in Seq(Nat) => Len(call[u].list) \in Nat
      OBVIOUS
    <3> QED
      BY <2>1, <3>1, <3>2, <3>3 DEF Bounded
  <2>3. ASSUME Alone(u)
        PROVE  Own(call'[u], memory'[home[u]].failures, past'[home[u]], clock)
    <3>1. home[u] # home[t]
      BY <1>4, <2>3 DEF Alone
    <3>2. memory'[home[u]].failures = memory[home[u]].failures /\ past'[home[u]] = past[home[u]]
      BY <1>1, <3>1
    <3>3. Own(call[u], memory[home[u]].failures, past[home[u]], clock)
      BY <2>3 DEF CauseInv
    <3> QED
      BY <2>1, <3>2, <3>3 DEF Own
  <2> QED
    BY <2>2, <2>3
<1>5. \A u \in Threads : Alone(u)' <=> Alone(u)
  BY DEF Alone
<1>6. ASSUME NEW u \in Threads
      PROVE  /\ Bounded(call'[u], past'[home'[u]], clock')
             /\ Alone(u) => Own(call'[u], memory'[home'[u]].failures, past'[home'[u]], clock')
  <2>1. home'[u] = home[u] /\ clock' = clock
    OBVIOUS
  <2> QED
    BY <1>4, <2>1
<1> QED
  BY <1>2, <1>5, <1>6 DEF CauseInv

\* A step that writes no failures and decides nothing about them.
LEMMA QuietStep ==
  ASSUME CircuitInv, CauseInv, NEW t \in Threads, NEW d,
         UNCHANGED <<clock, home, past>>,
         call'[t] = d, d.step \notin {"bind", "append"}, call[t].step # "append",
         d.step \in {"open", "persist"} => Len(memory[home[t]].failures) >= failure_threshold
                                           \/ call[t].step \in {"open", "persist"},
         \A u \in Threads : u # t =>
           call'[u].step = call[u].step /\ call'[u].list = call[u].list /\ call'[u].now = call[u].now,
         \A p \in Processes : memory'[p].failures = memory[p].failures
  PROVE  CauseInv'
<1> DEFINE m == memory[home[t]].failures
           h == past[home[t]]
<1>1. home[t] \in Processes
  BY DEF CircuitInv
<1>2. History(m, h) /\ Bounded(call[t], h, clock) /\ (Alone(t) => Own(call[t], m, h, clock))
  BY <1>1 DEF CauseInv
<1>3. memory'[home[t]].failures = m /\ past'[home[t]] = h /\ DOMAIN past' = Processes
  BY <1>1 DEF CauseInv
<1>4. Len(m) \in Nat /\ Len(h.failures) \in Nat /\ Len(m) <= Len(h.failures) /\ failure_threshold \in Nat
  <2>1. m \in Seq(Nat) /\ h.failures \in Seq(Nat) /\ Len(m) <= Len(h.failures)
    BY <1>2 DEF History
  <2> HIDE DEF m, h
  <2> QED
    BY <2>1, CircuitAssumption
<1> HIDE DEF h
<1>5. Bounded(d, h, clock)
  <2>1. d.step \in {"open", "persist"} => Len(h.failures) >= failure_threshold
    BY <1>2, <1>4 DEF Bounded
  <2> QED
    BY <2>1 DEF Bounded
<1>6. Alone(t) => Own(d, m, h, clock)
  BY <1>2 DEF Own
<1>7. \A p \in Processes : p # home[t] => memory'[p].failures = memory[p].failures /\ past'[p] = past[p]
  OBVIOUS
<1>8. Len(past[home[t]].failures) <= Len(h.failures)
  BY <1>4 DEF h
<1> HIDE DEF m
<1> QED
  BY <1>2, <1>3, <1>5, <1>6, <1>7, <1>8, ThreadKeeps

\* What a process remembers of its window when a failure is put behind the list.
LEMMA OwnAppend ==
  ASSUME NEW m, NEW h, NEW e \in Nat, History(m, h), m = Within(Since(h), e)
  PROVE  LET g == [failures |-> Append(h.failures, e), success |-> h.success]
         IN  Latest(Since(g)) = e /\ Append(m, e) = Within(Since(g), Latest(Since(g)))
<1> DEFINE g == [failures |-> Append(h.failures, e), success |-> h.success]
           s == Since(h)
<1>1. s \in Seq(Nat)
  BY SinceIs
<1>2. Since(g) = Append(s, e)
  BY SinceGrows
<1> HIDE DEF g, s
<1>3. Len(Append(s, e)) = Len(s) + 1 /\ Append(s, e)[Len(s) + 1] = e /\ Len(s) \in Nat
  BY <1>1, AppendProperties
<1>4. Latest(Append(s, e)) = e
  BY <1>3 DEF Latest
<1>5. Within(Append(s, e), e) = Append(m, e)
  <2>1. e - e < window_seconds
    BY CircuitAssumption
  <2> QED
    BY <1>1, <2>1, WithinAppend DEF s
<1> QED
  BY <1>2, <1>4, <1>5 DEF g

\* The list a call makes of what its process remembers.
LEMMA OwnFilter ==
  ASSUME NEW m, NEW h, NEW at \in Nat, History(m, h), m = Within(Since(h), Latest(Since(h))), Latest(Since(h)) <= at
  PROVE  Within(m, at) = Within(Since(h), at)
<1> DEFINE s == Since(h)
           l == Latest(s)
<1>1. s \in Seq(Nat)
  BY SinceIs
<1> HIDE DEF s
<1>2. l \in Nat
  BY <1>1, LatestIsNat
<1>3. m = Within(s, l) /\ l <= at
  BY DEF s
<1> HIDE DEF l
<1>4. Within(Within(s, l), at) = Within(s, at)
  BY <1>1, <1>2, <1>3, WithinWithin
<1> QED
  BY <1>3, <1>4 DEF s

LEMMA OwnForget ==
  ASSUME NEW m, NEW h, History(m, h)
  PROVE  LET g == [failures |-> h.failures, success |-> Len(h.failures)]
         IN  History(<<>>, g) /\ Latest(Since(g)) = 0 /\ <<>> = Within(Since(g), Latest(Since(g)))
<1> DEFINE g == [failures |-> h.failures, success |-> Len(h.failures)]
<1>1. h.failures \in Seq(Nat) /\ Len(h.failures) \in Nat
  BY DEF History
<1>2. g.failures = h.failures /\ g.success = Len(h.failures) /\ g = [failures |-> g.failures, success |-> g.success]
  OBVIOUS
<1>3. <<>> \in Seq(Nat) /\ Len(<<>>) = 0
  OBVIOUS
<1> HIDE DEF g
<1>4. History(<<>>, g)
  <2>1. g.success \in 0 .. Len(g.failures) /\ 0 <= Len(g.failures)
    BY <1>1, <1>2
  <2> QED
    BY <1>1, <1>2, <1>3, <2>1 DEF History
<1>5. Since(g) = <<>>
  <2>1. Since(g) \in Seq(Nat) /\ Len(Since(g)) = Len(g.failures) - g.success
    BY <1>4, SinceIs
  <2>2. Len(Since(g)) = 0
    BY <1>1, <1>2, <2>1
  <2> QED
    BY <2>1, <2>2, EmptySeq
<1>6. Latest(<<>>) = 0
  BY <1>3 DEF Latest
<1> QED
  BY <1>4, <1>5, <1>6, WithinEmpty DEF g

LEMMA CauseThreadStep ==
  ASSUME CircuitInv, CauseInv, NEW t \in Threads, ThreadStep(t)
  PROVE  CauseInv'
<1> DEFINE c == call[t]
           m == memory[home[t]].failures
           h == past[home[t]]
<1>1. /\ home[t] \in Processes /\ DOMAIN call = Threads /\ DOMAIN memory = Processes /\ DOMAIN past = Processes
      /\ clock \in Nat /\ \A p \in Processes : DOMAIN memory[p] = {"until", "failures"}
      /\ \A u \in Threads : LookOf(call[u])
  BY DEF CircuitInv, CauseInv
<1>2. History(m, h) /\ Bounded(c, h, clock) /\ (Alone(t) => Own(c, m, h, clock))
  BY <1>1 DEF CauseInv
<1>3. m \in Seq(Nat) /\ h.failures \in Seq(Nat) /\ Len(m) \in Nat /\ Len(h.failures) \in Nat /\ Len(m) <= Len(h.failures)
  BY <1>2 DEF History
<1>4. failure_threshold \in Nat \ {0} /\ window_seconds \in Nat \ {0}
  BY CircuitAssumption
<1>5. ASSUME NEW d, call' = [call EXCEPT ![t] = d], UNCHANGED <<clock, home, memory, past>>,
             d.step \notin {"bind", "append"}, c.step # "append",
             d.step \in {"open", "persist"} => Len(m) >= failure_threshold \/ c.step \in {"open", "persist"}
      PROVE  CauseInv'
  <2>1. call'[t] = d /\ \A u \in Threads : u # t => call'[u] = call[u]
    BY <1>1, <1>5
  <2> QED
    BY <1>5, <2>1, QuietStep
<1>6. ASSUME NEW until, NEW step, WriteUntil(t, until, step), UNCHANGED <<clock, home, past>>,
             step \notin {"bind", "append"}, c.step # "append",
             step \in {"open", "persist"} => c.step \in {"open", "persist"}
      PROVE  CauseInv'
  <2> DEFINE d == [c EXCEPT !.step = step]
  <2>1. call'[t] = d /\ d.step = step
    BY <1>1, <1>6 DEF WriteUntil, LookOf
  <2>2. ASSUME NEW u \in Threads, u # t
        PROVE  call'[u].step = call[u].step /\ call'[u].list = call[u].list /\ call'[u].now = call[u].now
    <3>1. call'[u] = call[u] \/ call'[u] = [call[u] EXCEPT !.overwritten = TRUE]
      BY <1>6, <2>2 DEF WriteUntil
    <3> QED
      BY <1>1, <3>1 DEF LookOf
  <2>3. \A p \in Processes : memory'[p].failures = memory[p].failures
    BY <1>1, <1>6 DEF WriteUntil
  <2> HIDE DEF d
  <2> QED
    BY <1>6, <2>1, <2>2, <2>3, QuietStep
<1>7. ASSUME NEW n, n \in {NoCall, [NoCall EXCEPT !.records = FALSE, !.look = 2]}, NEW blank, Begin(t, n, blank)
      PROVE  CauseInv'
  <2> DEFINE step == IF blank THEN "answered" ELSE "look"
             answer == IF blank THEN "empty_content" ELSE "none"
             d == [n EXCEPT !.step = step, !.answer = answer]
  <2>1. "step" \in DOMAIN n
    <3>1. "step" \in DOMAIN NoCall
      BY DEF NoCall
    <3>2. DOMAIN [NoCall EXCEPT !.records = FALSE, !.look = 2] = DOMAIN NoCall
      OBVIOUS
    <3> QED
      BY <1>7, <3>1, <3>2
  <2>2. call' = [call EXCEPT ![t] = d] /\ UNCHANGED <<clock, home, memory, past>> /\ c.step \in {"idle", "answered"}
    BY <1>7 DEF Begin
  <2>3. step \in {"answered", "look"}
    OBVIOUS
  <2> HIDE DEF step, answer
  <2>4. d.step = step
    BY <2>1
  <2> HIDE DEF d
  <2> QED
    BY <1>5, <2>2, <2>3, <2>4
<1>8. CASE Look(t)
  <2> DEFINE b == [c EXCEPT !.told = 0, !.overwritten = FALSE]
             d == IF ClosedInMemory(t) THEN [b EXCEPT !.step = "sync"] ELSE Looked(b, TRUE)
  <2>1. d.step \in {"sync", "look", "answered"}
    <3>1. LookOf(b) /\ b.look = c.look
      BY <1>1 DEF LookOf
    <3>2. CASE ClosedInMemory(t)
      BY <3>1, <3>2 DEF LookOf
    <3>3. CASE ~ClosedInMemory(t)
      BY <3>1, <3>3 DEF LookOf, Looked
    <3> QED
      BY <3>2, <3>3
  <2>2. call' = [call EXCEPT ![t] = d] /\ UNCHANGED <<clock, home, memory, past>> /\ c.step = "look"
    BY <1>8 DEF Look
  <2> HIDE DEF d
  <2> QED
    BY <1>5, <2>1, <2>2
<1>9. CASE SelectRow(t)
  <2>1. PICK d : call' = [call EXCEPT ![t] = d] /\ d.step \in {"take", "again"}
    <3>1. CASE call' = [call EXCEPT ![t].step = "take", ![t].told = expires_at]
      <4> DEFINE d == [c EXCEPT !.step = "take", !.told = expires_at]
      <4>1. d.step = "take" /\ call' = [call EXCEPT ![t] = d]
        BY <1>1, <3>1 DEF LookOf
      <4> QED
        BY <4>1
    <3>2. CASE call' = [call EXCEPT ![t].step = "again"]
      <4> DEFINE d == [c EXCEPT !.step = "again"]
      <4>1. d.step = "again" /\ call' = [call EXCEPT ![t] = d]
        BY <1>1, <3>2 DEF LookOf
      <4> QED
        BY <4>1
    <3> QED
      BY <1>9, <3>1, <3>2 DEF SelectRow
  <2>2. UNCHANGED <<clock, home, memory, past>> /\ c.step = "sync"
    BY <1>9 DEF SelectRow
  <2> QED
    BY <1>5, <2>1, <2>2
<1>10. CASE LookAgain(t)
  <2> DEFINE d == Looked(c, ~ClosedInMemory(t))
  <2>1. d.step \in {"look", "answered", "send"}
    BY <1>1 DEF LookOf, Looked
  <2>2. call' = [call EXCEPT ![t] = d] /\ UNCHANGED <<clock, home, memory, past>> /\ c.step = "again"
    BY <1>10 DEF LookAgain
  <2> HIDE DEF d
  <2> QED
    BY <1>5, <2>1, <2>2
<1>11. CASE Send(t)
  <2>1. PICK how \in {"success", "failure", "permanent", "no_api_key"} :
          call' = [call EXCEPT ![t].step = IF call[t].records /\ how \in {"success", "failure"} THEN how ELSE "answered",
                               ![t].answer = CASE how = "success" -> "scored"
                                               [] how = "no_api_key" -> "no_api_key"
                                               [] OTHER -> "api_error",
                               ![t].circuit_open = @ \/ how # "success"]
    BY <1>11 DEF Send
  <2> DEFINE step == IF call[t].records /\ how \in {"success", "failure"} THEN how ELSE "answered"
             answer == CASE how = "success" -> "scored"
                         [] how = "no_api_key" -> "no_api_key"
                         [] OTHER -> "api_error"
             open == c.circuit_open \/ how # "success"
             d == [c EXCEPT !.step = step, !.answer = answer, !.circuit_open = open]
  <2>2. call' = [call EXCEPT ![t] = d]
    BY <1>1, <2>1 DEF LookOf
  <2>3. step \in {"success", "failure", "answered"}
    OBVIOUS
  <2> HIDE DEF step, answer, open
  <2>4. d.step = step
    BY <1>1 DEF LookOf
  <2>5. UNCHANGED <<clock, home, memory, past>> /\ c.step = "send"
    BY <1>11 DEF Send
  <2> HIDE DEF d
  <2> QED
    BY <1>5, <2>2, <2>3, <2>4, <2>5
<1>12. CASE CountFailures(t)
  <2> DEFINE step == IF Len(m) >= failure_threshold THEN "open" ELSE "answered"
             d == [c EXCEPT !.step = step]
  <2>1. call' = [call EXCEPT ![t] = d] /\ UNCHANGED <<clock, home, memory, past>> /\ c.step = "count"
    BY <1>1, <1>12 DEF CountFailures
  <2>2. d.step = step
    BY <1>1 DEF LookOf
  <2>3. step \in {"open", "answered"} /\ (step = "open" => Len(m) >= failure_threshold)
    OBVIOUS
  <2> HIDE DEF d, step, m
  <2> QED
    BY <1>5, <2>1, <2>2, <2>3
<1>13. CASE PersistCircuit(t)
  <2> DEFINE d == [c EXCEPT !.step = "answered"]
  <2>1. d.step = "answered" /\ call' = [call EXCEPT ![t] = d]
    BY <1>1, <1>13 DEF PersistCircuit, LookOf
  <2>2. UNCHANGED <<clock, home, memory, past>> /\ c.step = "persist"
    BY <1>13 DEF PersistCircuit
  <2> HIDE DEF d
  <2> QED
    BY <1>5, <2>1, <2>2
<1>14. CASE TakeRow(t) \/ CloseInMemory(t) \/ OpenCircuit(t)
  <2>1. CASE TakeRow(t)
    BY <1>6, <2>1 DEF TakeRow
  <2>2. CASE CloseInMemory(t)
    BY <1>6, <2>2 DEF CloseInMemory
  <2>3. CASE OpenCircuit(t)
    BY <1>6, <2>3 DEF OpenCircuit
  <2> QED
    BY <1>14, <2>1, <2>2, <2>3
<1>15. CASE ForgetFailures(t)
  <2> DEFINE d == [c EXCEPT !.step = "close"]
             g == [failures |-> h.failures, success |-> Len(h.failures)]
  <2>1. call' = [call EXCEPT ![t] = d] /\ d.step = "close"
    BY <1>1, <1>15 DEF ForgetFailures, LookOf
  <2>2. /\ UNCHANGED <<clock, home>> /\ memory' = [memory EXCEPT ![home[t]].failures = <<>>]
        /\ past' = [past EXCEPT ![home[t]] = g]
    BY <1>15 DEF ForgetFailures
  <2>3. History(<<>>, g) /\ Latest(Since(g)) = 0 /\ <<>> = Within(Since(g), Latest(Since(g)))
    BY <1>2, OwnForget
  <2>4. Len(past[home[t]].failures) <= Len(g.failures)
    BY <1>3
  <2> HIDE DEF d, g
  <2>5. Bounded(d, g, clock) /\ Own(d, <<>>, g, clock)
    BY <1>1, <2>1, <2>3 DEF Bounded, Own
  <2>6. /\ call'[t] = d /\ \A u \in Threads : u # t => call'[u] = call[u]
        /\ memory'[home[t]].failures = <<>> /\ past'[home[t]] = g /\ DOMAIN past' = Processes
        /\ \A p \in Processes : p # home[t] => memory'[p].failures = memory[p].failures /\ past'[p] = past[p]
    BY <1>1, <2>1, <2>2
  <2> QED
    BY <2>2, <2>3, <2>4, <2>5, <2>6, ThreadKeeps
<1>16. CASE FilterFailures(t)
  <2> DEFINE list == Within(m, clock)
             d == [c EXCEPT !.step = "bind", !.now = clock, !.list = list]
  <2>1. /\ call' = [call EXCEPT ![t] = d] /\ UNCHANGED <<clock, home, memory, past>>
        /\ c.step = "failure"
    BY <1>1, <1>16 DEF FilterFailures
  <2>2. d.step = "bind" /\ d.now = clock /\ d.list = list
    BY <1>1 DEF LookOf
  <2>3. list \in Seq(Nat) /\ Len(list) <= Len(h.failures)
    <3>1. list \in Seq(Nat) /\ Len(list) <= Len(m)
      BY <1>3, WithinShorter
    <3> HIDE DEF list, m, h
    <3>2. Len(list) \in Nat
      BY <3>1
    <3> QED
      BY <1>3, <3>1, <3>2
  <2>4. ASSUME Alone(t) PROVE Own(d, m, h, clock)
    <3>1. m = Within(Since(h), Latest(Since(h))) /\ Latest(Since(h)) <= clock
      BY <1>2, <2>1, <2>4 DEF Own
    <3>2. list = Within(Since(h), clock)
      BY <1>1, <1>2, <3>1, OwnFilter
    <3> HIDE DEF d, list, m, h
    <3> QED
      BY <2>2, <3>1, <3>2 DEF Own
  <2> HIDE DEF d, list
  <2>5. Bounded(d, h, clock)
    BY <1>1, <2>2, <2>3 DEF Bounded
  <2>6. /\ call'[t] = d /\ \A u \in Threads : u # t => call'[u] = call[u]
        /\ memory'[home[t]].failures = m /\ past'[home[t]] = h /\ DOMAIN past' = Processes
        /\ \A p \in Processes : p # home[t] => memory'[p].failures = memory[p].failures /\ past'[p] = past[p]
        /\ Len(past[home[t]].failures) <= Len(h.failures)
    BY <1>1, <1>3, <2>1
  <2> HIDE DEF m, h
  <2> QED
    BY <1>2, <2>1, <2>4, <2>5, <2>6, ThreadKeeps
<1>17. CASE BindFailures(t)
  <2> DEFINE list == c.list
             d == [c EXCEPT !.step = "append", !.list = <<>>]
  <2>1. /\ call' = [call EXCEPT ![t] = d] /\ memory' = [memory EXCEPT ![home[t]].failures = list]
        /\ UNCHANGED <<clock, home, past>> /\ c.step = "bind"
    BY <1>1, <1>17 DEF BindFailures
  <2>2. d.step = "append" /\ d.now = c.now
    BY <1>1 DEF LookOf
  <2>3. History(list, h)
    BY <1>2, <2>1 DEF History, Bounded
  <2>4. ASSUME Alone(t) PROVE Own(d, list, h, clock)
    BY <1>2, <2>1, <2>2, <2>4 DEF Own
  <2> HIDE DEF d, list
  <2>5. Bounded(d, h, clock)
    BY <1>2, <2>1, <2>2 DEF Bounded
  <2>6. /\ call'[t] = d /\ \A u \in Threads : u # t => call'[u] = call[u]
        /\ memory'[home[t]].failures = list /\ past'[home[t]] = h /\ DOMAIN past' = Processes
        /\ \A p \in Processes : p # home[t] => memory'[p].failures = memory[p].failures /\ past'[p] = past[p]
        /\ Len(past[home[t]].failures) <= Len(h.failures)
    BY <1>1, <1>3, <2>1
  <2> HIDE DEF h
  <2> QED
    BY <2>1, <2>3, <2>4, <2>5, <2>6, ThreadKeeps
<1>18. CASE AppendFailure(t)
  <2> DEFINE e == c.now
             d == [c EXCEPT !.step = "count", !.now = 0]
             g == [failures |-> Append(h.failures, e), success |-> h.success]
             n == Append(m, e)
  <2>1. /\ call' = [call EXCEPT ![t] = d] /\ memory' = [memory EXCEPT ![home[t]].failures = n]
        /\ UNCHANGED <<clock, home>> /\ c.step = "append"
    BY <1>1, <1>18 DEF AppendFailure
  <2>2. d.step = "count"
    BY <1>1 DEF LookOf
  <2>3. past' = [past EXCEPT ![home[t]] = g]
    <3>1. past' = [past EXCEPT ![home[t]].failures = Append(h.failures, e)]
      BY <1>18 DEF AppendFailure
    <3>2. h = [failures |-> h.failures, success |-> h.success]
      BY <1>2 DEF History
    <3>3. [h EXCEPT !.failures = Append(h.failures, e)] = g
      BY <3>2
    <3> QED
      BY <3>1, <3>3
  <2>4. e \in Nat /\ e <= clock
    BY <1>2, <2>1 DEF Bounded
  <2>5. /\ Append(h.failures, e) \in Seq(Nat) /\ Len(Append(h.failures, e)) = Len(h.failures) + 1
        /\ n \in Seq(Nat) /\ Len(n) = Len(m) + 1
    BY <1>3, <2>4, AppendProperties
  <2>6. g.failures = Append(h.failures, e) /\ g.success = h.success /\ g = [failures |-> g.failures, success |-> g.success]
    OBVIOUS
  <2>7. ASSUME Alone(t) PROVE Latest(Since(g)) = e /\ n = Within(Since(g), Latest(Since(g)))
    <3>1. m = Within(Since(h), e)
      BY <1>2, <2>1, <2>7 DEF Own
    <3> HIDE DEF e, m, h
    <3> QED
      BY <1>2, <2>4, <3>1, OwnAppend
  <2> HIDE DEF d, g, n, e
  <2>8. History(n, g)
    <3>1. h.success \in 0 .. Len(h.failures) + 1 /\ Len(m) + 1 <= Len(h.failures) + 1
      BY <1>2, <1>3 DEF History
    <3> HIDE DEF h, m
    <3> QED
      BY <2>5, <2>6, <3>1 DEF History
  <2>9. ASSUME Alone(t) PROVE Own(d, n, g, clock)
    BY <2>2, <2>4, <2>7, <2>9 DEF Own
  <2>10. Bounded(d, g, clock)
    BY <2>2 DEF Bounded
  <2>11. /\ call'[t] = d /\ \A u \in Threads : u # t => call'[u] = call[u]
         /\ memory'[home[t]].failures = n /\ past'[home[t]] = g /\ DOMAIN past' = Processes
         /\ \A p \in Processes : p # home[t] => memory'[p].failures = memory[p].failures /\ past'[p] = past[p]
    BY <1>1, <2>1, <2>3
  <2>12. Len(past[home[t]].failures) <= Len(g.failures)
    BY <1>3, <2>5, <2>6
  <2> HIDE DEF h, m
  <2> QED
    BY <2>1, <2>8, <2>9, <2>10, <2>11, <2>12, ThreadKeeps
<1> QED
  BY <1>7, <1>8, <1>9, <1>10, <1>11, <1>12, <1>13, <1>14, <1>15, <1>16, <1>17, <1>18 DEF ThreadStep, ScoreContent, Annotate

LEMMA CauseStep == CircuitInv /\ CauseInv /\ [CircuitNext]_circuitVars => CauseInv'
<1> SUFFICES ASSUME CircuitInv, CauseInv, [CircuitNext]_circuitVars PROVE CauseInv'
  OBVIOUS
<1>1. CASE Tick
  <2>1. clock' = clock + 1 /\ UNCHANGED <<home, memory, call, past>> /\ clock \in Nat
    BY <1>1 DEF Tick, CircuitInv
  <2>2. ASSUME NEW t \in Threads
        PROVE  /\ Bounded(call[t], past[home[t]], clock + 1)
               /\ Alone(t) => Own(call[t], memory[home[t]].failures, past[home[t]], clock + 1)
    <3>1. Bounded(call[t], past[home[t]], clock) /\ History(memory[home[t]].failures, past[home[t]])
      BY DEF CauseInv, CircuitInv
    <3>2. Bounded(call[t], past[home[t]], clock + 1)
      BY <2>1, <3>1 DEF Bounded
    <3>3. ASSUME Alone(t)
          PROVE  Own(call[t], memory[home[t]].failures, past[home[t]], clock + 1)
      <4> DEFINE l == Latest(Since(past[home[t]]))
      <4>1. Own(call[t], memory[home[t]].failures, past[home[t]], clock)
        BY <3>3 DEF CauseInv
      <4>2. l \in Nat
        BY <3>1, SinceIs, LatestIsNat
      <4>3. l <= clock + 1
        <5>1. l <= clock
          BY <4>1 DEF Own
        <5> HIDE DEF l
        <5> QED
          BY <2>1, <4>2, <5>1
      <4> QED
        BY <4>1, <4>3 DEF Own
    <3> QED
      BY <3>2, <3>3
  <2>3. \A t \in Threads : Alone(t)' <=> Alone(t)
    BY <2>1 DEF Alone
  <2>4. ASSUME NEW t \in Threads
        PROVE  /\ Bounded(call'[t], past'[home'[t]], clock')
               /\ Alone(t) => Own(call'[t], memory'[home'[t]].failures, past'[home'[t]], clock')
    BY <2>1, <2>2
  <2> QED
    BY <2>1, <2>3, <2>4 DEF CauseInv
<1>2. ASSUME NEW p \in Processes, Restart(p)
      PROVE  CauseInv'
  <2>1. /\ UNCHANGED <<clock, home>> /\ memory' = [memory EXCEPT ![p] = Fresh] /\ past' = [past EXCEPT ![p] = NoPast]
        /\ call' = [t \in Threads |-> IF home[t] = p THEN NoCall ELSE call[t]]
    BY <1>2 DEF Restart
  <2>2. Fresh.failures = <<>> /\ NoCall.step = "idle"
    BY DEF Fresh, NoCall
  <2>3. History(<<>>, NoPast) /\ Latest(Since(NoPast)) = 0 /\ <<>> = Within(Since(NoPast), Latest(Since(NoPast)))
    <3>1. History(<<>>, [failures |-> <<>>, success |-> 0])
      <4>1. <<>> \in Seq(Nat) /\ Len(<<>>) = 0 /\ 0 \in 0 .. 0 /\ 0 <= 0
        OBVIOUS
      <4> QED
        BY <4>1 DEF History
    <3>2. Len(<<>>) = 0
      OBVIOUS
    <3>3. [failures |-> <<>>, success |-> 0].failures = <<>>
      OBVIOUS
    <3> QED
      BY <3>1, <3>2, <3>3, OwnForget DEF NoPast
  <2>4. Bounded(NoCall, NoPast, clock) /\ Own(NoCall, <<>>, NoPast, clock)
    BY <2>2, <2>3 DEF Bounded, Own, CircuitInv
  <2>5. /\ DOMAIN past' = Processes
        /\ \A q \in Processes : /\ memory'[q].failures = IF q = p THEN <<>> ELSE memory[q].failures
                                /\ past'[q] = IF q = p THEN NoPast ELSE past[q]
        /\ \A t \in Threads : call'[t] = IF home[t] = p THEN NoCall ELSE call[t]
    BY <2>1, <2>2 DEF CauseInv, CircuitInv
  <2>6. \A q \in Processes : History(memory'[q].failures, past'[q])
    BY <2>3, <2>5 DEF CauseInv
  <2>7. \A t \in Threads : Alone(t)' <=> Alone(t)
    BY <2>1 DEF Alone
  <2>8. ASSUME NEW t \in Threads
        PROVE  /\ Bounded(call'[t], past'[home[t]], clock)
               /\ Alone(t) => Own(call'[t], memory'[home[t]].failures, past'[home[t]], clock)
    <3>1. home[t] \in Processes
      BY DEF CircuitInv
    <3>2. CASE home[t] = p
      BY <2>4, <2>5, <3>1, <3>2
    <3>3. CASE home[t] # p
      BY <2>5, <3>1, <3>3 DEF CauseInv
    <3> QED
      BY <3>2, <3>3
  <2>9. ASSUME NEW t \in Threads
        PROVE  /\ Bounded(call'[t], past'[home'[t]], clock')
               /\ Alone(t) => Own(call'[t], memory'[home'[t]].failures, past'[home'[t]], clock')
    BY <2>1, <2>8
  <2> QED
    BY <2>5, <2>6, <2>7, <2>9 DEF CauseInv
<1>3. CASE UNCHANGED circuitVars
  <2>1. UNCHANGED <<clock, home, memory, call, past>>
    BY <1>3 DEF circuitVars
  <2>2. \A t \in Threads : Alone(t)' <=> Alone(t)
    BY <2>1 DEF Alone
  <2> QED
    BY <2>1, <2>2 DEF CauseInv
<1> QED
  BY <1>1, <1>2, <1>3, CauseThreadStep DEF CircuitNext

\* The circuit is opened for a cause, by any number of threads, over restarts: no interleaving of
\* the three steps of _record_failure makes failures, and one thread counts those of the window
\* since the last success exactly (scorer.py, _record_failure, _record_success).
THEOREM CircuitOpensForCause == CircuitSpec => []OpensForCause
<1>1. CircuitInit => CauseInv
  <2>1. <<>> \in Seq(Nat) /\ Len(<<>>) = 0 /\ 0 \in 0 .. 0 /\ 0 <= 0
    OBVIOUS
  <2>2. History(<<>>, NoPast)
    BY <2>1 DEF History, NoPast
  <2>3. Since(NoPast) = <<>> /\ Latest(<<>>) = 0
    <3>1. Since(NoPast) \in Seq(Nat) /\ Len(Since(NoPast)) = 0
      <4>1. Since(NoPast) \in Seq(Nat) /\ Len(Since(NoPast)) = Len(NoPast.failures) - NoPast.success
        BY <2>2, SinceIs
      <4>2. Len(NoPast.failures) - NoPast.success = 0
        BY <2>1 DEF NoPast
      <4> QED
        BY <4>1, <4>2
    <3> QED
      BY <2>1, <3>1, EmptySeq DEF Latest
  <2>4. Bounded(NoCall, NoPast, 1) /\ Own(NoCall, <<>>, NoPast, 1)
    BY <2>3, WithinEmpty DEF Bounded, Own, NoCall
  <2>5. Fresh.failures = <<>>
    BY DEF Fresh
  <2> QED
    BY <2>2, <2>4, <2>5 DEF CircuitInit, CauseInv
<1>2. CircuitInv /\ CauseInv => OpensForCause
  <2> SUFFICES ASSUME CircuitInv, CauseInv, NEW t \in Threads, call[t].step \in {"open", "persist"}
               PROVE  LET all == past[home[t]].failures
                          since == SubSeq(all, past[home[t]].success + 1, Len(all))
                          counts == IF Alone(t) THEN since ELSE all
                      IN  /\ Len(counts) >= failure_threshold
                          /\ Alone(t) => Len(Within(since, since[Len(since)])) >= failure_threshold
    BY DEF OpensForCause
  <2> DEFINE h == past[home[t]]
             m == memory[home[t]].failures
             s == Since(h)
  <2>1. History(m, h) /\ Bounded(call[t], h, clock) /\ (Alone(t) => Own(call[t], m, h, clock))
    BY DEF CauseInv, CircuitInv
  <2>2. Len(h.failures) >= failure_threshold
    BY <2>1 DEF Bounded
  <2>3. ASSUME Alone(t)
        PROVE  Len(s) >= failure_threshold /\ Len(Within(s, s[Len(s)])) >= failure_threshold
    <3>1. m = Within(s, Latest(s)) /\ Len(m) >= failure_threshold
      BY <2>1, <2>3 DEF Own
    <3>2. s \in Seq(Nat)
      BY <2>1, SinceIs
    <3> HIDE DEF s, m
    <3>3. m \in Seq(Nat) /\ Len(m) <= Len(s)
      BY <3>1, <3>2, WithinShorter
    <3>4. Len(m) \in Nat /\ Len(s) \in Nat
      BY <3>2, <3>3
    <3>5. Len(s) >= failure_threshold /\ Len(s) # 0
      BY <3>1, <3>3, <3>4, CircuitAssumption
    <3> QED
      BY <3>1, <3>5 DEF Latest
  <2>4. s = SubSeq(h.failures, h.success + 1, Len(h.failures))
    BY DEF Since
  <2> HIDE DEF h, m, s
  <2> QED
    BY <2>2, <2>3, <2>4 DEF h
<1> QED
  BY <1>1, <1>2, CircuitInvariance, CauseStep, PTL DEF CircuitSpec

-----------------------------------------------------------------------------
(* The reports about embeddings.                                           *)

LEMMA TenCauses == ASSUME NEW r PROVE DOMAIN Causes(r) = 1 .. 10
<1>1. \A c1, c2, c3, c4, c5, c6, c7, c8, c9, c10 : DOMAIN <<c1, c2, c3, c4, c5, c6, c7, c8, c9, c10>> = 1 .. 10
  OBVIOUS
<1> QED
  BY <1>1 DEF Causes

\* The state of a row is that of the first of its causes that holds.
LEMMA StateOfFirstCause ==
  ASSUME NEW r, NEW i \in 1 .. 10, Causes(r)[i].holds, \A j \in 1 .. i - 1 : ~Causes(r)[j].holds
  PROVE  State(r) = Causes(r)[i].state
<1> DEFINE causes == Causes(r)
           IsFirst(k) == causes[k].holds /\ \A j \in 1 .. k - 1 : ~causes[j].holds
           first == CHOOSE k \in DOMAIN causes : IsFirst(k)
<1>1. DOMAIN causes = 1 .. 10
  BY TenCauses
<1> HIDE DEF causes
<1>2. IsFirst(i) /\ i \in DOMAIN causes
  BY <1>1 DEF causes
<1>3. first \in DOMAIN causes /\ IsFirst(first)
  BY <1>2
<1>4. first = i
  BY <1>1, <1>2, <1>3
<1> QED
  BY <1>4 DEF State, causes

LEMMA StateByCases ==
  ASSUME NEW r
  PROVE  State(r) =
           IF ~r.available \/ r.source = "unavailable" THEN "unavailable"
           ELSE IF r.status = "failed" \/ r.failure THEN "failed"
           ELSE IF r.status = "pending" THEN "pending"
           ELSE IF r.reextract \/ r.score = "reextract risk" THEN "blocked_reextract"
           ELSE IF IsEmpty(r) THEN "blocked_empty"
           ELSE IF r.score \in {"low", "block"} THEN "blocked_low_quality"
           ELSE IF Present(r) = "yes" /\ r.clocks = "stale" THEN "stale"
           ELSE IF Present(r) = "yes" THEN "embedded"
           ELSE IF Present(r) = "no" THEN "missing_embedding"
           ELSE "unknown"
<1> DEFINE c == Causes(r)
<1>1. /\ c[1].state = "unavailable" /\ (c[1].holds <=> ~r.available \/ r.source = "unavailable")
      /\ c[2].state = "failed" /\ (c[2].holds <=> r.status = "failed" \/ r.failure)
      /\ c[3].state = "pending" /\ (c[3].holds <=> r.status = "pending")
      /\ c[4].state = "blocked_reextract" /\ (c[4].holds <=> r.reextract \/ r.score = "reextract risk")
      /\ c[5].state = "blocked_empty" /\ (c[5].holds <=> IsEmpty(r))
  BY DEF Causes, IsEmpty
<1>2. /\ c[6].state = "blocked_low_quality" /\ (c[6].holds <=> r.score \in {"low", "block"})
      /\ c[7].state = "stale" /\ (c[7].holds <=> Present(r) = "yes" /\ r.clocks = "stale")
      /\ c[8].state = "embedded" /\ (c[8].holds <=> Present(r) = "yes")
      /\ c[9].state = "missing_embedding" /\ (c[9].holds <=> Present(r) = "no")
      /\ c[10].state = "unknown" /\ c[10].holds
  BY DEF Causes
<1> HIDE DEF c
<1>3. ASSUME NEW i \in 1 .. 10, c[i].holds, \A j \in 1 .. i - 1 : ~c[j].holds
      PROVE  State(r) = c[i].state
  BY <1>3, StateOfFirstCause DEF c
<1>4. /\ c[1].holds => State(r) = c[1].state
      /\ ~c[1].holds /\ c[2].holds => State(r) = c[2].state
      /\ ~c[1].holds /\ ~c[2].holds /\ c[3].holds => State(r) = c[3].state
      /\ ~c[1].holds /\ ~c[2].holds /\ ~c[3].holds /\ c[4].holds => State(r) = c[4].state
  BY <1>3
<1>5. ~c[1].holds /\ ~c[2].holds /\ ~c[3].holds /\ ~c[4].holds
        /\ c[5].holds => State(r) = c[5].state
  BY <1>3
<1>6. ~c[1].holds /\ ~c[2].holds /\ ~c[3].holds /\ ~c[4].holds /\ ~c[5].holds
        /\ c[6].holds => State(r) = c[6].state
  BY <1>3
<1>7. ~c[1].holds /\ ~c[2].holds /\ ~c[3].holds /\ ~c[4].holds /\ ~c[5].holds /\ ~c[6].holds
        /\ c[7].holds => State(r) = c[7].state
  BY <1>3
<1>8. ~c[1].holds /\ ~c[2].holds /\ ~c[3].holds /\ ~c[4].holds /\ ~c[5].holds /\ ~c[6].holds /\ ~c[7].holds
        /\ c[8].holds => State(r) = c[8].state
  BY <1>3
<1>9. ~c[1].holds /\ ~c[2].holds /\ ~c[3].holds /\ ~c[4].holds /\ ~c[5].holds /\ ~c[6].holds /\ ~c[7].holds /\ ~c[8].holds
        /\ c[9].holds => State(r) = c[9].state
  BY <1>3
<1>10. ~c[1].holds /\ ~c[2].holds /\ ~c[3].holds /\ ~c[4].holds /\ ~c[5].holds /\ ~c[6].holds /\ ~c[7].holds /\ ~c[8].holds /\ ~c[9].holds
        /\ c[10].holds => State(r) = c[10].state
  BY <1>3
<1> QED
  BY <1>1, <1>2, <1>4, <1>5, <1>6, <1>7, <1>8, <1>9, <1>10

\* What the adapter makes of a row, field by field.
AsAdapted(a, r) ==
  /\ a.id = r.id /\ (a.available <=> r.source # "unavailable" /\ r.status # "unavailable")
  /\ (a.source = "unavailable" <=> r.source = "unavailable" \/ r.status = "unavailable")
  /\ a.status = IF r.status = "odd" THEN "none" ELSE r.status
  /\ a.present = Present(r) /\ a.failure = r.failure /\ a.reextract = FALSE
  /\ a.text = IF r.length = "zero" THEN "blank" ELSE "none"
  /\ a.length = "none" /\ a.score = "none"
  /\ a.clocks = IF r.clocks = "malformed" THEN "none" ELSE r.clocks

LEMMA AdaptedFields ==
  ASSUME NEW r, NEW warned
  PROVE  AsAdapted([Adapted(r) EXCEPT !.warned = warned], r) /\ [Adapted(r) EXCEPT !.warned = warned].warned = warned
<1>1. /\ DOMAIN PlainRow = {"id", "source", "available", "status", "present", "failure", "reextract",
                            "text", "length", "score", "clocks", "unsafe", "warned"}
      /\ PlainRow.reextract = FALSE /\ PlainRow.length = "none" /\ PlainRow.score = "none"
  BY DEF PlainRow
<1> QED
  BY <1>1 DEF Adapted, AsAdapted

\* The state is the same for rows that tell the same.
LEMMA AdapterKeepsState ==
  ASSUME NEW r, RowOK(r), ~Dropped(r), NEW a, AsAdapted(a, r)
  PROVE  State(a) = State(r)
<1>1. /\ a.id = r.id /\ (a.available <=> r.source # "unavailable" /\ r.status # "unavailable")
      /\ (a.source = "unavailable" <=> r.source = "unavailable" \/ r.status = "unavailable")
      /\ a.status = IF r.status = "odd" THEN "none" ELSE r.status
      /\ a.present = Present(r) /\ a.failure = r.failure /\ a.reextract = FALSE
      /\ a.text = IF r.length = "zero" THEN "blank" ELSE "none"
      /\ a.length = "none" /\ a.score = "none"
      /\ a.clocks = IF r.clocks = "malformed" THEN "none" ELSE r.clocks
  BY DEF AsAdapted
<1>2. r.text = "none" /\ r.score = "none" /\ ~r.reextract /\ r.available /\ r.status # "unavailable"
  BY DEF Dropped
<1>3. Present(r) \in {"none", "yes", "no"} /\ Present(a) = Present(r)
  BY <1>1 DEF Present, RowOK
<1>4. IsEmpty(a) <=> IsEmpty(r)
  <2>1. r.length = "zero" => IsEmpty(a) /\ IsEmpty(r)
    <3>1. r.length = "zero" => a.text = "blank"
      BY <1>1
    <3> QED
      BY <1>2, <3>1 DEF IsEmpty
  <2>2. r.length # "zero" => ~IsEmpty(a) /\ ~IsEmpty(r)
    <3>1. r.length # "zero" => a.text = "none"
      BY <1>1
    <3>2. a.length # "zero" /\ a.score # "empty risk" /\ r.score # "empty risk"
      BY <1>1, <1>2
    <3> QED
      BY <1>2, <3>1, <3>2 DEF IsEmpty
  <2> QED
    BY <2>1, <2>2
<1>5. a.clocks = "stale" <=> r.clocks = "stale"
  BY <1>1
<1> QED
  BY <1>1, <1>2, <1>3, <1>4, <1>5, StateByCases

\* What is known of a report.
ReportInv ==
  /\ supplied \in SuppliedRows
  /\ report.by = "adapter" /\ supplied # NoRows =>
       /\ report.records = Records(AdaptRows(supplied))
       /\ supplied = <<>> => report.degraded
  /\ report.by = "planner" => report.records = Plan(supplied)

LEMMA PlanIsReady == ReportInv => PlanMakesReady
<1> SUFFICES ASSUME ReportInv, report.by = "planner", supplied \notin {NoRows, <<>>},
                    NEW i \in DOMAIN supplied, report.records[i].label = "plan_embed_missing"
             PROVE  State([supplied[i] EXCEPT !.present = "yes", !.clocks = "fresh"]) = "embedded"
  BY DEF PlanMakesReady
<1> DEFINE r == supplied[i]
           q == [r EXCEPT !.present = "yes", !.clocks = "fresh"]
<1>1. RowOK(r)
  BY RowsAssumption DEF ReportInv
<1>2. PlanLabel(State(r)) = "plan_embed_missing"
  <2>1. Records(supplied) = [k \in DOMAIN supplied |-> Evaluate(supplied[k])]
    BY DEF Records
  <2>2. \E unsafe : report.records[i] = PlanItem(Records(supplied)[i], unsafe)
    BY <2>1 DEF ReportInv, Plan
  <2> QED
    BY <2>1, <2>2 DEF PlanItem, Evaluate
<1>3. DOMAIN r = {"id", "source", "available", "status", "present", "failure", "reextract", "text", "length",
                  "score", "clocks", "unsafe", "warned"}
  BY <1>1 DEF RowOK, PlainRow
<1> HIDE DEF r
<1>4. /\ q.available = r.available /\ q.source = r.source /\ q.status = r.status /\ q.failure = r.failure
      /\ q.reextract = r.reextract /\ q.score = r.score /\ q.text = r.text /\ q.length = r.length
      /\ q.present = "yes" /\ q.clocks = "fresh"
  BY <1>3
<1> HIDE DEF q
<1>5. State(r) \in {"missing_embedding", "stale"}
  <2>1. State(r) \in {"unavailable", "failed", "pending", "blocked_reextract", "blocked_empty",
                      "blocked_low_quality", "stale", "embedded", "missing_embedding", "unknown"}
    BY StateByCases
  <2> QED
    BY <1>2, <2>1 DEF PlanLabel
<1>6. Present(q) = "yes" /\ (IsEmpty(q) <=> IsEmpty(r))
  BY <1>4 DEF Present, IsEmpty
<1> QED
  BY <1>4, <1>5, <1>6, StateByCases DEF q, r

LEMMA AdapterIsFaithful == ReportInv => AdapterAgrees
<1> SUFFICES ASSUME ReportInv, report.by = "adapter", supplied # NoRows
             PROVE  /\ supplied = <<>> => report.degraded
                    /\ \A i \in DOMAIN supplied :
                         IF "adapter" \in supplied[i].unsafe
                         THEN report.records[i] = [id |-> "unsafe-redacted", state |-> "unavailable", degraded |-> TRUE]
                         ELSE Dropped(supplied[i]) \/ report.records[i].state = State(supplied[i])
                    /\ \A i, j \in DOMAIN supplied :
                         i < j /\ report.records[i].id = report.records[j].id => report.records[j].degraded
  BY DEF AdapterAgrees
<1> DEFINE one == [i \in DOMAIN supplied |-> AdaptOne(supplied[i])]
           Repeated(i) == one[i].id # NoId /\ \E j \in 1 .. i - 1 : one[j].id = one[i].id
           warned(i) == one[i].warned \/ Repeated(i)
           row(i) == [one[i] EXCEPT !.warned = warned(i)]
<1>1. /\ DOMAIN supplied \subseteq Nat \ {0} /\ \A i \in DOMAIN supplied : RowOK(supplied[i])
      /\ AdaptRows(supplied) # NoRows
  BY RowsAssumption DEF ReportInv
<1>2. ASSUME NEW i \in DOMAIN supplied
      PROVE  report.records[i] = Evaluate(row(i))
  <2>1. AdaptRows(supplied) = [k \in DOMAIN supplied |-> row(k)]
    BY DEF AdaptRows
  <2> HIDE DEF row
  <2> QED
    BY <1>1, <2>1 DEF ReportInv, Records
<1>3. ASSUME NEW i \in DOMAIN supplied
      PROVE  /\ "adapter" \in supplied[i].unsafe =>
                  /\ row(i).id = "unsafe-redacted" /\ State(row(i)) = "unavailable"
             /\ "adapter" \notin supplied[i].unsafe =>
                  /\ row(i).id = supplied[i].id /\ row(i).warned = warned(i)
                  /\ Dropped(supplied[i]) \/ State(row(i)) = State(supplied[i])
                  /\ supplied[i].id = NoId => one[i].warned = TRUE
  <2> DEFINE r == supplied[i]
  <2>1. CASE "adapter" \in r.unsafe
    <3>1. one[i] = Redacted
      BY <2>1 DEF AdaptOne
    <3>2. /\ DOMAIN Redacted = {"id", "source", "available", "status", "present", "failure", "reextract",
                                "text", "length", "score", "clocks", "unsafe", "warned"}
          /\ Redacted.id = "unsafe-redacted" /\ Redacted.source = "unavailable"
      BY DEF Redacted, PlainRow
    <3> HIDE DEF one, warned
    <3>3. row(i).id = "unsafe-redacted" /\ row(i).source = "unavailable"
      BY <3>1, <3>2
    <3> QED
      BY <2>1, <3>3, StateByCases
  <2>2. CASE "adapter" \notin r.unsafe
    <3>1. one[i] = Adapted(r)
      BY <2>2 DEF AdaptOne
    <3>2. r.id = NoId => one[i].warned = TRUE
      BY <3>1 DEF Adapted, PlainRow, Odd
    <3> HIDE DEF warned, one
    <3>3. AsAdapted(row(i), r) /\ row(i).warned = warned(i)
      BY <3>1, AdaptedFields
    <3>4. RowOK(r)
      BY <1>1
    <3>5. row(i).id = r.id
      BY <3>3 DEF AsAdapted
    <3> HIDE DEF row
    <3> QED
      BY <2>2, <3>2, <3>3, <3>4, <3>5, AdapterKeepsState
  <2> QED
    BY <2>1, <2>2
<1> HIDE DEF row, warned
<1>4. ASSUME NEW i \in DOMAIN supplied
      PROVE  /\ report.records[i].id = row(i).id /\ report.records[i].state = State(row(i))
             /\ State(row(i)) # "embedded" \/ row(i).warned => report.records[i].degraded = TRUE
             /\ report.records[i] = [id |-> report.records[i].id, state |-> report.records[i].state,
                                     degraded |-> report.records[i].degraded]
  <2>1. report.records[i] = Evaluate(row(i))
    BY <1>2
  <2> DEFINE degraded == State(row(i)) # "embedded" \/ row(i).warned \/ row(i).source \in {"rows", "unproven"}
  <2>2. State(row(i)) # "embedded" \/ row(i).warned => degraded = TRUE
    OBVIOUS
  <2>3. report.records[i] = [id |-> row(i).id, state |-> State(row(i)), degraded |-> degraded]
    BY <2>1 DEF Evaluate
  <2> HIDE DEF degraded
  <2> QED
    BY <2>2, <2>3
<1>5. \A i \in DOMAIN supplied :
        IF "adapter" \in supplied[i].unsafe
        THEN report.records[i] = [id |-> "unsafe-redacted", state |-> "unavailable", degraded |-> TRUE]
        ELSE Dropped(supplied[i]) \/ report.records[i].state = State(supplied[i])
  <2>1. TAKE i \in DOMAIN supplied
  <2>2. CASE "adapter" \in supplied[i].unsafe
    <3>1. row(i).id = "unsafe-redacted" /\ State(row(i)) = "unavailable"
      BY <1>3, <2>2
    <3>2. /\ report.records[i].id = "unsafe-redacted" /\ report.records[i].state = "unavailable"
          /\ report.records[i].degraded = TRUE
      BY <1>4, <3>1
    <3> QED
      BY <1>4, <2>2, <3>2
  <2>3. CASE "adapter" \notin supplied[i].unsafe
    BY <1>3, <1>4, <2>3
  <2> QED
    BY <2>2, <2>3
<1>6. ASSUME NEW i \in DOMAIN supplied, NEW j \in DOMAIN supplied, i < j,
             report.records[i].id = report.records[j].id
      PROVE  report.records[j].degraded
  <2>1. row(i).id = row(j).id
    BY <1>4, <1>6
  <2>2. CASE "adapter" \in supplied[j].unsafe
    BY <1>3, <1>4, <2>2
  <2>3. CASE "adapter" \notin supplied[j].unsafe
    <3>1. \A k \in DOMAIN supplied : one[k].id = row(k).id
      <4>1. TAKE k \in DOMAIN supplied
      <4>2. "id" \in DOMAIN one[k]
        BY DEF AdaptOne, Adapted, Redacted, PlainRow
      <4> QED
        BY <4>2 DEF row
    <3>2. warned(j)
      <4>1. i \in 1 .. j - 1
        BY <1>1, <1>6
      <4>2. CASE supplied[j].id = NoId
        BY <1>3, <2>3, <4>2 DEF warned
      <4>3. CASE supplied[j].id # NoId
        <5>1. one[j].id # NoId /\ one[i].id = one[j].id
          BY <1>3, <2>1, <2>3, <3>1, <4>3
        <5> QED
          BY <4>1, <5>1 DEF warned
      <4> QED
        BY <4>2, <4>3
    <3>3. row(j).warned
      BY <1>3, <2>3, <3>2
    <3> QED
      BY <1>4, <3>3
  <2> QED
    BY <2>2, <2>3
<1>7. supplied = <<>> => report.degraded
  BY DEF ReportInv
<1> QED
  BY <1>5, <1>6, <1>7

LEMMA ReportInvariance == EmbeddingSpec => []ReportInv
<1>1. EmbeddingInit => ReportInv
  BY DEF EmbeddingInit, ReportInv, NoReport
<1>2. ReportInv /\ [EmbeddingNext]_embeddingVars => ReportInv'
  <2> SUFFICES ASSUME ReportInv, [EmbeddingNext]_embeddingVars PROVE ReportInv'
    OBVIOUS
  <2>1. CASE Adapt
    <3> DEFINE rows == IF supplied = NoRows THEN <<[PlainRow EXCEPT !.source = "unavailable"]>> ELSE AdaptRows(supplied)
    <3>1. /\ UNCHANGED supplied /\ report'.by = "adapter" /\ report'.records = Records(rows)
          /\ rows = <<>> => report'.degraded
      BY <2>1 DEF Adapt, Said
    <3>2. supplied = <<>> /\ supplied # NoRows => rows = <<>>
      BY DEF AdaptRows
    <3> QED
      BY <3>1, <3>2 DEF ReportInv
  <2>2. CASE EvaluateRows \/ PlanActions
    BY <2>2 DEF EvaluateRows, PlanActions, Said, ReportInv
  <2>3. CASE UNCHANGED embeddingVars
    BY <2>3 DEF embeddingVars, ReportInv
  <2> QED
    BY <2>1, <2>2, <2>3 DEF EmbeddingNext
<1> QED
  BY <1>1, <1>2, PTL DEF EmbeddingSpec

\* The evaluator, the adapter and the planner tell one story of every row they may be given
\* (embedding_health.py, embedding_health_adapter.py, embedding_admin.py).
THEOREM ReportsTellOneStory == EmbeddingSpec => []ReportsAgree
<1>1. ReportInv => ReportsAgree
  BY PlanIsReady, AdapterIsFaithful DEF ReportsAgree
<1> QED
  BY <1>1, ReportInvariance, PTL

-----------------------------------------------------------------------------
(* The classifier.                                                         *)

LEMMA ScoreType ==
  ASSUME NEW c \in Submissions, NEW type \in MemoryTypes
  PROVE  Score(c, type) \in Nat
<1> DEFINE F(weight) == {g \in c.fired[type] : Weights[type][g] = weight}
           all == 4 * (Cardinality(F(1)) + 2 * Cardinality(F(2)) + 3 * Cardinality(F(3)))
                    + (IF type \in Boosted(c.node_type) THEN 6 ELSE 0)
<1>1. c.fired[type] \subseteq 1 .. 5
  <2>1. DOMAIN Weights[type] \subseteq 1 .. 5
    BY DEF Weights, MemoryTypes
  <2> QED
    BY <2>1, SubmissionsAssumption
<1>2. IsFiniteSet(1 .. 5)
  <2>1. 1 \in Int /\ 5 \in Int
    OBVIOUS
  <2> QED
    BY <2>1, FS_Interval
<1>3. \A weight : Cardinality(F(weight)) \in Nat
  <2>1. TAKE weight
  <2>2. F(weight) \subseteq 1 .. 5
    BY <1>1
  <2> QED
    BY <1>2, <2>2, FS_Subset, FS_CardinalityType
<1>4. Cardinality(F(1)) \in Nat /\ Cardinality(F(2)) \in Nat /\ Cardinality(F(3)) \in Nat
  BY <1>3
<1>5. all \in Nat /\ all \div 2 \in Nat
  <2> HIDE DEF F
  <2> QED
    BY <1>4
<1>6. Score(c, type) \in {all, all \div 2}
  BY DEF Score
<1> HIDE DEF all
<1> QED
  BY <1>5, <1>6

\* In every order there is a best type, and it is as good in one order as in the other.
LEMMA BestIsBest ==
  ASSUME NEW c \in Submissions, NEW o \in Orders
  PROVE  /\ Winner(c, o) \in MemoryTypes
         /\ \A type \in MemoryTypes : Score(c, Winner(c, o)) >= Score(c, type)
<1> DEFINE f(i) == Score(c, o[i])
           best == {i \in DOMAIN o : \A j \in DOMAIN o : f(i) >= f(j)}
<1>1. DOMAIN o = 1 .. 6 /\ {o[i] : i \in 1 .. 6} = MemoryTypes
  BY SubmissionsAssumption
<1>2. \A i \in 1 .. 6 : f(i) \in Nat
  BY <1>1, ScoreType
<1>3. Winner(c, o) = o[Sets!Min(best)]
  BY DEF Winner
<1> HIDE DEF f
<1>4. \E i \in 1 .. 6 : \A j \in 1 .. 6 : f(i) >= f(j)
  <2>1. \E i \in 1 .. 2 : \A j \in 1 .. 2 : f(i) >= f(j)
    BY <1>2
  <2>2. \E i \in 1 .. 3 : \A j \in 1 .. 3 : f(i) >= f(j)
    BY <1>2, <2>1
  <2>3. \E i \in 1 .. 4 : \A j \in 1 .. 4 : f(i) >= f(j)
    BY <1>2, <2>2
  <2>4. \E i \in 1 .. 5 : \A j \in 1 .. 5 : f(i) >= f(j)
    BY <1>2, <2>3
  <2> QED
    BY <1>2, <2>4
<1>5. best \subseteq 1 .. 6 /\ best # {}
  BY <1>1, <1>4
<1> HIDE DEF best
<1>6. \E i \in best : \A j \in best : i <= j
  <2>1. CASE 1 \in best
    BY <1>5, <2>1
  <2>2. CASE 1 \notin best /\ 2 \in best
    BY <1>5, <2>2
  <2>3. CASE 1 \notin best /\ 2 \notin best /\ 3 \in best
    BY <1>5, <2>3
  <2>4. CASE 1 \notin best /\ 2 \notin best /\ 3 \notin best /\ 4 \in best
    BY <1>5, <2>4
  <2>5. CASE 1 \notin best /\ 2 \notin best /\ 3 \notin best /\ 4 \notin best
    <3>1. best \subseteq {5, 6}
      BY <1>5, <2>5
    <3>2. CASE 5 \in best
      BY <3>1, <3>2
    <3>3. CASE 5 \notin best
      <4>1. best = {6}
        BY <1>5, <3>1, <3>3
      <4> QED
        BY <4>1
    <3> QED
      BY <3>2, <3>3
  <2> QED
    BY <2>1, <2>2, <2>3, <2>4, <2>5
<1>7. Sets!Min(best) \in best
  BY <1>6 DEF Sets!Min
<1>8. \A type \in MemoryTypes : \E j \in 1 .. 6 : o[j] = type
  BY <1>1
<1>9. Sets!Min(best) \in 1 .. 6 /\ \A j \in 1 .. 6 : f(Sets!Min(best)) >= f(j)
  BY <1>1, <1>7 DEF best
<1> QED
  BY <1>1, <1>3, <1>8, <1>9 DEF f

LEMMA EqualBest ==
  ASSUME NEW c \in Submissions, NEW o \in Orders, NEW r \in Orders
  PROVE  Score(c, Winner(c, o)) = Score(c, Winner(c, r))
<1>1. Winner(c, o) \in MemoryTypes /\ Winner(c, r) \in MemoryTypes
  BY BestIsBest
<1>2. Score(c, Winner(c, o)) >= Score(c, Winner(c, r)) /\ Score(c, Winner(c, r)) >= Score(c, Winner(c, o))
  BY <1>1, BestIsBest
<1>3. Score(c, Winner(c, o)) \in Nat /\ Score(c, Winner(c, r)) \in Nat
  BY <1>1, ScoreType
<1> QED
  BY <1>2, <1>3

ClassifyInv ==
  /\ order \in [ClassifyProcesses -> Orders] /\ content \in Submissions /\ DOMAIN verdict = ClassifyProcesses
  /\ \A p \in ClassifyProcesses : verdict[p] \in {NoVerdict, ClassifyContent(content, order[p])}

LEMMA ClassifyInvariance == ClassifySpec => []ClassifyInv
<1>1. ClassifyInit => ClassifyInv
  BY DEF ClassifyInit, ClassifyInv
<1>2. ClassifyInv /\ [ClassifyNext]_classifyVars => ClassifyInv'
  BY DEF ClassifyInv, ClassifyNext, Classify, classifyVars
<1> QED
  BY <1>1, <1>2, PTL DEF ClassifySpec

\* Processes that disagree about a content do so where two types are equally good, whatever the
\* tables find in it and in whatever order each keeps the types (classify_pipeline.py, max over a
\* dictionary filled from a frozenset).
THEOREM DisagreementIsATie == ClassifySpec => []DisagreeOnlyOnTies
<1>1. ClassifyInv => DisagreeOnlyOnTies
  <2> SUFFICES ASSUME ClassifyInv, NEW p \in ClassifyProcesses, NEW q \in ClassifyProcesses,
                      Classified(p), Classified(q)
               PROVE  /\ verdict[p].confidence = verdict[q].confidence
                      /\ verdict[p].domain_hint = verdict[q].domain_hint
                      /\ verdict[p].memory_type # verdict[q].memory_type =>
                           Score(content, verdict[p].memory_type) = Score(content, verdict[q].memory_type)
    BY DEF DisagreeOnlyOnTies
  <2> DEFINE P == Winner(content, order[p])
             Q == Winner(content, order[q])
  <2>1. /\ verdict[p] = ClassifyContent(content, order[p]) /\ verdict[q] = ClassifyContent(content, order[q])
        /\ Score(content, P) = Score(content, Q)
    BY EqualBest DEF ClassifyInv, Classified
  <2>2. CASE content.raises \/ content.empty \/ Score(content, P) < 8
    <3>1. verdict[p] = verdict[q]
      BY <2>1, <2>2 DEF ClassifyContent
    <3> QED
      BY <3>1
  <2>3. CASE ~content.raises /\ ~content.empty /\ ~(Score(content, P) < 8)
    <3>1. /\ verdict[p] = [memory_type |-> P, memory_sub_type |-> SubType(P, content.marks),
                           confidence |-> Confidence(Score(content, P)), domain_hint |-> DomainHint(content)]
          /\ verdict[q] = [memory_type |-> Q, memory_sub_type |-> SubType(Q, content.marks),
                           confidence |-> Confidence(Score(content, Q)), domain_hint |-> DomainHint(content)]
      BY <2>1, <2>3 DEF ClassifyContent
    <3> QED
      BY <2>1, <3>1
  <2> QED
    BY <2>2, <2>3
<1> QED
  BY <1>1, ClassifyInvariance, PTL

-----------------------------------------------------------------------------
(* The graph health report.                                                *)

TableNames == {Tables[i] : i \in DOMAIN Tables}

\* What a snapshot has of the contents once n - 1 tables are read: all items there were at the
\* start, and with the chunks no more and no less than was searchable at some time and always.
Gathered(s, n) ==
  /\ n > 1 => seen.start \cup seen.always \subseteq s.content_items
  /\ n > 2 => seen.always \subseteq Reported(s) /\ Reported(s) \subseteq seen.ever

\* While it is read the history fits the tables, and no item that was read is gone.
Reading ==
  /\ reader.answer # "repository" /\ reader.next \in DOMAIN Tables
  /\ seen.always \subseteq Findable(db) /\ Findable(db) \subseteq seen.ever
  /\ seen.start \subseteq db.content_items
  /\ reader.next > 1 => reader.snapshot.content_items \subseteq db.content_items
  /\ Gathered(reader.snapshot, reader.next)

SnapshotInv ==
  /\ db \in Database
  /\ DOMAIN reader = DOMAIN NotAsked /\ DOMAIN reader.snapshot = TableNames
  /\ DOMAIN seen = {"always", "ever", "start"}
  /\ reader.step = "read" => Reading
  /\ reader.step = "idle" => reader.answer # "repository"
  /\ Answered => Gathered(reader.snapshot, 3)

LEMMA TablesAre ==
  /\ DOMAIN Tables = 1 .. 8 /\ Len(Tables) = 8
  /\ Tables[1] = "content_items" /\ Tables[2] = "content_chunks"
  /\ \A n \in 3 .. 8 : Tables[n] \notin {"content_items", "content_chunks"}
  /\ {"content_items", "content_chunks"} \subseteq TableNames
  /\ \A n \in 1 .. 8 : Tables[n] \in TableNames
BY DEF Tables, TableNames

\* What is reported depends on the items and the chunks alone, and is told as the rows tell it.
LEMMA ReportedOf ==
  ASSUME NEW s
  PROVE  Reported(s) = {c \in s.content_items :
                          \E i, j \in DOMAIN s.content_chunks[c] :
                             s.content_chunks[c][i].text /\ s.content_chunks[c][j].vector}
BY DEF Reported, Searchable, HasText, HasVector, Some

LEMMA ReportedFindable == Reported(db) = Findable(db)
BY ReportedOf DEF Findable

LEMMA SameReport ==
  ASSUME NEW s, NEW t, s.content_items = t.content_items, s.content_chunks = t.content_chunks
  PROVE  Reported(s) = Reported(t)
BY ReportedOf

LEMMA DatabaseFields ==
  ASSUME NEW d \in Database
  PROVE  /\ d.content_items \subseteq Contents /\ d.content_chunks \in [Contents -> Seq(ChunkState)]
         /\ d.cb_hubs \in [Hubs -> Labels] /\ d.cb_hub_content \subseteq Hubs \X Contents
         /\ d.cb_edges \subseteq Relations
         /\ \A e \in d.cb_hub_edges : e \in [ends : HubPairs, status : HubEdgeStatuses, archived : BOOLEAN]
BY DEF Database

-----------------------------------------------------------------------------
(* The others: every commit leaves a database, and no item is ever gone.   *)

\* A table gets new rows.
LEMMA TableWritten ==
  ASSUME NEW d \in Database
  PROVE  /\ \A x \in SUBSET Contents :
              LET new == [d EXCEPT !.content_items = x]
              IN  new \in Database /\ new.content_items = x
         /\ \A x \in [Contents -> Seq(ChunkState)] :
              LET new == [d EXCEPT !.content_chunks = x]
              IN  new \in Database /\ new.content_items = d.content_items
         /\ \A x \in SUBSET (Hubs \X Contents) :
              LET new == [d EXCEPT !.cb_hub_content = x]
              IN  new \in Database /\ new.content_items = d.content_items
         /\ \A x \in SUBSET Relations :
              LET new == [d EXCEPT !.cb_edges = x]
              IN  new \in Database /\ new.content_items = d.content_items
         /\ \A x \in SUBSET [ends : HubPairs, status : HubEdgeStatuses, archived : BOOLEAN] :
              LET new == [d EXCEPT !.cb_hub_edges = x]
              IN  new \in Database /\ new.content_items = d.content_items
         /\ \A x \in [Hubs -> Labels] :
              LET new == [d EXCEPT !.cb_hubs = x]
              IN  new \in Database /\ new.content_items = d.content_items
BY DEF Database

\* The chunks of an item are replaced.
LEMMA ChunksWritten ==
  ASSUME NEW d \in Database, NEW c \in Contents, NEW body \in Seq(ChunkState)
  PROVE  LET new == [d EXCEPT !.content_chunks[c] = body]
         IN  new \in Database /\ new.content_items = d.content_items
<1> DEFINE x == [d.content_chunks EXCEPT ![c] = body]
<1>1. x \in [Contents -> Seq(ChunkState)]
  BY DatabaseFields
<1>2. [d EXCEPT !.content_chunks[c] = body] = [d EXCEPT !.content_chunks = x]
  OBVIOUS
<1> HIDE DEF x
<1> QED
  BY <1>1, <1>2, TableWritten

\* What the reader has gathered stays true when others commit.
LEMMA WriteKeeps ==
  ASSUME SnapshotInv, NEW new \in Database, db.content_items \subseteq new.content_items, Write(new)
  PROVE  SnapshotInv'
<1>1. /\ reader.step = "read" /\ reader' = reader /\ db' = new
      /\ seen' = [seen EXCEPT !.always = @ \cap Findable(new), !.ever = @ \cup Findable(new)]
  BY DEF Write
<1>2. Reading /\ DOMAIN seen = {"always", "ever", "start"}
  BY <1>1 DEF SnapshotInv
<1>3. /\ DOMAIN seen' = {"always", "ever", "start"} /\ seen'.start = seen.start
      /\ seen'.always = seen.always \cap Findable(new) /\ seen'.ever = seen.ever \cup Findable(new)
  BY <1>1, <1>2
<1>4. Findable(db)' = Findable(new)
  BY <1>1 DEF Findable
<1>5. Reported(reader.snapshot)' = Reported(reader.snapshot)
  BY <1>1 DEF Reported, Searchable, HasText, HasVector, Some
<1>6. Gathered(reader.snapshot, reader.next)'
  BY <1>1, <1>2, <1>3, <1>5 DEF Reading, Gathered
<1>7. Reading'
  BY <1>1, <1>2, <1>3, <1>4, <1>6 DEF Reading
<1> QED
  BY <1>1, <1>2, <1>3, <1>7 DEF SnapshotInv, Reading, Answered

LEMMA OthersStep == SnapshotInv /\ Others => SnapshotInv'
<1> SUFFICES ASSUME SnapshotInv, Others PROVE SnapshotInv'
  OBVIOUS
<1>1. /\ db \in Database
      /\ db.content_items \subseteq Contents /\ db.content_chunks \in [Contents -> Seq(ChunkState)]
      /\ db.cb_hubs \in [Hubs -> Labels] /\ db.cb_hub_content \subseteq Hubs \X Contents
      /\ db.cb_edges \subseteq Relations
      /\ \A e \in db.cb_hub_edges : e \in [ends : HubPairs, status : HubEdgeStatuses, archived : BOOLEAN]
  BY DatabaseFields DEF SnapshotInv
<1>2. ASSUME NEW c \in Contents, NEW body \in SavedBodies, SaveItem(c, body)
      PROVE  SnapshotInv'
  <2> DEFINE mid == [db EXCEPT !.content_items = @ \cup {c}]
             new == [mid EXCEPT !.content_chunks[c] = body]
  <2>1. db.content_items \cup {c} \subseteq Contents /\ body \in Seq(ChunkState)
    BY <1>1, DatabasesAssumption
  <2>2. mid \in Database /\ mid.content_items = db.content_items \cup {c}
    BY <1>1, <2>1, TableWritten
  <2>3. Write(new)
    BY <1>2 DEF SaveItem
  <2> HIDE DEF mid
  <2>4. new \in Database /\ new.content_items = db.content_items \cup {c}
    BY <2>1, <2>2, ChunksWritten
  <2> HIDE DEF new
  <2> QED
    BY <2>3, <2>4, WriteKeeps
<1>3. ASSUME NEW c \in Contents, NEW body \in Seq(ChunkState), Write([db EXCEPT !.content_chunks[c] = body])
      PROVE  SnapshotInv'
  <2> DEFINE new == [db EXCEPT !.content_chunks[c] = body]
  <2>1. new \in Database /\ new.content_items = db.content_items
    BY <1>1, ChunksWritten
  <2>2. Write(new)
    BY <1>3
  <2> HIDE DEF new
  <2> QED
    BY <2>1, <2>2, WriteKeeps
<1>4. ASSUME NEW c \in Contents, NEW body \in SavedBodies, StoreBody(c, body)
      PROVE  SnapshotInv'
  BY <1>3, <1>4, DatabasesAssumption DEF StoreBody
<1>5. ASSUME NEW c \in Contents, NEW k \in ChunkState, PutBody(c, k)
      PROVE  SnapshotInv'
  <2> DEFINE old == db.content_chunks[c]
             body == <<k>> \o SubSeq(old, 2, Len(old))
  <2>1. old \in Seq(ChunkState)
    BY <1>1
  <2>2. SubSeq(old, 2, Len(old)) \in Seq(ChunkState)
    <3>1. \A i \in 2 .. Len(old) : old[i] \in ChunkState
      BY <2>1
    <3> HIDE DEF old
    <3> QED
      BY <2>1, <3>1, SubSeqProperties
  <2>3. body \in Seq(ChunkState)
    BY <2>2
  <2>4. Write([db EXCEPT !.content_chunks[c] = body])
    BY <1>5 DEF PutBody
  <2> HIDE DEF body
  <2> QED
    BY <1>3, <2>3, <2>4
<1>6. ASSUME NEW c \in Contents, NEW i \in DOMAIN db.content_chunks[c], Embed(c, i)
      PROVE  SnapshotInv'
  <2> DEFINE old == db.content_chunks[c]
             row == [old[i] EXCEPT !.vector = TRUE]
             body == [old EXCEPT ![i] = row]
  <2>1. old \in Seq(ChunkState) /\ i \in 1 .. Len(old) /\ old[i] \in ChunkState
    BY <1>1
  <2>2. row \in ChunkState
    BY <2>1 DEF ChunkState
  <2>3. body \in Seq(ChunkState)
    <3> HIDE DEF row, old
    <3> QED
      BY <2>1, <2>2
  <2>4. Write([db EXCEPT !.content_chunks[c] = body])
    <3>1. Write([db EXCEPT !.content_chunks[c][i].vector = TRUE])
      BY <1>6 DEF Embed
    <3> QED
      BY <3>1
  <2> HIDE DEF body
  <2> QED
    BY <1>3, <2>3, <2>4
<1>7. ASSUME NEW h \in Hubs, NEW c \in Contents, LinkContent(h, c)
      PROVE  SnapshotInv'
  <2> DEFINE x == db.cb_hub_content \cup {<<h, c>>}
             new == [db EXCEPT !.cb_hub_content = x]
  <2>1. x \subseteq Hubs \X Contents /\ Write(new)
    BY <1>1, <1>7 DEF LinkContent
  <2> HIDE DEF x
  <2>2. new \in Database /\ new.content_items = db.content_items
    BY <1>1, <2>1, TableWritten
  <2> HIDE DEF new
  <2> QED
    BY <2>1, <2>2, WriteKeeps
<1>8. ASSUME NEW x \in SUBSET Relations, Write([db EXCEPT !.cb_edges = x])
      PROVE  SnapshotInv'
  <2> DEFINE new == [db EXCEPT !.cb_edges = x]
  <2>1. new \in Database /\ new.content_items = db.content_items
    BY <1>1, TableWritten
  <2>2. Write(new)
    BY <1>8
  <2> HIDE DEF new
  <2> QED
    BY <2>1, <2>2, WriteKeeps
<1>9. ASSUME NEW e \in Relations, AddEdge(e) \/ DeleteEdges({e} \cap db.cb_edges)
      PROVE  SnapshotInv'
  <2>1. db.cb_edges \cup {e} \subseteq Relations /\ db.cb_edges \ ({e} \cap db.cb_edges) \subseteq Relations
    BY <1>1
  <2>2. CASE AddEdge(e)
    BY <1>8, <2>1, <2>2 DEF AddEdge
  <2>3. CASE DeleteEdges({e} \cap db.cb_edges)
    BY <1>8, <2>1, <2>3 DEF DeleteEdges
  <2> QED
    BY <1>9, <2>2, <2>3
<1>10. ASSUME NEW x \in SUBSET [ends : HubPairs, status : HubEdgeStatuses, archived : BOOLEAN],
              Write([db EXCEPT !.cb_hub_edges = x])
       PROVE  SnapshotInv'
  <2> DEFINE new == [db EXCEPT !.cb_hub_edges = x]
  <2>1. new \in Database /\ new.content_items = db.content_items
    BY <1>1, TableWritten
  <2>2. Write(new)
    BY <1>10
  <2> HIDE DEF new
  <2> QED
    BY <2>1, <2>2, WriteKeeps
<1>11. ASSUME NEW p \in HubPairs, PutHubEdge(p, "manual")
       PROVE  SnapshotInv'
  <2>1. [ends |-> p, status |-> "manual", archived |-> FALSE]
          \in [ends : HubPairs, status : HubEdgeStatuses, archived : BOOLEAN]
    BY DEF HubEdgeStatuses
  <2> QED
    BY <1>1, <1>10, <1>11, <2>1 DEF PutHubEdge
<1>12. ASSUME NEW e \in db.cb_hub_edges, NEW status \in HubEdgeStatuses, NEW archived \in BOOLEAN,
              ReviewHubEdge(e, status, archived)
       PROVE  SnapshotInv'
  <2> DEFINE f == [e EXCEPT !.status = status, !.archived = archived]
  <2>1. f \in [ends : HubPairs, status : HubEdgeStatuses, archived : BOOLEAN]
    BY <1>1
  <2>2. Write([db EXCEPT !.cb_hub_edges = (db.cb_hub_edges \ {e}) \cup {f}])
    BY <1>12 DEF ReviewHubEdge
  <2> HIDE DEF f
  <2> QED
    BY <1>1, <1>10, <2>1, <2>2
<1>13. ASSUME NEW e \in db.cb_hub_edges
       PROVE  e.status \in HubEdgeStatuses /\ e.archived \in BOOLEAN /\ "rejected" \in HubEdgeStatuses
  BY <1>1 DEF HubEdgeStatuses
<1>14. ASSUME NEW h \in Hubs, NEW l \in Labels, RenameHub(h, l)
       PROVE  SnapshotInv'
  <2> DEFINE x == [db.cb_hubs EXCEPT ![h] = l]
             new == [db EXCEPT !.cb_hubs = x]
  <2>1. x \in [Hubs -> Labels]
    BY <1>1
  <2>2. Write(new)
    BY <1>14 DEF RenameHub
  <2> HIDE DEF x
  <2>3. new \in Database /\ new.content_items = db.content_items
    BY <1>1, <2>1, TableWritten
  <2> HIDE DEF new
  <2> QED
    BY <2>2, <2>3, WriteKeeps
<1> QED
  BY <1>2, <1>4, <1>5, <1>6, <1>7, <1>9, <1>11, <1>12, <1>13, <1>14 DEF Others

-----------------------------------------------------------------------------
(* The request.                                                            *)

LEMMA NotAskedIs ==
  /\ NotAsked.step = "idle" /\ NotAsked.next = 1 /\ NotAsked.answer = "none"
  /\ DOMAIN NotAsked.snapshot = TableNames /\ NotAsked.snapshot = NothingRead
  /\ DOMAIN NotAsked = {"step", "asks", "hub", "next", "snapshot", "answer"}
BY DEF NotAsked, NothingRead, TableNames

LEMMA AskStep ==
  ASSUME SnapshotInv, NEW asks, NEW mode, NEW wired \in BOOLEAN, NEW hub, Ask(asks, mode, wired, hub)
  PROVE  SnapshotInv'
<1> DEFINE answer == Answer(mode, wired)
           step == IF answer = "none" THEN "read" ELSE "done"
           R == [NotAsked EXCEPT !.asks = asks, !.hub = hub, !.answer = answer, !.step = step]
<1>1. /\ reader' = R /\ db' = db
      /\ seen' = [always |-> Findable(db), ever |-> Findable(db), start |-> db.content_items]
  BY DEF Ask
<1>2. answer # "repository"
  BY DEF Answer
<1>3. step \in {"read", "done"}
  OBVIOUS
<1> HIDE DEF answer, step
<1>4. /\ R.step = step /\ R.answer = answer /\ R.next = 1 /\ R.snapshot = NotAsked.snapshot
      /\ DOMAIN R = DOMAIN NotAsked
  BY NotAskedIs
<1> HIDE DEF R
<1>5. Findable(db)' = Findable(db)
  BY <1>1 DEF Findable
<1>6. Reading'
  BY <1>1, <1>2, <1>4, <1>5, TablesAre DEF Reading, Gathered, Findable
<1>7. DOMAIN seen' = {"always", "ever", "start"}
  BY <1>1
<1> QED
  BY <1>1, <1>2, <1>3, <1>4, <1>6, <1>7, NotAskedIs DEF SnapshotInv, Answered

LEMMA ReadTableStep == SnapshotInv /\ ReadTable => SnapshotInv'
<1> SUFFICES ASSUME SnapshotInv, ReadTable PROVE SnapshotInv'
  OBVIOUS
<1> DEFINE n == reader.next
           rows == RowsOf(Tables[n])
           old == reader.snapshot
           s == [old EXCEPT ![Tables[n]] = rows]
           step == IF n = 8 THEN "done" ELSE "read"
           answer == IF n = 8 THEN "repository" ELSE "none"
           R == [reader EXCEPT !.snapshot = s, !.next = n + 1, !.step = step, !.answer = answer]
<1>1. reader' = R /\ UNCHANGED <<db, seen>> /\ reader.step = "read"
  BY TablesAre DEF ReadTable
<1>2. /\ Reading /\ n \in 1 .. 8 /\ DOMAIN old = TableNames
      /\ DOMAIN reader = DOMAIN NotAsked
  BY <1>1, TablesAre DEF SnapshotInv, Reading
<1>3. n = 1 => rows = db.content_items
  BY TablesAre DEF RowsOf
<1>4. n = 2 => rows = db.content_chunks
  BY TablesAre DEF RowsOf
<1>5. step \in {"read", "done"} /\ (step = "read" <=> n # 8)
      /\ answer \in {"none", "repository"} /\ (answer = "repository" <=> n = 8)
  OBVIOUS
<1> HIDE DEF rows, step, answer
<1>6. /\ DOMAIN s = TableNames
      /\ n = 1 => s.content_items = db.content_items
      /\ n = 2 => s.content_chunks = db.content_chunks
      /\ n # 1 => s.content_items = old.content_items
      /\ n > 2 => s.content_chunks = old.content_chunks
  BY <1>2, <1>3, <1>4, TablesAre
<1> HIDE DEF s
<1>7. /\ R.snapshot = s /\ R.next = n + 1 /\ R.step = step /\ R.answer = answer
      /\ DOMAIN R = DOMAIN NotAsked
  BY <1>2, NotAskedIs
<1> HIDE DEF R
<1>8. seen.start \cup seen.always \subseteq s.content_items /\ s.content_items \subseteq db.content_items
  <2>1. CASE n = 1
    BY <1>2, <1>6, <2>1 DEF Reading, Findable
  <2>2. CASE n # 1
    BY <1>2, <1>6, <2>2 DEF Reading, Gathered
  <2> QED
    BY <2>1, <2>2
<1>9. n > 1 => seen.always \subseteq Reported(s) /\ Reported(s) \subseteq seen.ever
  <2>1. CASE n = 2
    <3>1. Reported(s) = s.content_items \cap Findable(db)
      BY <1>6, <1>8, <2>1, ReportedOf DEF Findable
    <3> QED
      BY <1>2, <1>8, <3>1 DEF Reading
  <2>2. CASE n > 2
    <3>1. Reported(s) = Reported(old)
      BY <1>6, <2>2, SameReport
    <3> QED
      BY <1>2, <2>2, <3>1 DEF Reading, Gathered
  <2> QED
    BY <1>2, <2>1, <2>2
<1>10. /\ seen' = seen /\ db' = db /\ reader' = R /\ Findable(db)' = Findable(db)
       /\ reader'.snapshot = s
  BY <1>1, <1>7 DEF Findable
<1>11. Reported(reader.snapshot)' = Reported(s)
  BY <1>10 DEF Reported, Searchable, HasText, HasVector, Some
<1>12. Gathered(reader.snapshot, reader.next)'
  BY <1>2, <1>7, <1>8, <1>9, <1>10, <1>11 DEF Gathered
<1>13. n = 8 => Gathered(reader.snapshot, 3)'
  BY <1>8, <1>9, <1>10, <1>11 DEF Gathered
<1>14. n # 8 => Reading'
  <2>1. n # 8 => n + 1 \in 1 .. 8
    BY <1>2
  <2> QED
    BY <1>2, <1>5, <1>7, <1>8, <1>10, <1>12, <2>1, TablesAre DEF Reading
<1> HIDE DEF n
<1> QED
  BY <1>5, <1>6, <1>7, <1>10, <1>13, <1>14 DEF SnapshotInv, Answered

LEMMA InitSnapshot == HealthInit => SnapshotInv
<1> SUFFICES ASSUME HealthInit PROVE SnapshotInv
  OBVIOUS
<1>1. db \in Database /\ reader = NotAsked /\ DOMAIN seen = {"always", "ever", "start"}
  BY DatabasesAssumption DEF HealthInit
<1> QED
  BY <1>1, NotAskedIs DEF SnapshotInv, Answered

LEMMA NextSnapshot == SnapshotInv /\ [HealthNext]_healthVars => SnapshotInv'
<1> SUFFICES ASSUME SnapshotInv, [HealthNext]_healthVars PROVE SnapshotInv'
  OBVIOUS
<1>1. CASE Requests
  BY <1>1, AskStep DEF Requests, AskHealth, AskAliases, AskRecall
<1>2. CASE ReadTable \/ Others
  BY <1>2, ReadTableStep, OthersStep
<1>3. CASE UNCHANGED healthVars
  BY <1>3 DEF healthVars, SnapshotInv, Reading, Gathered, Answered, Findable, Reported,
              Searchable, HasText, HasVector, Some
<1> QED
  BY <1>1, <1>2, <1>3 DEF HealthNext

\* A report put together of tables read one after the other claims nothing that never was:
\* what was searchable all along is reported so, what is reported so was searchable at some
\* moment of the request, and no link to an item of its start seems to dangle; for any
\* contents, hubs and edges, any database and any commits of others (repository_reader.py).
THEOREM TornReportsAreTrue == HealthSpec => []ReportedWasSo
<1>1. SnapshotInv => ReportedWasSo
  BY DEF SnapshotInv, Gathered, ReportedWasSo, Dangling
<1> QED
  BY <1>1, InitSnapshot, NextSnapshot, PTL DEF HealthSpec

-----------------------------------------------------------------------------
(* The scores of a report.  The search from a node is made by a recursive  *)
(* function, of which there is one.                                        *)

Spread(s, S) == S \cup UNION {Neighbours(s, r) : r \in S}
Reaching(f, s, a, n) == f = [k \in 0 .. n |-> IF k = 0 THEN {a} ELSE Spread(s, f[k - 1])]

LEMMA ReachingGoesOn ==
  ASSUME NEW s, NEW a, NEW n \in Nat, NEW g, Reaching(g, s, a, n)
  PROVE  \E f : Reaching(f, s, a, n + 1)
<1> DEFINE Last == Spread(s, g[n])
           f == [i \in 0 .. n + 1 |-> IF i <= n THEN g[i] ELSE Last]
           Body(i) == IF i = 0 THEN {a} ELSE Spread(s, f[i - 1])
<1>1. \A i \in 0 .. n : g[i] = IF i = 0 THEN {a} ELSE Spread(s, g[i - 1])
  BY DEF Reaching
<1>2. ASSUME NEW i \in 0 .. n + 1 PROVE f[i] = Body(i)
  <2>1. CASE i <= n
    <3>1. i \in 0 .. n /\ f[i] = g[i] /\ (i # 0 => i - 1 \in 0 .. n + 1 /\ i - 1 <= n)
      BY <2>1
    <3>2. i # 0 => f[i - 1] = g[i - 1]
      BY <3>1
    <3> HIDE DEF Last, f
    <3> QED
      BY <1>1, <3>1, <3>2
  <2>2. CASE ~ (i <= n)
    <3>1. i = n + 1 /\ i # 0 /\ i - 1 = n /\ n \in 0 .. n + 1
      BY <2>2
    <3>2. f[i] = Last /\ f[n] = g[n]
      BY <2>2, <3>1
    <3> HIDE DEF f
    <3> QED
      BY <3>1, <3>2
  <2> QED
    BY <2>1, <2>2
<1>3. f = [i \in 0 .. n + 1 |-> Body(i)]
  <2> HIDE DEF Body, Last
  <2> QED
    BY <1>2
<1>4. Reaching(f, s, a, n + 1)
  <2> HIDE DEF f
  <2> QED
    BY <1>3 DEF Reaching
<1> QED
  BY <1>4

LEMMA ReachingExists ==
  ASSUME NEW s, NEW a, NEW n \in Nat
  PROVE  \E f : Reaching(f, s, a, n)
<1> DEFINE T == {k \in Nat : \E f : Reaching(f, s, a, k)}
<1>1. 0 \in T
  <2> DEFINE f == [i \in 0 .. 0 |-> {a}]
  <2>1. f = [i \in 0 .. 0 |-> IF i = 0 THEN {a} ELSE Spread(s, f[i - 1])]
    OBVIOUS
  <2>2. Reaching(f, s, a, 0)
    BY <2>1 DEF Reaching
  <2> QED
    BY <2>2
<1>2. \A k \in Nat : k \in T => k + 1 \in T
  BY ReachingGoesOn
<1>3. Nat \subseteq T
  <2> HIDE DEF T
  <2> QED
    BY <1>1, <1>2, InductionOverNat
<1> QED
  BY <1>3

LEMMA ComponentByReaching ==
  ASSUME NEW s, NEW a, Cardinality(Nodes(s)) \in Nat
  PROVE  \E f : /\ Reaching(f, s, a, Cardinality(Nodes(s)))
                /\ Component(s, a) = f[Cardinality(Nodes(s))]
<1> DEFINE n == Cardinality(Nodes(s))
           f == CHOOSE f : Reaching(f, s, a, n)
<1>1. Reaching(f, s, a, n)
  <2>1. PICK g : Reaching(g, s, a, n)
    BY ReachingExists
  <2> QED
    BY <2>1, Zenon
<1>2. Component(s, a) = f[n]
  BY DEF Component, Reaching, Spread
<1> HIDE DEF f
<1> QED
  BY <1>1, <1>2

\* What is reached is connected, and is all there is to reach once every node had its turn.
LEMMA ComponentIs ==
  ASSUME NEW s, IsFiniteSet(Nodes(s)), NEW a \in Nodes(s)
  PROVE  /\ a \in Component(s, a) /\ Component(s, a) \subseteq Nodes(s)
         /\ Connected(s, Component(s, a))
         /\ \A S \in SUBSET Nodes(s) : Connected(s, S) /\ a \in S => S \subseteq Component(s, a)
<1> DEFINE N == Nodes(s)
           n == Cardinality(N)
<1>1. n \in Nat
  BY FS_CardinalityType
<1>2. PICK f : Reaching(f, s, a, n) /\ Component(s, a) = f[n]
  BY <1>1, ComponentByReaching
<1> HIDE DEF n
<1>3. f[0] = {a} /\ \A k \in 0 .. n - 1 : f[k + 1] = Spread(s, f[k])
  <2>1. \A k \in 0 .. n : f[k] = IF k = 0 THEN {a} ELSE Spread(s, f[k - 1])
    BY <1>2 DEF Reaching
  <2>2. ASSUME NEW k \in 0 .. n - 1
        PROVE  f[k + 1] = Spread(s, f[k])
    <3>1. k + 1 \in 0 .. n /\ k + 1 # 0 /\ (k + 1) - 1 = k
      BY <1>1
    <3>2. f[k + 1] = Spread(s, f[(k + 1) - 1])
      BY <2>1, <3>1
    <3> QED
      BY <3>1, <3>2
  <2> QED
    BY <1>1, <2>1, <2>2
<1>4. \A S \in SUBSET N : S \subseteq Spread(s, S) /\ Spread(s, S) \subseteq N
  BY DEF Spread, Neighbours
<1> DEFINE Good(S) == a \in S /\ S \subseteq N /\ Connected(s, S)
           T == {k \in Nat : k <= n => Good(f[k]) /\ (Spread(s, f[k]) = f[k] \/ Cardinality(f[k]) >= k + 1)}
<1>5. 0 \in T
  <2>1. Good({a})
    <3>1. Connected(s, {a})
      BY DEF Connected
    <3> QED
      BY <3>1
  <2>2. Cardinality({a}) = 1
    BY FS_Singleton
  <2> QED
    BY <1>3, <2>1, <2>2
<1>6. ASSUME NEW k \in Nat, k \in T, k + 1 <= n
      PROVE  Good(f[k + 1]) /\ (Spread(s, f[k + 1]) = f[k + 1] \/ Cardinality(f[k + 1]) >= (k + 1) + 1)
  <2>1. Good(f[k]) /\ (Spread(s, f[k]) = f[k] \/ Cardinality(f[k]) >= k + 1)
    BY <1>1, <1>6
  <2>2. f[k + 1] = Spread(s, f[k])
    BY <1>1, <1>3, <1>6
  <2> DEFINE R == f[k]
             W == f[k + 1]
  <2>3. R \subseteq W /\ W \subseteq N /\ a \in W
    BY <1>4, <2>1, <2>2
  <2>4. \A w \in W \ R : \E r \in R : <<r, w>> \in Joins(s) \/ <<w, r>> \in Joins(s)
    BY <2>2 DEF Spread, Neighbours
  <2>5. Connected(s, W)
    <3> SUFFICES ASSUME NEW X \in SUBSET W, X # {}, X # W
                 PROVE  \E x \in X, y \in W \ X : <<x, y>> \in Joins(s) \/ <<y, x>> \in Joins(s)
      BY DEF Connected
    <3>1. CASE X \cap R = {}
      <4>1. PICK x \in X : x \in W \ R
        BY <3>1
      <4>2. PICK r \in R : <<r, x>> \in Joins(s) \/ <<x, r>> \in Joins(s)
        BY <2>4, <4>1
      <4> QED
        BY <2>3, <3>1, <4>1, <4>2
    <3>2. CASE R \subseteq X
      <4>1. PICK y \in W \ X : TRUE
        OBVIOUS
      <4>2. PICK r \in R : <<r, y>> \in Joins(s) \/ <<y, r>> \in Joins(s)
        BY <2>4, <3>2, <4>1
      <4> QED
        BY <3>2, <4>1, <4>2
    <3>3. CASE X \cap R # {} /\ ~(R \subseteq X)
      <4>1. X \cap R \in (SUBSET R) \ {{}, R}
        BY <3>3
      <4>2. PICK x \in X \cap R, y \in R \ (X \cap R) : <<x, y>> \in Joins(s) \/ <<y, x>> \in Joins(s)
        BY <2>1, <4>1 DEF Connected
      <4> QED
        BY <2>3, <4>2
    <3> QED
      BY <3>1, <3>2, <3>3
  <2>6. CASE Spread(s, R) = R
    BY <2>2, <2>3, <2>5, <2>6
  <2>7. CASE Spread(s, R) # R /\ Cardinality(R) >= k + 1
    <3>1. IsFiniteSet(W)
      BY <2>3, FS_Subset
    <3>2. Cardinality(R) < Cardinality(W) /\ Cardinality(R) \in Nat /\ Cardinality(W) \in Nat
      <4>1. Cardinality(R) <= Cardinality(W) /\ (Cardinality(R) = Cardinality(W) => R = W)
        BY <2>3, <3>1, FS_Subset
      <4>2. IsFiniteSet(R)
        BY <2>3, <3>1, FS_Subset
      <4> QED
        BY <2>2, <2>7, <3>1, <4>1, <4>2, FS_CardinalityType
    <3>3. Cardinality(W) >= (k + 1) + 1
      BY <2>7, <3>2
    <3> QED
      BY <2>3, <2>5, <3>3
  <2> QED
    BY <2>1, <2>6, <2>7
<1>7. Nat \subseteq T
  <2>1. \A k \in Nat : k \in T => k + 1 \in T
    BY <1>6
  <2> HIDE DEF T
  <2> QED
    BY <1>5, <2>1, InductionOverNat
<1>8. Good(f[n]) /\ (Spread(s, f[n]) = f[n] \/ Cardinality(f[n]) >= n + 1)
  BY <1>1, <1>7
<1>9. Spread(s, f[n]) = f[n]
  <2>1. Cardinality(f[n]) <= n
    BY <1>8, FS_Subset DEF n
  <2>2. Cardinality(f[n]) \in Nat
    BY <1>8, FS_Subset, FS_CardinalityType
  <2> QED
    BY <1>1, <1>8, <2>1, <2>2
<1>10. ASSUME NEW S \in SUBSET N, Connected(s, S), a \in S
       PROVE  S \subseteq f[n]
  <2> DEFINE X == S \cap f[n]
  <2> SUFFICES ASSUME X # S PROVE FALSE
    OBVIOUS
  <2>1. X \in (SUBSET S) \ {{}, S}
    BY <1>8, <1>10
  <2>2. PICK x \in X, y \in S \ X : <<x, y>> \in Joins(s) \/ <<y, x>> \in Joins(s)
    BY <1>10, <2>1 DEF Connected
  <2>3. y \in Spread(s, f[n])
    BY <2>2 DEF Spread, Neighbours
  <2> QED
    BY <1>9, <2>2, <2>3
<1> HIDE DEF T
<1> QED
  BY <1>2, <1>8, <1>10

\* The largest connected set is a component.
LEMMA LargestIs ==
  ASSUME NEW s, IsFiniteSet(Nodes(s)), Nodes(s) # {}
  PROVE  /\ Largest(s) = SetsExt!Max({Cardinality(S) : S \in {S \in SUBSET Nodes(s) : Connected(s, S)}})
         /\ Largest(s) \in Nat
<1> DEFINE N == Nodes(s)
           A == {Cardinality(Component(s, a)) : a \in N}
           B == {Cardinality(S) : S \in {S \in SUBSET N : Connected(s, S)}}
<1>1. \A S \in SUBSET N : IsFiniteSet(S) /\ Cardinality(S) \in Nat /\ Cardinality(S) <= Cardinality(N)
  BY FS_Subset, FS_CardinalityType
<1>2. A \subseteq B /\ A # {} /\ B \subseteq Nat
  BY <1>1, ComponentIs
<1>3. \A b \in B : \E m \in A : b <= m
  <2> SUFFICES ASSUME NEW S \in SUBSET N, Connected(s, S)
               PROVE  \E m \in A : Cardinality(S) <= m
    OBVIOUS
  <2>1. CASE S = {}
    BY <1>1, <1>2, <2>1, FS_EmptySet
  <2>2. CASE S # {}
    <3>1. PICK a \in S : TRUE
      BY <2>2
    <3>2. S \subseteq Component(s, a) /\ Component(s, a) \subseteq N /\ a \in N
      BY <3>1, ComponentIs
    <3>3. Cardinality(S) <= Cardinality(Component(s, a))
      BY <1>1, <3>2, FS_Subset
    <3> QED
      BY <3>2, <3>3
  <2> QED
    BY <2>1, <2>2
<1>4. Cardinality(N) \in Nat /\ \A m \in A : m <= Cardinality(N)
  BY <1>1, ComponentIs
<1>5. Largest(s) = SetsExt!Max(A)
  BY DEF Largest
<1> HIDE DEF A, B
<1>6. PICK m \in A : \A k \in A : k <= m
  BY <1>2, <1>4, GreatestBelow
<1>7. m \in B /\ m \in Nat /\ \A b \in B : b \in Nat /\ b <= m
  BY <1>2, <1>3, <1>6
<1>8. \A k \in A : (\A j \in A : k >= j) => k = m
  BY <1>2, <1>6
<1>9. \A k \in B : (\A j \in B : k >= j) => k = m
  BY <1>7
<1>10. SetsExt!Max(A) = m
  BY <1>2, <1>6, <1>8 DEF SetsExt!Max
<1>11. SetsExt!Max(B) = m
  BY <1>7, <1>9 DEF SetsExt!Max
<1> QED
  BY <1>5, <1>7, <1>10, <1>11 DEF B

-----------------------------------------------------------------------------
(* The roundings.                                                          *)

LEMMA DivMod ==
  ASSUME NEW a \in Nat, NEW b \in Nat \ {0}
  PROVE  a = b * (a \div b) + (a % b) /\ a % b \in 0 .. b - 1 /\ a \div b \in Nat
OBVIOUS

LEMMA QuotientGrows ==
  ASSUME NEW a \in Nat, NEW c \in Nat, a <= c, NEW b \in Nat \ {0}
  PROVE  a \div b <= c \div b
OBVIOUS

LEMMA RemainderGrows ==
  ASSUME NEW a \in Nat, NEW c \in Nat, a <= c, NEW b \in Nat \ {0}, a \div b = c \div b
  PROVE  (a % b) <= (c % b)
<1> DEFINE x == b * (a \div b)
           r == a % b
           t == c % b
<1>1. a = x + r /\ c = x + t
  BY DivMod
<1>2. x \in Int /\ r \in Int /\ t \in Int
  BY DivMod
<1> HIDE DEF x, r, t
<1>3. r <= t
  BY <1>1, <1>2
<1> QED
  BY <1>3 DEF r, t

LEMMA RoundGrows ==
  ASSUME NEW a \in Nat, NEW c \in Nat, a <= c, NEW b \in Nat \ {0}
  PROVE  Round(a, b) <= Round(c, b) /\ Round(a, b) \in Nat
<1>1. a \div b \in Nat /\ c \div b \in Nat /\ a % b \in Nat /\ c % b \in Nat /\ a \div b <= c \div b
  BY DivMod, QuotientGrows
<1>2. a \div b = c \div b => (a % b) <= (c % b)
  BY RemainderGrows
<1>3. (a \div b) % 2 \in {0, 1} /\ (c \div b) % 2 \in {0, 1}
  BY <1>1
<1> DEFINE q == a \div b
           r == a % b
           p == c \div b
           t == c % b
<1> HIDE DEF q, r, p, t
<1> QED
  BY <1>1, <1>2, <1>3 DEF Round, q, r, p, t

LEMMA RoundWhole ==
  ASSUME NEW k \in Nat, NEW b \in Nat \ {0}
  PROVE  Round(k * b, b) = k
<1>1. (k * b) \div b = k /\ (k * b) % b = 0
  OBVIOUS
<1> QED
  BY <1>1 DEF Round

\* A share of n in k points.
LEMMA ShareGrows ==
  ASSUME NEW k \in Nat, NEW n \in Nat \ {0}, NEW x \in 0 .. n, NEW y \in 0 .. n, x <= y
  PROVE  Round(k * x, n) <= Round(k * y, n) /\ Round(k * x, n) \in 0 .. k
<1>1. /\ k * x \in Nat /\ k * y \in Nat /\ k * n \in Nat
      /\ k * x <= k * y /\ k * y <= k * n /\ k * x <= k * n
  OBVIOUS
<1>2. Round(k * x, n) <= Round(k * y, n) /\ Round(k * x, n) \in Nat /\ Round(k * x, n) <= Round(k * n, n)
  BY <1>1, RoundGrows
<1>3. Round(k * n, n) = k
  BY RoundWhole
<1> QED
  BY <1>2, <1>3

-----------------------------------------------------------------------------
(* What the scores are made of.                                            *)

\* A snapshot with all its tables, each with rows there may be.
Whole(s) ==
  /\ DOMAIN s = TableNames
  /\ s.content_items \subseteq Contents /\ s.content_chunks \in [Contents -> Seq(ChunkState)]
  /\ s.cb_hub_content \subseteq Hubs \X Contents /\ s.cb_edges \subseteq Relations
  /\ \A e \in s.cb_hub_edges : e.ends \in HubPairs

LEMMA WholeIsFinite ==
  ASSUME NEW s, Whole(s)
  PROVE  /\ IsFiniteSet(Nodes(s)) /\ IsFiniteSet(s.content_items) /\ IsFiniteSet(s.cb_hub_content)
<1>1. Linked(s) \subseteq Contents
  BY DEF Linked, Whole
<1>2. Ends(s) \subseteq Contents \cup Hubs
  <2>1. HubLines(s) \subseteq Hubs \X Hubs
    BY NodesAssumption DEF Whole, HubLines
  <2>2. Joins(s) \subseteq (Contents \cup Hubs) \X (Contents \cup Hubs)
    BY <2>1, NodesAssumption DEF Whole, Joins
  <2>3. \A e \in Joins(s) : e[1] \in Contents \cup Hubs /\ e[2] \in Contents \cup Hubs
    BY <2>2
  <2> QED
    BY <2>3 DEF Ends
<1>3. Nodes(s) \subseteq Contents \cup Hubs
  BY <1>1, <1>2 DEF Nodes
<1>4. IsFiniteSet(Contents \cup Hubs)
  BY FiniteAssumption, FS_Union
<1>5. IsFiniteSet(Hubs \X Contents)
  BY FiniteAssumption, FS_Product
<1> QED
  BY <1>3, <1>4, <1>5, FiniteAssumption, FS_Subset DEF Whole

LEMMA WithDegreeIs ==
  ASSUME NEW s, IsFiniteSet(Nodes(s)), NEW D
  PROVE  WithDegree(s, D) \in 0 .. Cardinality(Nodes(s)) /\ Cardinality(Nodes(s)) \in Nat
<1> DEFINE W == {n \in Nodes(s) : Cardinality(Neighbours(s, n)) \in D}
<1>1. W \subseteq Nodes(s)
  OBVIOUS
<1> HIDE DEF W
<1>2. IsFiniteSet(W) /\ Cardinality(W) <= Cardinality(Nodes(s))
  BY <1>1, FS_Subset
<1>3. Cardinality(W) \in Nat /\ Cardinality(Nodes(s)) \in Nat
  BY <1>2, FS_CardinalityType
<1> QED
  BY <1>2, <1>3 DEF WithDegree, W

LEMMA TopologyIs ==
  ASSUME NEW s, IsFiniteSet(Nodes(s))
  PROVE  TopologyScore(s) \in 0 .. 25
<1> DEFINE n == Cardinality(Nodes(s))
           x == n - WithDegree(s, {0})
           y == n - WithDegree(s, {0, 1})
           z == Largest(s)
           X == Round(8 * x, n)
           Y == Round(7 * y, n)
           Z == Round(10 * Round(10000 * z, n), 10000)
<1>1. CASE n = 0
  BY <1>1 DEF TopologyScore
<1>2. CASE n # 0
  <2>1. n \in Nat \ {0} /\ x \in 0 .. n /\ y \in 0 .. n
    BY <1>2, WithDegreeIs
  <2>2. z \in Nat
    BY <1>2, LargestIs, FS_EmptySet
  <2>3. TopologyScore(s) = AtMost(Z + X + Y, 25)
    BY <1>2 DEF TopologyScore
  <2> HIDE DEF n, x, y, z
  <2>4. X \in Nat /\ Y \in Nat
    <3>1. x <= x /\ y <= y
      BY <2>1
    <3>2. X \in 0 .. 8
      BY <2>1, <3>1, ShareGrows
    <3>3. Y \in 0 .. 7
      BY <2>1, <3>1, ShareGrows
    <3> QED
      BY <3>2, <3>3
  <2>5. Round(10000 * z, n) \in Nat
    BY <2>1, <2>2, RoundGrows
  <2>6. Z \in Nat
    BY <2>5, RoundGrows
  <2> HIDE DEF X, Y, Z
  <2> QED
    BY <2>3, <2>4, <2>6 DEF AtMost
<1> QED
  BY <1>1, <1>2

\* The same joins and the same links score the same.
LEMMA SameGraph ==
  ASSUME NEW s, NEW t, Joins(s) = Joins(t), Linked(s) = Linked(t), IsFiniteSet(Nodes(s))
  PROVE  Nodes(s) = Nodes(t) /\ TopologyScore(s) = TopologyScore(t)
<1>1. Ends(s) = Ends(t)
  BY DEF Ends
<1>2. Nodes(s) = Nodes(t)
  BY <1>1 DEF Nodes
<1>3. \A a : Neighbours(s, a) = Neighbours(t, a)
  BY <1>2 DEF Neighbours
<1>4. \A D : WithDegree(s, D) = WithDegree(t, D)
  BY <1>2, <1>3 DEF WithDegree
<1>5. \A S : Connected(s, S) <=> Connected(t, S)
  BY DEF Connected
<1>6. ASSUME NEW a \in Nodes(s)
      PROVE  Component(s, a) = Component(t, a)
  <2>1. /\ a \in Component(s, a) /\ Component(s, a) \subseteq Nodes(s) /\ Connected(s, Component(s, a))
        /\ \A S \in SUBSET Nodes(s) : Connected(s, S) /\ a \in S => S \subseteq Component(s, a)
    BY ComponentIs
  <2>2. /\ a \in Component(t, a) /\ Component(t, a) \subseteq Nodes(t) /\ Connected(t, Component(t, a))
        /\ \A S \in SUBSET Nodes(t) : Connected(t, S) /\ a \in S => S \subseteq Component(t, a)
    BY <1>2, ComponentIs
  <2> QED
    BY <1>2, <1>5, <2>1, <2>2
<1>7. {Cardinality(Component(s, a)) : a \in Nodes(s)} = {Cardinality(Component(t, a)) : a \in Nodes(t)}
  BY <1>2, <1>6
<1>8. Largest(s) = Largest(t)
  BY <1>7 DEF Largest
<1> QED
  BY <1>2, <1>4, <1>8 DEF TopologyScore

-----------------------------------------------------------------------------
(* An embedding arrives.                                                   *)

\* Another vector: the same texts, the same rows, and every vector there was.
Grown(s, t) ==
  /\ t.content_items = s.content_items /\ t.cb_hubs = s.cb_hubs /\ t.cb_hub_content = s.cb_hub_content
  /\ t.cb_edges = s.cb_edges /\ t.cb_hub_edges = s.cb_hub_edges
  /\ t.cb_aliases = s.cb_aliases /\ t.cb_alias_candidates = s.cb_alias_candidates
  /\ \A d \in Contents :
       /\ s.content_chunks[d] = <<>> <=> t.content_chunks[d] = <<>>
       /\ DOMAIN t.content_chunks[d] = DOMAIN s.content_chunks[d]
       /\ \A j \in DOMAIN s.content_chunks[d] :
            /\ t.content_chunks[d][j].text = s.content_chunks[d][j].text
            /\ s.content_chunks[d][j].vector => t.content_chunks[d][j].vector

LEMMA VectorGrows ==
  ASSUME NEW s, Whole(s), NEW c \in Contents, NEW i \in DOMAIN s.content_chunks[c]
  PROVE  Grown(s, WithVector(s, c, i))
<1> DEFINE old == s.content_chunks[c]
           row == [old[i] EXCEPT !.vector = TRUE]
           body == [old EXCEPT ![i] = row]
           table == [s.content_chunks EXCEPT ![c] = body]
           t == [s EXCEPT !.content_chunks = table]
<1>1. WithVector(s, c, i) = t
  BY DEF WithVector
<1>2. old \in Seq(ChunkState) /\ i \in DOMAIN old /\ old[i] \in ChunkState
  BY DEF Whole
<1>3. row.text = old[i].text /\ row.vector = TRUE
  BY <1>2 DEF ChunkState
<1> HIDE DEF row
<1>4. /\ DOMAIN body = DOMAIN old /\ body[i] = row /\ \A j \in DOMAIN old : j # i => body[j] = old[j]
      /\ body # <<>> /\ old # <<>>
  <2> HIDE DEF old
  <2> QED
    BY <1>2
<1> HIDE DEF body
<1>5. table[c] = body /\ \A d \in Contents : d # c => table[d] = s.content_chunks[d]
  BY DEF Whole
<1> HIDE DEF table
<1>6. /\ t.content_chunks = table
      /\ t.content_items = s.content_items /\ t.cb_hubs = s.cb_hubs /\ t.cb_hub_content = s.cb_hub_content
      /\ t.cb_edges = s.cb_edges /\ t.cb_hub_edges = s.cb_hub_edges
      /\ t.cb_aliases = s.cb_aliases /\ t.cb_alias_candidates = s.cb_alias_candidates
  BY DEF Whole, TableNames, Tables
<1> HIDE DEF t
<1>7. ASSUME NEW d \in Contents
      PROVE  /\ s.content_chunks[d] = <<>> <=> t.content_chunks[d] = <<>>
             /\ DOMAIN t.content_chunks[d] = DOMAIN s.content_chunks[d]
             /\ \A j \in DOMAIN s.content_chunks[d] :
                  /\ t.content_chunks[d][j].text = s.content_chunks[d][j].text
                  /\ s.content_chunks[d][j].vector => t.content_chunks[d][j].vector
  <2>1. CASE d = c
    BY <1>3, <1>4, <1>5, <1>6, <2>1
  <2>2. CASE d # c
    BY <1>5, <1>6, <2>2
  <2> QED
    BY <2>1, <2>2
<1> QED
  BY <1>1, <1>6, <1>7 DEF Grown

LEMMA GrownShows ==
  ASSUME NEW s, NEW t, Whole(s), Grown(s, t)
  PROVE  /\ Joins(s) = Joins(t) /\ Linked(s) = Linked(t) /\ Dangling(s) = Dangling(t)
         /\ AliasLabels(s) = AliasLabels(t)
         /\ Reported(s) \subseteq Reported(t)
         /\ WithoutVector(t) \subseteq WithoutVector(s) /\ Findings(t) \subseteq Findings(s)
         /\ Unsearchable(t) \subseteq Unsearchable(s)
<1>1. Joins(s) = Joins(t) /\ Linked(s) = Linked(t)
  BY DEF Grown, Joins, HubLines, Linked
<1>2. Dangling(s) = Dangling(t)
  BY <1>1 DEF Grown, Dangling
<1>3. AliasLabels(s) = AliasLabels(t)
  BY DEF Grown, AliasLabels
<1>4. \A c \in Contents : /\ HasVector(s, c) => HasVector(t, c)
                          /\ Searchable(s, c) => Searchable(t, c)
  BY DEF Grown, HasVector, HasText, Searchable, Some
<1>5. s.content_items \subseteq Contents /\ t.content_items = s.content_items
  BY DEF Whole, Grown
<1>6. Reported(s) \subseteq Reported(t)
  BY <1>4, <1>5 DEF Reported
<1>7. WithoutVector(t) \subseteq WithoutVector(s)
  BY <1>4, <1>5 DEF WithoutVector, Grown
<1>8. Findings(t) \subseteq Findings(s)
  BY <1>6 DEF Findings, Grown
<1>9. Unsearchable(t) \subseteq Unsearchable(s)
  BY <1>1, <1>4, <1>5 DEF Unsearchable, Ends
<1> QED
  BY <1>1, <1>2, <1>3, <1>6, <1>7, <1>8, <1>9

\* A bonus for having none of something, on top of a share.
WithBonus(a, S, m) == AtMost(a + 5 + (IF S = {} THEN 5 ELSE 0), m)

LEMMA BonusGrows ==
  ASSUME NEW S, NEW T, T \subseteq S, NEW a \in Nat, NEW b \in Nat, a <= b, NEW m \in Nat
  PROVE  /\ WithBonus(a, S, m) <= WithBonus(b, T, m) /\ WithBonus(b, T, m) \in Int
         /\ WithBonus(a, S, m) \in 0 .. m /\ WithBonus(a, S, m) <= a + 10
<1> DEFINE x == IF S = {} THEN 5 ELSE 0
           y == IF T = {} THEN 5 ELSE 0
<1>1. x \in {0, 5} /\ y \in {0, 5} /\ x <= y
  OBVIOUS
<1> HIDE DEF x, y
<1> QED
  BY <1>1 DEF WithBonus, AtMost, x, y

LEMMA PartsOfScore ==
  ASSUME NEW s, NEW t, Whole(s), IsFiniteSet(s.content_items), IsFiniteSet(s.cb_hub_content),
         t.content_items = s.content_items, t.cb_hub_content = s.cb_hub_content,
         Reported(s) \subseteq Reported(t), WithoutVector(t) \subseteq WithoutVector(s),
         Findings(t) \subseteq Findings(s)
  PROVE  /\ IndexScore(s) <= IndexScore(t) /\ IndexScore(s) \in 0 .. 30 /\ IndexScore(t) \in Int
         /\ RecallScore(s) <= RecallScore(t) /\ RecallScore(s) \in 0 .. 20 /\ RecallScore(t) \in Int
<1>1. IndexScore(s) <= IndexScore(t) /\ IndexScore(s) \in 0 .. 30 /\ IndexScore(t) \in Int
  <2> DEFINE n == Cardinality(s.content_items)
             x == Cardinality(Reported(s))
             y == Cardinality(Reported(t))
  <2>1. Reported(s) \subseteq s.content_items /\ Reported(t) \subseteq s.content_items
    BY DEF Reported
  <2>2. IsFiniteSet(Reported(t)) /\ IsFiniteSet(Reported(s))
    BY <2>1, FS_Subset
  <2>3. n \in Nat /\ x \in 0 .. n /\ y \in 0 .. n /\ x <= y
    <3>1. n \in Nat /\ x \in Nat /\ y \in Nat
      BY <2>2, FS_CardinalityType
    <3>2. x <= n /\ y <= n
      BY <2>1, FS_Subset
    <3>3. x <= y
      BY <2>2, FS_Subset
    <3> QED
      BY <3>1, <3>2, <3>3
  <2>4. CASE n = 0
    BY <2>4 DEF IndexScore
  <2>5. CASE n # 0
    <3> DEFINE a == Round(20 * x, n)
               b == Round(20 * y, n)
    <3>1. /\ IndexScore(s) = WithBonus(a, WithoutVector(s), 30)
          /\ IndexScore(t) = WithBonus(b, WithoutVector(t), 30)
      BY <2>5 DEF IndexScore, WithBonus
    <3> HIDE DEF n, x, y
    <3>2. a <= b /\ a \in 0 .. 20
      BY <2>3, <2>5, ShareGrows
    <3>3. b \in 0 .. 20
      <4>1. y <= y
        BY <2>3
      <4> QED
        BY <2>3, <2>5, <4>1, ShareGrows
    <3> HIDE DEF a, b
    <3>4. a \in Nat /\ b \in Nat /\ 30 \in Nat
      BY <3>2, <3>3
    <3> QED
      BY <3>1, <3>2, <3>4, BonusGrows
  <2> QED
    BY <2>3, <2>4, <2>5
<1>2. RecallScore(s) <= RecallScore(t) /\ RecallScore(s) \in 0 .. 20 /\ RecallScore(t) \in Int
  <2> DEFINE n == Cardinality(s.cb_hub_content)
             x == n - Cardinality(Findings(s))
             y == n - Cardinality(Findings(t))
  <2>1. Findings(s) \subseteq s.cb_hub_content /\ Findings(t) \subseteq s.cb_hub_content
    BY DEF Findings
  <2>2. IsFiniteSet(Findings(t)) /\ IsFiniteSet(Findings(s))
    BY <2>1, FS_Subset
  <2>3. n \in Nat /\ x \in 0 .. n /\ y \in 0 .. n /\ x <= y
    <3>1. n \in Nat /\ Cardinality(Findings(s)) \in Nat /\ Cardinality(Findings(t)) \in Nat
      BY <2>2, FS_CardinalityType
    <3>2. Cardinality(Findings(s)) <= n /\ Cardinality(Findings(t)) <= n
      BY <2>1, FS_Subset
    <3>3. Cardinality(Findings(t)) <= Cardinality(Findings(s))
      BY <2>2, FS_Subset
    <3> QED
      BY <3>1, <3>2, <3>3
  <2>4. CASE n = 0
    BY <2>4 DEF RecallScore
  <2>5. CASE n # 0
    <3> DEFINE a == Round(10 * x, n)
               b == Round(10 * y, n)
    <3>1. /\ RecallScore(s) = WithBonus(a, Findings(s), 25)
          /\ RecallScore(t) = WithBonus(b, Findings(t), 25)
      BY <2>5 DEF RecallScore, WithBonus
    <3> HIDE DEF n, x, y
    <3>2. a <= b /\ a \in 0 .. 10
      BY <2>3, <2>5, ShareGrows
    <3>3. b \in 0 .. 10
      <4>1. y <= y
        BY <2>3
      <4> QED
        BY <2>3, <2>5, <4>1, ShareGrows
    <3> HIDE DEF a, b
    <3>4. a \in Nat /\ b \in Nat /\ 25 \in Nat
      BY <3>2, <3>3
    <3>5. /\ RecallScore(s) <= RecallScore(t) /\ RecallScore(t) \in Int
          /\ RecallScore(s) \in 0 .. 25 /\ RecallScore(s) <= a + 10
      BY <3>1, <3>2, <3>4, BonusGrows
    <3> QED
      BY <3>2, <3>5
  <2> QED
    BY <2>3, <2>4, <2>5
<1> QED
  BY <1>1, <1>2

LEMMA AliasAndConsistency ==
  ASSUME NEW s, NEW t, Dangling(s) = Dangling(t), AliasLabels(s) = AliasLabels(t),
         Unsearchable(t) \subseteq Unsearchable(s)
  PROVE  /\ AliasScore(s) = AliasScore(t) /\ AliasScore(s) \in 0 .. 10
         /\ ConsistencyScore(s) <= ConsistencyScore(t)
         /\ ConsistencyScore(s) \in 0 .. 10 /\ ConsistencyScore(t) \in 0 .. 10
<1>1. AliasScore(s) = AliasScore(t) /\ AliasScore(s) \in {7, 10}
  BY DEF AliasScore
<1>2. \A r : \/ ConsistencyScore(r) = 10 /\ Dangling(r) = {} /\ Unsearchable(r) = {}
             \/ ConsistencyScore(r) = 4 /\ Dangling(r) = {} /\ Unsearchable(r) # {}
             \/ ConsistencyScore(r) = 3 /\ Dangling(r) # {} /\ Unsearchable(r) = {}
             \/ ConsistencyScore(r) = 0 /\ Dangling(r) # {} /\ Unsearchable(r) # {}
  BY DEF ConsistencyScore
<1>3. Unsearchable(s) = {} => Unsearchable(t) = {}
  OBVIOUS
<1> QED
  BY <1>1, <1>2, <1>3

\* The score of a snapshot, and of one with an embedding more.
LEMMA HealthIs ==
  ASSUME NEW s, NEW t, Whole(s), Grown(s, t)
  PROVE  HealthScore(s) \in 0 .. 95 /\ HealthScore(s) <= HealthScore(t)
<1>1. IsFiniteSet(Nodes(s)) /\ IsFiniteSet(s.content_items) /\ IsFiniteSet(s.cb_hub_content)
  BY WholeIsFinite
<1>2. TopologyScore(s) \in 0 .. 25 /\ TopologyScore(t) = TopologyScore(s)
  BY <1>1, GrownShows, SameGraph, TopologyIs
<1>3. /\ IndexScore(s) <= IndexScore(t) /\ IndexScore(s) \in 0 .. 30
      /\ RecallScore(s) <= RecallScore(t) /\ RecallScore(s) \in 0 .. 20
      /\ IndexScore(t) \in Int /\ RecallScore(t) \in Int
  BY <1>1, GrownShows, PartsOfScore DEF Grown
<1>4. /\ AliasScore(s) = AliasScore(t) /\ AliasScore(s) \in 0 .. 10
      /\ ConsistencyScore(s) <= ConsistencyScore(t)
      /\ ConsistencyScore(s) \in 0 .. 10 /\ ConsistencyScore(t) \in 0 .. 10
  BY GrownShows, AliasAndConsistency
<1> DEFINE u == TopologyScore(s)
           x == IndexScore(s)
           y == RecallScore(s)
           v == AliasScore(s)
           z == ConsistencyScore(s)
           x2 == IndexScore(t)
           y2 == RecallScore(t)
           z2 == ConsistencyScore(t)
<1>5. HealthScore(s) = AtMost(u + x + y + v + z, 100) /\ HealthScore(t) = AtMost(u + x2 + y2 + v + z2, 100)
  BY <1>2, <1>4 DEF HealthScore
<1>6. /\ u \in 0 .. 25 /\ x \in 0 .. 30 /\ y \in 0 .. 20 /\ v \in 0 .. 10 /\ z \in 0 .. 10
      /\ x2 \in Int /\ y2 \in Int /\ z2 \in Int /\ x <= x2 /\ y <= y2 /\ z <= z2
  BY <1>2, <1>3, <1>4
<1> HIDE DEF u, x, y, v, z, x2, y2, z2
<1>7. u + x + y + v + z \in 0 .. 95 /\ u + x + y + v + z <= u + x2 + y2 + v + z2
  BY <1>6
<1> QED
  BY <1>5, <1>6, <1>7 DEF AtMost

\* What cannot be found is warned of.
LEMMA LostIsWarnedOf ==
  ASSUME NEW s, Whole(s), Reported(s) \cup Mute(s) # s.content_items
  PROVE  Warnings(s) # {}
<1>1. PICK c \in s.content_items : c \notin Reported(s) /\ c \notin Mute(s)
  BY DEF Reported, Mute
<1>2. ~HasVector(s, c)
  BY <1>1 DEF Reported, Mute, Searchable
<1>3. CASE s.content_chunks[c] = <<>>
  <2>1. "no chunks" \in ReaderWarnings(s)
    BY <1>3 DEF ReaderWarnings
  <2> QED
    BY <2>1 DEF Warnings
<1>4. CASE s.content_chunks[c] # <<>>
  <2>1. WithoutVector(s) # {}
    BY <1>2, <1>4 DEF WithoutVector
  <2>2. "item without embedding" \in Warnings(s)
    BY <2>1 DEF Warnings
  <2> QED
    BY <2>2
<1> QED
  BY <1>3, <1>4

\* Every snapshot is whole, read to the end or not.
LEMMA AlwaysWhole == HealthSpec => []Whole(reader.snapshot)
<1>1. Whole(NothingRead)
  <2>1. /\ DOMAIN NothingRead = TableNames
        /\ NothingRead.content_chunks = [c \in Contents |-> <<>>]
        /\ NothingRead.content_items = {} /\ NothingRead.cb_hub_content = {}
        /\ NothingRead.cb_edges = {} /\ NothingRead.cb_hub_edges = {}
    BY DEF NothingRead, TableNames, Tables
  <2>2. [c \in Contents |-> <<>>] \in [Contents -> Seq(ChunkState)]
    OBVIOUS
  <2> QED
    BY <2>1, <2>2 DEF Whole
<1>2. HealthInit => Whole(reader.snapshot)
  BY <1>1, NotAskedIs DEF HealthInit
<1>3. ASSUME SnapshotInv, Whole(reader.snapshot), [HealthNext]_healthVars
      PROVE  Whole(reader.snapshot)'
  <2>1. CASE Requests
    <3> SUFFICES ASSUME NEW asks, NEW mode, NEW wired \in BOOLEAN, NEW hub, Ask(asks, mode, wired, hub)
                 PROVE  Whole(reader'.snapshot)
      BY <2>1 DEF Requests, AskHealth, AskAliases, AskRecall
    <3> DEFINE step == IF Answer(mode, wired) = "none" THEN "read" ELSE "done"
    <3>1. reader' = [NotAsked EXCEPT !.asks = asks, !.hub = hub, !.answer = Answer(mode, wired), !.step = step]
      BY DEF Ask
    <3> HIDE DEF step
    <3>2. reader'.snapshot = NothingRead
      BY <3>1, NotAskedIs
    <3> QED
      BY <1>1, <3>2
  <2>2. CASE ReadTable
    <3> DEFINE n == reader.next
               old == reader.snapshot
               rows == RowsOf(Tables[n])
               s == [old EXCEPT ![Tables[n]] = rows]
    <3>1. reader'.snapshot = s /\ n \in 1 .. 8
      <4>1. reader.step = "read" /\ DOMAIN reader = DOMAIN NotAsked /\ n \in 1 .. 8
        BY <1>3, <2>2, TablesAre DEF ReadTable, SnapshotInv, Reading
      <4> DEFINE step == IF n = Len(Tables) THEN "done" ELSE "read"
                 answer == IF n = Len(Tables) THEN "repository" ELSE "none"
      <4>2. reader' = [reader EXCEPT !.snapshot = s, !.next = n + 1, !.step = step, !.answer = answer]
        BY <2>2 DEF ReadTable
      <4> HIDE DEF s, step, answer
      <4>3. reader'.snapshot = s
        BY <4>1, <4>2, NotAskedIs
      <4> QED
        BY <4>1, <4>3
    <3>2. /\ db.content_items \subseteq Contents /\ db.content_chunks \in [Contents -> Seq(ChunkState)]
          /\ db.cb_hub_content \subseteq Hubs \X Contents /\ db.cb_edges \subseteq Relations
          /\ \A e \in db.cb_hub_edges : e \in [ends : HubPairs, status : HubEdgeStatuses, archived : BOOLEAN]
      BY <1>3, DatabaseFields DEF SnapshotInv
    <3>3. /\ RowsOf("content_items") \subseteq Contents
          /\ RowsOf("content_chunks") \in [Contents -> Seq(ChunkState)]
          /\ RowsOf("cb_hub_content") \subseteq Hubs \X Contents /\ RowsOf("cb_edges") \subseteq Relations
          /\ \A e \in RowsOf("cb_hub_edges") : e.ends \in HubPairs
      BY <3>2 DEF RowsOf
    <3>4. Tables[n] \in TableNames /\ Whole(old)
      BY <1>3, <3>1, TablesAre
    <3> HIDE DEF n, old
    <3>5. \A x \in TableNames : s[x] = IF x = Tables[n] THEN rows ELSE old[x]
      BY <3>4 DEF Whole
    <3>6. DOMAIN s = TableNames
      BY <3>4 DEF Whole
    <3>7. {"content_items", "content_chunks", "cb_hub_content", "cb_edges", "cb_hub_edges"} \subseteq TableNames
      BY DEF TableNames, Tables
    <3> HIDE DEF s
    <3>8. Whole(s)
      BY <3>3, <3>4, <3>5, <3>6, <3>7 DEF Whole
    <3>9. Whole(reader'.snapshot)
      BY <3>1, <3>8
    <3> QED
      BY <3>9
  <2>3. CASE Others \/ UNCHANGED healthVars
    <3>1. reader' = reader
      BY <2>3 DEF Others, SaveItem, StoreBody, PutBody, Embed, LinkContent, AddEdge, DeleteEdges,
                  PutHubEdge, ReviewHubEdge, RenameHub, Write, healthVars
    <3> QED
      BY <1>3, <3>1
  <2> QED
    BY <1>3, <2>1, <2>2, <2>3 DEF HealthNext
<1>4. HealthSpec => []SnapshotInv
  BY InitSnapshot, NextSnapshot, PTL DEF HealthSpec
<1> QED
  BY <1>2, <1>3, <1>4, PTL DEF HealthSpec

\* The scores of a report, torn or not, mean what they say: the search finds the largest connected
\* set there is, no embedding that arrives costs a point, nothing but 0 to 95 comes out, and what
\* cannot be found is warned of; for any finite sets of contents and hubs, any edges and any
\* commits of others (graph_topology.py, health_service.py).
THEOREM ScoresMeanWhatTheySay == HealthSpec => []ScoresAreSound
<1>1. ASSUME Whole(reader.snapshot) PROVE ScoresAreSound
  <2> DEFINE s == reader.snapshot
  <2>1. IsFiniteSet(Nodes(s))
    BY <1>1, WholeIsFinite
  <2>2. \A c \in Contents : \A i \in DOMAIN s.content_chunks[c] :
          HealthScore(s) <= HealthScore(WithVector(s, c, i))
    BY <1>1, VectorGrows, HealthIs
  <2>3. HealthScore(s) \in 0 .. 95
    <3>1. Grown(s, s)
      BY DEF Grown
    <3> QED
      BY <1>1, <3>1, HealthIs
  <2>4. Status(s) # "ok"
    BY DEF Status, Limitations
  <2> QED
    BY <1>1, <2>1, <2>2, <2>3, <2>4, LargestIs, LostIsWarnedOf DEF ScoresAreSound
<1> QED
  BY <1>1, AlwaysWhole, PTL

-----------------------------------------------------------------------------
(* The circuit told from supplied events.                                  *)

BreakerStates == {"closed", "degraded", "open", "half_open", "unavailable"}
Refusing == {"open", "unavailable"}

\* What is told follows from what was asked.
BreakerInv ==
  /\ question \in [events : Histories, now : Instants, initial : FirstStates, score : Scores]
  /\ told # NoTale => told = EvaluateCircuitState(question.events, question.now, question.initial)
  /\ planned # NoPlan => told # NoTale /\ planned = PlanTierRoute(question.score, told.state)

LEMMA BreakerInvariance == BreakerSpec => []BreakerInv
<1>1. BreakerInit => BreakerInv
  BY DEF BreakerInit, BreakerInv
<1>2. BreakerInv /\ [BreakerNext]_breakerVars => BreakerInv'
  <2> SUFFICES ASSUME BreakerInv, [BreakerNext]_breakerVars PROVE BreakerInv'
    OBVIOUS
  <2> USE DEF BreakerInv
  <2>1. CASE AskBreaker
    BY <2>1 DEF AskBreaker
  <2>2. CASE PlanRoute
    BY <2>2 DEF PlanRoute
  <2>3. ASSUME NEW persist \in BOOLEAN, NEW backend \in {"missing", "refuses", "stores"}, Persist(persist, backend)
        PROVE  BreakerInv'
    BY <2>3 DEF Persist
  <2>4. CASE UNCHANGED breakerVars
    BY <2>4 DEF breakerVars
  <2> QED
    BY <2>1, <2>2, <2>3, <2>4 DEF BreakerNext
<1> QED
  BY <1>1, <1>2, PTL DEF BreakerSpec

IsSupplied(events) ==
  DOMAIN events = 1 .. Len(events) /\ \A i \in DOMAIN events : events[i].type \in EventTypes /\ events[i].at \in Nat

\* The order of the events is total.
LEMMA PrecedesOrders ==
  ASSUME NEW events, IsSupplied(events), NEW i \in DOMAIN events, NEW j \in DOMAIN events, NEW k \in DOMAIN events
  PROVE  /\ ~Precedes(events, i, i)
         /\ Precedes(events, i, j) => ~Precedes(events, j, i)
         /\ i # j => Precedes(events, i, j) \/ Precedes(events, j, i)
         /\ Precedes(events, i, j) /\ Precedes(events, j, k) => Precedes(events, i, k)
         /\ Precedes(events, i, j) => events[i].at <= events[j].at
<1>1. /\ i \in Nat /\ j \in Nat /\ k \in Nat
      /\ events[i].at \in Nat /\ events[j].at \in Nat /\ events[k].at \in Nat
  BY DEF IsSupplied
<1> QED
  BY <1>1 DEF Precedes

\* How many precede an event.
RankOf(events, now, i) == Cardinality({j \in Past(events, now) : Precedes(events, j, i)})

LEMMA PastIsFinite ==
  ASSUME NEW events, IsSupplied(events), Len(events) \in Nat, NEW now
  PROVE  IsFiniteSet(Past(events, now)) /\ Past(events, now) \subseteq DOMAIN events
<1>1. IsFiniteSet(1 .. Len(events))
  BY FS_Interval
<1> QED
  BY <1>1, FS_Subset DEF Past, IsSupplied

LEMMA RankOfGrows ==
  ASSUME NEW events, IsSupplied(events), Len(events) \in Nat, NEW now,
         NEW i \in Past(events, now), NEW j \in Past(events, now)
  PROVE  /\ RankOf(events, now, i) \in 0 .. Cardinality(Past(events, now)) - 1
         /\ Precedes(events, i, j) => RankOf(events, now, i) < RankOf(events, now, j)
<1> DEFINE P == Past(events, now)
           B(k) == {h \in P : Precedes(events, h, k)}
<1>1. IsFiniteSet(P) /\ P \subseteq DOMAIN events
  BY PastIsFinite
<1>2. ASSUME NEW k \in P
      PROVE  /\ IsFiniteSet(B(k)) /\ Cardinality(B(k)) \in Nat
             /\ Cardinality(B(k) \cup {k}) = Cardinality(B(k)) + 1
             /\ IsFiniteSet(B(k) \cup {k})
  <2>1. IsFiniteSet(B(k))
    BY <1>1, FS_Subset
  <2>2. k \notin B(k)
    BY <1>1, <1>2, PrecedesOrders
  <2> QED
    BY <2>1, <2>2, FS_AddElement, FS_CardinalityType
<1>3. RankOf(events, now, i) = Cardinality(B(i)) /\ RankOf(events, now, j) = Cardinality(B(j))
  BY DEF RankOf
<1>4. Cardinality(B(i)) + 1 <= Cardinality(P) /\ Cardinality(P) \in Nat
  <2>1. B(i) \cup {i} \subseteq P
    OBVIOUS
  <2>2. Cardinality(B(i) \cup {i}) <= Cardinality(P) /\ Cardinality(P) \in Nat
    BY <1>1, <2>1, FS_Subset, FS_CardinalityType
  <2> QED
    BY <1>2, <2>2
<1>5. ASSUME Precedes(events, i, j)
      PROVE  Cardinality(B(i)) + 1 <= Cardinality(B(j))
  <2>1. B(i) \cup {i} \subseteq B(j)
    BY <1>1, <1>5, PrecedesOrders
  <2>2. Cardinality(B(i) \cup {i}) <= Cardinality(B(j))
    BY <1>2, <2>1, FS_Subset
  <2> QED
    BY <1>2, <2>2
<1> HIDE DEF P, B
<1>6. Cardinality(B(i)) \in Nat /\ Cardinality(B(j)) \in Nat
  BY <1>2 DEF P
<1>7. Cardinality(B(i)) \in 0 .. Cardinality(P) - 1
  BY <1>4, <1>6
<1>8. Precedes(events, i, j) => Cardinality(B(i)) < Cardinality(B(j))
  BY <1>5, <1>6
<1> QED
  BY <1>3, <1>7, <1>8 DEF P

\* Ordered has all of the past, each after those that precede it.
LEMMA OrderedIs ==
  ASSUME NEW events, IsSupplied(events), Len(events) \in Nat, NEW now
  PROVE  LET P == Past(events, now)
             s == Ordered(events, now)
         IN  /\ Len(s) \in Nat /\ Len(s) = Cardinality(P) /\ DOMAIN s = 1 .. Len(s)
             /\ \A k \in 1 .. Len(s) : s[k] \in P /\ RankOf(events, now, s[k]) = k - 1
             /\ \A i \in P : i = s[RankOf(events, now, i) + 1]
<1> DEFINE P == Past(events, now)
           s == Ordered(events, now)
           n == Cardinality(P)
           f == [i \in P |-> RankOf(events, now, i)]
<1>1. IsFiniteSet(P) /\ P \subseteq DOMAIN events /\ n \in Nat
  BY PastIsFinite, FS_CardinalityType
<1>2. \A i \in P : RankOf(events, now, i) \in 0 .. n - 1
  BY RankOfGrows
<1>3. \A i, j \in P : RankOf(events, now, i) = RankOf(events, now, j) => i = j
  <2> SUFFICES ASSUME NEW i \in P, NEW j \in P, RankOf(events, now, i) = RankOf(events, now, j), i # j
               PROVE  FALSE
    OBVIOUS
  <2>1. Precedes(events, i, j) \/ Precedes(events, j, i)
    BY <1>1, PrecedesOrders
  <2>2. RankOf(events, now, i) \in Nat
    BY <1>1, <1>2
  <2>3. RankOf(events, now, i) < RankOf(events, now, j) \/ RankOf(events, now, j) < RankOf(events, now, i)
    BY <2>1, RankOfGrows
  <2> QED
    BY <2>2, <2>3
<1>4. f \in Surjection(P, 0 .. n - 1)
  <2>1. f \in Injection(P, 0 .. n - 1)
    <3>1. f \in [P -> 0 .. n - 1]
      BY <1>2
    <3>2. \A i, j \in P : f[i] = f[j] => i = j
      BY <1>3
    <3> HIDE DEF f, P
    <3> QED
      BY <3>1, <3>2 DEF Injection, IsInjective
  <2>2. IsFiniteSet(0 .. n - 1) /\ Cardinality(0 .. n - 1) = n
    <3>1. n \in Nat /\ 0 \in Int /\ n - 1 \in Int
      BY <1>1
    <3> HIDE DEF n
    <3>2. IsFiniteSet(0 .. n - 1) /\ Cardinality(0 .. n - 1) = IF 0 > n - 1 THEN 0 ELSE n - 1 - 0 + 1
      BY <3>1, FS_Interval
    <3> QED
      BY <3>1, <3>2
  <2> HIDE DEF f
  <2> QED
    BY <2>1, <2>2, FS_Injection
<1>5. \A k \in 1 .. n : \E i \in P : RankOf(events, now, i) = k - 1
  <2>1. \A m \in 0 .. n - 1 : \E i \in P : f[i] = m
    BY <1>4 DEF Surjection
  <2> QED
    BY <1>1, <2>1
<1>6. s = [k \in 1 .. n |-> CHOOSE i \in P : RankOf(events, now, i) = k - 1]
  BY DEF Ordered, RankOf
<1> HIDE DEF s, f, n, P
<1>7. /\ Len(s) = n /\ DOMAIN s = 1 .. n
      /\ \A k \in 1 .. n : s[k] = CHOOSE i \in P : RankOf(events, now, i) = k - 1
  <2> QED
    BY <1>1, <1>6
<1>8. ASSUME NEW k \in 1 .. n
      PROVE  s[k] \in P /\ RankOf(events, now, s[k]) = k - 1
  <2>1. PICK i \in P : RankOf(events, now, i) = k - 1
    BY <1>5
  <2> QED
    BY <1>7, <2>1, Zenon
<1>9. ASSUME NEW i \in P
      PROVE  i = s[RankOf(events, now, i) + 1]
  <2> DEFINE m == RankOf(events, now, i)
             j == s[m + 1]
  <2>1. m \in 0 .. n - 1
    BY <1>2
  <2> HIDE DEF m
  <2>2. m \in Nat /\ m + 1 \in 1 .. n /\ m + 1 - 1 = m
    BY <1>1, <2>1
  <2>3. j \in P /\ RankOf(events, now, j) = m
    <3>1. j \in P /\ RankOf(events, now, j) = (m + 1) - 1
      BY <1>8, <2>2
    <3> QED
      BY <2>2, <3>1
  <2> HIDE DEF j
  <2>4. i = j
    BY <1>3, <2>3 DEF m
  <2> QED
    BY <2>4 DEF j, m
<1> QED
  BY <1>1, <1>7, <1>8, <1>9 DEF s, n, P

\* What is told is made by a recursive function, of which there is one.
Passing(f, events, s, initial, n) ==
  f = [i \in 0 .. n |-> IF i = 0 THEN [Closed EXCEPT !.state = initial] ELSE After(f[i - 1], s[i], events)]

LEMMA PassingGoesOn ==
  ASSUME NEW events, NEW s, NEW initial, NEW n \in Nat, NEW g, Passing(g, events, s, initial, n)
  PROVE  \E f : Passing(f, events, s, initial, n + 1)
<1> DEFINE Begun == [Closed EXCEPT !.state = initial]
           Last == After(g[n], s[n + 1], events)
           f == [i \in 0 .. n + 1 |-> IF i <= n THEN g[i] ELSE Last]
           Body(i) == IF i = 0 THEN Begun ELSE After(f[i - 1], s[i], events)
<1>1. \A i \in 0 .. n : g[i] = IF i = 0 THEN Begun ELSE After(g[i - 1], s[i], events)
  BY DEF Passing
<1>2. ASSUME NEW i \in 0 .. n + 1 PROVE f[i] = Body(i)
  <2>1. CASE i <= n
    <3>1. i \in 0 .. n /\ f[i] = g[i] /\ (i # 0 => i - 1 \in 0 .. n + 1 /\ i - 1 <= n)
      BY <2>1
    <3>2. i # 0 => f[i - 1] = g[i - 1]
      BY <3>1
    <3> HIDE DEF Begun, Last, f
    <3> QED
      BY <1>1, <3>1, <3>2
  <2>2. CASE ~ (i <= n)
    <3>1. i = n + 1 /\ i # 0 /\ i - 1 = n /\ n \in 0 .. n + 1
      BY <2>2
    <3>2. f[i] = Last /\ f[n] = g[n]
      BY <2>2, <3>1
    <3> HIDE DEF Begun, f
    <3> QED
      BY <3>1, <3>2
  <2> QED
    BY <2>1, <2>2
<1>3. f = [i \in 0 .. n + 1 |-> Body(i)]
  <2> HIDE DEF Body, Last
  <2> QED
    BY <1>2
<1>4. Passing(f, events, s, initial, n + 1)
  <2> HIDE DEF f
  <2> QED
    BY <1>3 DEF Passing
<1> QED
  BY <1>4

LEMMA PassingExists ==
  ASSUME NEW events, NEW s, NEW initial, NEW n \in Nat
  PROVE  \E f : Passing(f, events, s, initial, n)
<1> DEFINE T == {k \in Nat : \E f : Passing(f, events, s, initial, k)}
<1>1. 0 \in T
  <2> DEFINE f == [i \in 0 .. 0 |-> [Closed EXCEPT !.state = initial]]
  <2>1. f = [i \in 0 .. 0 |-> IF i = 0 THEN [Closed EXCEPT !.state = initial] ELSE After(f[i - 1], s[i], events)]
    OBVIOUS
  <2>2. Passing(f, events, s, initial, 0)
    BY <2>1 DEF Passing
  <2> QED
    BY <2>2
<1>2. \A k \in Nat : k \in T => k + 1 \in T
  BY PassingGoesOn
<1>3. Nat \subseteq T
  <2> HIDE DEF T
  <2> QED
    BY <1>1, <1>2, InductionOverNat
<1> QED
  BY <1>3

LEMMA ToldByPassing ==
  ASSUME NEW events, NEW now, NEW initial, Len(Ordered(events, now)) \in Nat
  PROVE  \E f : /\ Passing(f, events, Ordered(events, now), initial, Len(Ordered(events, now)))
                /\ EvaluateCircuitState(events, now, initial)
                     = Verdict(Now(f[Len(Ordered(events, now))], now), now)
<1> DEFINE s == Ordered(events, now)
           f == CHOOSE f : Passing(f, events, s, initial, Len(s))
<1>1. Passing(f, events, s, initial, Len(s))
  <2>1. PICK g : Passing(g, events, s, initial, Len(s))
    BY PassingExists
  <2> QED
    BY <2>1, Zenon
<1>2. EvaluateCircuitState(events, now, initial) = Verdict(Now(f[Len(s)], now), now)
  BY DEF EvaluateCircuitState, Passing
<1> HIDE DEF f
<1> QED
  BY <1>1, <1>2

-----------------------------------------------------------------------------
\* No event that counts follows an event.
Quiet(i, types, events, D) == \A j \in D : Precedes(events, i, j) => events[j].type \notin types

\* A failure no success or reset follows.
Lasting(j, events, now) ==
  events[j].type \in FailureEvents /\ Quiet(j, {"success", "manual_reset"}, events, Past(events, now))

\* Those that are still counted when an event is.
BurstOf(i, events, now) ==
  {j \in DOMAIN events : Lasting(j, events, now) /\ (j = i \/ Precedes(events, j, i))
                           /\ events[i].at - events[j].at <= breaker.window_seconds}

\* An event that shuts the circuit for good.
Firm(i, events, now) ==
  /\ now - events[i].at < breaker.open_duration_seconds
  /\ \/ events[i].type = "unavailable" /\ Quiet(i, {"manual_reset"}, events, Past(events, now))
     \/ events[i].type \in FailureEvents /\ Cardinality(BurstOf(i, events, now)) >= breaker.failure_threshold

\* The time the circuit is open since is that of a cause that still counts.
Caused(opened_at, events, D) ==
  \E i \in D : /\ events[i].type \in FailureEvents \cup {"unavailable"}
               /\ events[i].at = opened_at
               /\ Quiet(i, {"manual_reset"}, events, D)

\* What the events of D have made of a circuit.
SoundOf(state, opened_at, failures, D, events, now, initial) ==
  /\ state \in Refusing /\ initial \notin Refusing => Caused(opened_at, events, D)
  /\ \A i \in D : Firm(i, events, now) => state \in Refusing /\ opened_at >= events[i].at
  /\ \A j \in D : Lasting(j, events, now) =>
       \/ j \in failures
       \/ \E m \in D : events[m].at - events[j].at > breaker.window_seconds

Circuits(events) ==
  [state : BreakerStates, opened_at : Int, half_open_at : Int, failures : SUBSET DOMAIN events]
Sound(b, D, events, now, initial) ==
  b \in Circuits(events) /\ b.failures \subseteq D
    /\ SoundOf(b.state, b.opened_at, b.failures, D, events, now, initial)

\* A burst is not empty, so nothing that ends it follows its last failure.
LEMMA FirmIsQuiet ==
  ASSUME NEW events, IsSupplied(events), Len(events) \in Nat, NEW now \in Nat,
         NEW i \in Past(events, now), Firm(i, events, now)
  PROVE  /\ Quiet(i, {"manual_reset"}, events, Past(events, now))
         /\ events[i].type \in FailureEvents \cup {"unavailable"}
<1>1. CASE events[i].type = "unavailable" /\ Quiet(i, {"manual_reset"}, events, Past(events, now))
  BY <1>1
<1>2. CASE events[i].type \in FailureEvents /\ Cardinality(BurstOf(i, events, now)) >= breaker.failure_threshold
  <2>1. BurstOf(i, events, now) # {}
    <3> SUFFICES ASSUME BurstOf(i, events, now) = {} PROVE FALSE
      OBVIOUS
    <3>1. breaker.failure_threshold \in Nat \ {0}
      BY BreakerAssumption
    <3>2. Cardinality({}) = 0
      BY FS_EmptySet
    <3> QED
      BY <1>2, <3>1, <3>2
  <2>2. PICK j \in DOMAIN events : Lasting(j, events, now) /\ (j = i \/ Precedes(events, j, i))
    BY <2>1 DEF BurstOf
  <2>3. Past(events, now) \subseteq DOMAIN events
    BY DEF Past
  <2>4. ASSUME NEW k \in Past(events, now), Precedes(events, i, k)
        PROVE  events[k].type # "manual_reset"
    <3>1. Precedes(events, j, k)
      BY <2>2, <2>3, <2>4, PrecedesOrders
    <3> QED
      BY <2>2, <3>1 DEF Lasting, Quiet
  <2> QED
    BY <1>2, <2>4 DEF Quiet
<1> QED
  BY <1>1, <1>2 DEF Firm

\* An event keeps a circuit sound.
LEMMA SoundStep ==
  ASSUME NEW events, IsSupplied(events), Len(events) \in Nat, NEW now \in Nat, NEW initial,
         NEW D \in SUBSET Past(events, now), NEW k \in Past(events, now), k \notin D,
         \A j \in D : Precedes(events, j, k),
         \A j \in Past(events, now) : Precedes(events, j, k) => j \in D,
         NEW b, Sound(b, D, events, now, initial)
  PROVE  Sound(After(b, k, events), D \cup {k}, events, now, initial)
<1> DEFINE at == events[k].at
           kind == events[k].type
           recent == {j \in b.failures : at - events[j].at <= breaker.window_seconds}
           d == [b EXCEPT !.failures = recent]
           c == Cooled(d, at)
           E == D \cup {k}
           Old(i) == Firm(i, events, now)
<1>1. /\ \A i \in DOMAIN events : i \in Nat /\ events[i].at \in Nat /\ events[i].type \in EventTypes
      /\ k \in DOMAIN events /\ at \in Nat /\ at <= now /\ kind \in EventTypes
      /\ E \subseteq DOMAIN events /\ IsFiniteSet(E)
      /\ \A i \in E : events[i].at <= at
  <2>1. \A i \in DOMAIN events : i \in Nat /\ events[i].at \in Nat /\ events[i].type \in EventTypes
    BY DEF IsSupplied
  <2>2. Past(events, now) \subseteq DOMAIN events /\ IsFiniteSet(Past(events, now)) /\ at <= now
    BY PastIsFinite DEF Past
  <2>3. E \subseteq Past(events, now)
    OBVIOUS
  <2>4. \A i \in D : events[i].at <= at
    BY <2>2, PrecedesOrders
  <2>5. IsFiniteSet(E)
    BY <2>2, <2>3, FS_Subset
  <2> QED
    BY <2>1, <2>2, <2>3, <2>4, <2>5
<1>2. /\ b \in Circuits(events) /\ b.failures \subseteq D
      /\ SoundOf(b.state, b.opened_at, b.failures, D, events, now, initial)
  BY DEF Sound
<1>3. breaker.open_duration_seconds \in Nat /\ breaker.window_seconds \in Nat /\ breaker.failure_threshold \in Nat
  BY BreakerAssumption
<1>4. /\ c \in Circuits(events) /\ c.failures = recent /\ c.opened_at = b.opened_at
      /\ c.state = b.state \/ (b.state = "open" /\ at - b.opened_at >= breaker.open_duration_seconds /\ c.state = "half_open")
  <2>1. recent \subseteq b.failures /\ b.failures \subseteq DOMAIN events
    BY <1>2 DEF Circuits
  <2> HIDE DEF recent
  <2>2. /\ d \in Circuits(events) /\ d.failures = recent /\ d.opened_at = b.opened_at /\ d.state = b.state
        /\ d.opened_at \in Int
    BY <1>2, <2>1 DEF Circuits
  <2> HIDE DEF d
  <2>3. CASE d.state = "open" /\ d.opened_at >= 0 /\ at - d.opened_at >= breaker.open_duration_seconds
    <3>1. c = [d EXCEPT !.state = "half_open", !.half_open_at = at]
      BY <2>3 DEF Cooled
    <3>2. at \in Int
      BY <1>1
    <3> HIDE DEF c, at
    <3>3. c \in Circuits(events) /\ c.failures = d.failures /\ c.opened_at = d.opened_at /\ c.state = "half_open"
      BY <2>2, <3>1, <3>2 DEF Circuits, BreakerStates
    <3> QED
      BY <2>2, <2>3, <3>3
  <2>4. CASE ~(d.state = "open" /\ d.opened_at >= 0 /\ at - d.opened_at >= breaker.open_duration_seconds)
    <3>1. c = d
      BY <2>4 DEF Cooled
    <3> QED
      BY <2>2, <3>1
  <2> QED
    BY <2>3, <2>4
<1>5. b.opened_at \in Int /\ b.state \in BreakerStates /\ c.state \in BreakerStates
  BY <1>2, <1>4 DEF Circuits
<1>6. recent \subseteq D /\ E \subseteq DOMAIN events
  BY <1>1, <1>2
<1> HIDE DEF recent, c, d
<1>7. ASSUME NEW i \in D, Old(i)
      PROVE  /\ c.state \in Refusing /\ c.state = b.state
             /\ c.opened_at >= events[i].at /\ at >= events[i].at
             /\ kind # "manual_reset"
  <2>1. b.state \in Refusing /\ b.opened_at >= events[i].at
    BY <1>2, <1>7 DEF SoundOf
  <2>2. events[i].at \in Nat /\ events[i].at <= at
    BY <1>1
  <2>3. now - events[i].at < breaker.open_duration_seconds
    BY <1>7 DEF Firm
  <2>4. ~(at - b.opened_at >= breaker.open_duration_seconds)
    BY <1>1, <1>3, <1>5, <2>1, <2>2, <2>3
  <2>5. c.state = b.state
    BY <1>4, <2>4
  <2>6. kind # "manual_reset"
    <3>1. Quiet(i, {"manual_reset"}, events, Past(events, now))
      BY <1>7, FirmIsQuiet
    <3> QED
      BY <3>1 DEF Quiet
  <2> QED
    BY <1>1, <1>4, <2>1, <2>2, <2>5, <2>6
<1>8. ASSUME NEW j \in D, Lasting(j, events, now)
      PROVE  /\ kind \notin {"success", "manual_reset"}
             /\ j \in recent \/ \E m \in E : events[m].at - events[j].at > breaker.window_seconds
  <2>1. kind \notin {"success", "manual_reset"}
    BY <1>8 DEF Lasting, Quiet
  <2>2. j \in b.failures \/ \E m \in D : events[m].at - events[j].at > breaker.window_seconds
    BY <1>2, <1>8 DEF SoundOf
  <2>3. ASSUME j \in b.failures, j \notin recent
        PROVE  events[k].at - events[j].at > breaker.window_seconds
    <3>1. events[j].at \in Nat /\ at \in Nat
      BY <1>1
    <3> QED
      BY <1>3, <2>3, <3>1 DEF recent
  <2> QED
    BY <2>1, <2>2, <2>3
<1>9. ASSUME NEW o, Caused(o, events, D), kind # "manual_reset"
      PROVE  Caused(o, events, E)
  BY <1>9 DEF Caused, Quiet
<1>10. kind \in FailureEvents \cup {"unavailable"} => Caused(at, events, E)
  <2>1. \A j \in E : ~Precedes(events, k, j)
    BY <1>1, PrecedesOrders
  <2> QED
    BY <2>1 DEF Caused, Quiet
<1>11. ASSUME Old(k), kind \in FailureEvents
       PROVE  Cardinality(recent \cup {k}) >= breaker.failure_threshold
  <2>1. Cardinality(BurstOf(k, events, now)) >= breaker.failure_threshold
    BY <1>11 DEF Firm, FailureEvents
  <2>2. BurstOf(k, events, now) \subseteq recent \cup {k}
    <3> SUFFICES ASSUME NEW j \in BurstOf(k, events, now), j # k
                 PROVE  j \in recent
      OBVIOUS
    <3>1. j \in DOMAIN events /\ Lasting(j, events, now) /\ Precedes(events, j, k)
          /\ at - events[j].at <= breaker.window_seconds
      BY DEF BurstOf
    <3>2. events[j].at \in Nat /\ events[j].at <= at
      BY <1>1, <3>1, PrecedesOrders
    <3>3. j \in Past(events, now)
      BY <1>1, <3>1, <3>2 DEF Past
    <3>4. j \in D
      BY <3>1, <3>3
    <3>5. ~\E m \in E : events[m].at - events[j].at > breaker.window_seconds
      BY <1>1, <1>3, <3>1, <3>2
    <3> QED
      BY <1>8, <3>1, <3>4, <3>5
  <2>3. IsFiniteSet(recent \cup {k})
    BY <1>1, <1>6, FS_Subset
  <2>4. Cardinality(BurstOf(k, events, now)) <= Cardinality(recent \cup {k})
        /\ Cardinality(recent \cup {k}) \in Nat /\ Cardinality(BurstOf(k, events, now)) \in Nat
    BY <2>2, <2>3, FS_Subset, FS_CardinalityType
  <2> QED
    BY <1>3, <2>1, <2>4
<1> DEFINE a == After(b, k, events)
<1> SUFFICES Sound(a, E, events, now, initial)
  OBVIOUS
<1> HIDE DEF at, kind, E, Old, a
<1>12. /\ Old(k) => kind \in FailureEvents \cup {"unavailable"}
       /\ Lasting(k, events, now) => kind \in FailureEvents
  BY FirmIsQuiet DEF Old, Lasting, kind
<1>13. ASSUME a \in Circuits(events), a.failures \subseteq E,
              a.state \in Refusing /\ initial \notin Refusing => Caused(a.opened_at, events, E),
              \A i \in D : Old(i) => a.state \in Refusing /\ a.opened_at >= events[i].at,
              Old(k) => a.state \in Refusing /\ a.opened_at = at,
              \A j \in D : Lasting(j, events, now) => recent \subseteq a.failures,
              Lasting(k, events, now) => k \in a.failures
       PROVE  Sound(a, E, events, now, initial)
  <2>1. \A i \in E : i \in D \/ i = k
    BY DEF E
  <2>2. at \in Nat /\ at = events[k].at
    BY <1>1 DEF at
  <2>3. \A i \in E : Old(i) => a.state \in Refusing /\ a.opened_at >= events[i].at
    BY <1>13, <2>1, <2>2
  <2>4. \A j \in E : Lasting(j, events, now) =>
          j \in a.failures \/ \E m \in E : events[m].at - events[j].at > breaker.window_seconds
    BY <1>8, <1>13, <2>1
  <2>5. SoundOf(a.state, a.opened_at, a.failures, E, events, now, initial)
    BY <1>13, <2>3, <2>4 DEF SoundOf, Old
  <2> QED
    BY <1>13, <2>5 DEF Sound
<1>14. b.state \in Refusing /\ initial \notin Refusing => Caused(b.opened_at, events, D)
  BY <1>2 DEF SoundOf
<1>15. k \in E /\ recent \subseteq E /\ E \subseteq DOMAIN events /\ at \in Int
  BY <1>1, <1>6 DEF E
<1>16. a = CASE kind = "manual_reset" -> Closed
             [] kind = "unavailable" -> [c EXCEPT !.state = "unavailable", !.opened_at = at]
             [] kind \in FailureEvents -> Failed(c, k, at)
             [] kind = "success" -> Succeeded(c, at, events)
  BY Zenon DEF After, a, c, d, recent, kind, at
<1>17. /\ kind = "manual_reset" => a = Closed
       /\ kind = "unavailable" => a = [c EXCEPT !.state = "unavailable", !.opened_at = at]
       /\ kind \in FailureEvents => a = Failed(c, k, at)
       /\ kind = "success" => a = Succeeded(c, at, events)
  BY <1>16 DEF FailureEvents
<1>18. CASE kind = "manual_reset"
  <2>1. a \in Circuits(events) /\ a.failures = {} /\ a.state = "closed"
    BY <1>17, <1>18 DEF Closed, Circuits, BreakerStates
  <2> QED
    BY <1>7, <1>8, <1>12, <1>13, <1>18, <2>1 DEF Refusing, FailureEvents
<1>19. CASE kind = "unavailable"
  <2>1. a \in Circuits(events) /\ a.failures = recent /\ a.state = "unavailable" /\ a.opened_at = at
    BY <1>4, <1>15, <1>17, <1>19 DEF Circuits, BreakerStates
  <2> QED
    BY <1>7, <1>10, <1>12, <1>13, <1>15, <1>19, <2>1 DEF Refusing, FailureEvents
<1>20. CASE kind \in FailureEvents
  <2> DEFINE e == [c EXCEPT !.failures = @ \cup {k}]
             count == Cardinality(e.failures)
  <2>1. /\ e \in Circuits(events) /\ e.failures = recent \cup {k} /\ e.opened_at = b.opened_at /\ e.state = c.state
    BY <1>4, <1>15 DEF Circuits
  <2>2. a = CASE e.state = "half_open" \/ count >= breaker.failure_threshold ->
                   [e EXCEPT !.state = "open", !.opened_at = at]
              [] e.state = "closed" /\ count \in breaker.degraded_threshold .. breaker.failure_threshold - 1 ->
                   [e EXCEPT !.state = "degraded"]
              [] OTHER -> e
    BY <1>17, <1>20, Zenon DEF Failed
  <2> HIDE DEF e
  <2>3. CASE e.state = "half_open" \/ count >= breaker.failure_threshold
    <3>1. count \in Nat /\ breaker.degraded_threshold \in Nat /\ breaker.failure_threshold \in Nat
      <4>1. IsFiniteSet(e.failures)
        BY <1>1, <1>15, <2>1, FS_Subset
      <4> QED
        BY <4>1, FS_CardinalityType, BreakerAssumption
    <3> HIDE DEF count
    <3>2. ~(e.state = "closed" /\ count \in breaker.degraded_threshold .. breaker.failure_threshold - 1)
      BY <2>3, <3>1
    <3>3. a = [e EXCEPT !.state = "open", !.opened_at = at]
      BY <2>2, <2>3, <3>2
    <3>4. a \in Circuits(events) /\ a.failures = recent \cup {k} /\ a.state = "open" /\ a.opened_at = at
      BY <1>15, <2>1, <3>3 DEF Circuits, BreakerStates
    <3> QED
      BY <1>7, <1>10, <1>13, <1>15, <1>20, <3>4 DEF Refusing
  <2>4. CASE ~(e.state = "half_open" \/ count >= breaker.failure_threshold)
    <3>1. ~Old(k)
      BY <1>11, <1>20, <2>1, <2>4
    <3>2. CASE e.state = "closed" /\ count \in breaker.degraded_threshold .. breaker.failure_threshold - 1
      <4>1. a = [e EXCEPT !.state = "degraded"]
        BY <2>2, <2>4, <3>2
      <4>2. a \in Circuits(events) /\ a.failures = recent \cup {k} /\ a.state = "degraded"
        BY <2>1, <4>1 DEF Circuits, BreakerStates
      <4>3. \A i \in D : ~Old(i)
        BY <1>7, <2>1, <3>2 DEF Refusing
      <4> QED
        BY <1>13, <1>15, <3>1, <4>2, <4>3 DEF Refusing
    <3>3. CASE ~(e.state = "closed" /\ count \in breaker.degraded_threshold .. breaker.failure_threshold - 1)
      <4>1. a = e
        BY <2>2, <2>4, <3>3
      <4>2. a.state \in Refusing /\ initial \notin Refusing => Caused(a.opened_at, events, E)
        BY <1>4, <1>9, <1>14, <1>20, <2>1, <4>1 DEF Refusing, FailureEvents
      <4>3. \A i \in D : Old(i) => a.state \in Refusing /\ a.opened_at >= events[i].at
        BY <1>4, <1>7, <2>1, <4>1
      <4> QED
        BY <1>13, <1>15, <2>1, <3>1, <4>1, <4>2, <4>3
    <3> QED
      BY <3>2, <3>3
  <2> QED
    BY <2>3, <2>4
<1>21. CASE kind = "success"
  <2>1. ~Old(k) /\ ~Lasting(k, events, now) /\ \A j \in D : ~Lasting(j, events, now)
    BY <1>8, <1>12, <1>21 DEF FailureEvents
  <2>2. \/ a.state \notin Refusing /\ c.state \notin Refusing /\ a \in Circuits(events) /\ a.failures \subseteq E
        \/ a = c
    <3> DEFINE since == IF c.half_open_at < 0 THEN at ELSE c.half_open_at
               successes == {i \in DOMAIN events : events[i].type = "success" /\ events[i].at \in since .. at}
    <3>1. a = CASE c.state = "half_open" /\ Cardinality(successes) >= breaker.half_open_successes_to_close ->
                     [c EXCEPT !.state = "closed", !.opened_at = -1, !.failures = {}]
                [] c.state = "degraded" /\ c.failures = {} -> [c EXCEPT !.state = "closed"]
                [] OTHER -> c
      BY <1>17, <1>21, Zenon DEF Succeeded
    <3> HIDE DEF successes
    <3>2. CASE c.state = "half_open" /\ Cardinality(successes) >= breaker.half_open_successes_to_close
      <4>1. a = [c EXCEPT !.state = "closed", !.opened_at = -1, !.failures = {}]
        BY <3>1, <3>2
      <4>2. -1 \in Int /\ {} \in SUBSET DOMAIN events
        OBVIOUS
      <4>3. a \in Circuits(events) /\ a.state = "closed" /\ a.failures = {}
        BY <1>4, <4>1, <4>2 DEF Circuits, BreakerStates
      <4> QED
        BY <3>2, <4>3 DEF Refusing
    <3>3. CASE ~(c.state = "half_open" /\ Cardinality(successes) >= breaker.half_open_successes_to_close)
      <4>1. CASE c.state = "degraded" /\ c.failures = {}
        <5>1. a = [c EXCEPT !.state = "closed"]
          BY <3>1, <3>3, <4>1
        <5> QED
          BY <1>4, <1>15, <4>1, <5>1 DEF Circuits, BreakerStates, Refusing
      <4>2. CASE ~(c.state = "degraded" /\ c.failures = {})
        BY <3>1, <3>3, <4>2
      <4> QED
        BY <4>1, <4>2
    <3> QED
      BY <3>2, <3>3
  <2>3. CASE a = c
    <3>1. a.state \in Refusing /\ initial \notin Refusing => Caused(a.opened_at, events, E)
      BY <1>4, <1>9, <1>14, <1>21, <2>3 DEF Refusing
    <3> QED
      BY <1>4, <1>7, <1>13, <1>15, <2>1, <2>3, <3>1
  <2>4. CASE a.state \notin Refusing /\ c.state \notin Refusing /\ a \in Circuits(events) /\ a.failures \subseteq E
    BY <1>7, <1>13, <2>1, <2>4
  <2> QED
    BY <2>2, <2>3, <2>4
<1>22. kind \in {"manual_reset", "unavailable", "success"} \cup FailureEvents
  BY <1>1 DEF EventTypes, kind
<1> QED
  BY <1>18, <1>19, <1>20, <1>21, <1>22

\* So does the whole past.
LEMMA SoundAfterAll ==
  ASSUME NEW events, IsSupplied(events), Len(events) \in Nat, NEW now \in Nat, NEW initial \in BreakerStates,
         NEW f, Passing(f, events, Ordered(events, now), initial, Len(Ordered(events, now)))
  PROVE  Sound(f[Len(Ordered(events, now))], Past(events, now), events, now, initial)
<1> DEFINE P == Past(events, now)
           s == Ordered(events, now)
           m == Len(s)
           D(n) == {i \in P : RankOf(events, now, i) < n}
           T == {n \in Nat : n <= m => Sound(f[n], D(n), events, now, initial)}
<1>1. /\ m \in Nat /\ m = Cardinality(P)
      /\ \A k \in 1 .. m : s[k] \in P /\ RankOf(events, now, s[k]) = k - 1
      /\ \A i \in P : i = s[RankOf(events, now, i) + 1]
  BY OrderedIs
<1>2. P \subseteq DOMAIN events /\ \A i \in P : RankOf(events, now, i) \in Nat /\ RankOf(events, now, i) < m
  <2>1. \A i \in P : RankOf(events, now, i) \in 0 .. m - 1
    BY <1>1, RankOfGrows
  <2> QED
    BY <1>1, <2>1, PastIsFinite
<1>3. \A n \in 0 .. m : f[n] = IF n = 0 THEN [Closed EXCEPT !.state = initial] ELSE After(f[n - 1], s[n], events)
  BY DEF Passing
<1>4. 0 \in T
  <2>1. D(0) = {}
    BY <1>2
  <2>2. f[0] = [Closed EXCEPT !.state = initial]
    BY <1>1, <1>3
  <2>3. f[0] \in Circuits(events) /\ f[0].failures = {} /\ f[0].state = initial
    BY <2>2 DEF Closed, Circuits, BreakerStates
  <2>4. SoundOf(f[0].state, f[0].opened_at, f[0].failures, {}, events, now, initial)
    BY <2>3 DEF SoundOf
  <2> QED
    BY <2>1, <2>3, <2>4 DEF Sound
<1>5. ASSUME NEW n \in Nat, n \in T
      PROVE  n + 1 \in T
  <2> SUFFICES ASSUME n + 1 <= m
               PROVE  Sound(f[n + 1], D(n + 1), events, now, initial)
    BY <1>5
  <2> DEFINE k == s[n + 1]
  <2>1. k \in P /\ RankOf(events, now, k) = n
    <3>1. n + 1 \in 1 .. m /\ (n + 1) - 1 = n
      BY <1>1
    <3> QED
      BY <1>1, <3>1
  <2>2. Sound(f[n], D(n), events, now, initial)
    BY <1>1, <1>5
  <2>3. k \notin D(n)
    BY <2>1
  <2>4. \A j \in D(n) : Precedes(events, j, k)
    <3> SUFFICES ASSUME NEW j \in D(n), ~Precedes(events, j, k) PROVE FALSE
      OBVIOUS
    <3>1. j # k /\ j \in P /\ RankOf(events, now, j) < n
      BY <2>3
    <3>2. Precedes(events, k, j)
      BY <1>2, <2>1, <3>1, PrecedesOrders
    <3>3. RankOf(events, now, k) < RankOf(events, now, j)
      BY <2>1, <3>1, <3>2, RankOfGrows
    <3> QED
      BY <1>2, <2>1, <3>1, <3>3
  <2>5. \A j \in P : Precedes(events, j, k) => j \in D(n)
    BY <2>1, RankOfGrows
  <2>6. D(n + 1) = D(n) \cup {k}
    <3>1. ASSUME NEW j \in P, RankOf(events, now, j) = n
          PROVE  j = k
      BY <1>1, <3>1
    <3>2. \A j \in P : RankOf(events, now, j) < n + 1 <=> RankOf(events, now, j) < n \/ RankOf(events, now, j) = n
      BY <1>2
    <3> QED
      BY <2>1, <3>1, <3>2
  <2>7. f[n + 1] = After(f[n], k, events)
    <3>1. n + 1 \in 0 .. m /\ n + 1 # 0 /\ (n + 1) - 1 = n
      BY <1>1
    <3> QED
      BY <1>3, <3>1
  <2>8. D(n) \in SUBSET P
    OBVIOUS
  <2> HIDE DEF k, D, P
  <2>9. Sound(After(f[n], k, events), D(n) \cup {k}, events, now, initial)
    BY <2>1, <2>2, <2>3, <2>4, <2>5, <2>8, SoundStep DEF P
  <2> QED
    BY <2>6, <2>7, <2>9
<1>6. m \in T
  <2> HIDE DEF T
  <2>1. Nat \subseteq T
    BY <1>4, <1>5, InductionOverNat
  <2> QED
    BY <1>1, <2>1
<1>7. D(m) = P
  BY <1>2
<1>8. Sound(f[m], D(m), events, now, initial)
  <2> HIDE DEF D
  <2> QED
    BY <1>1, <1>6
<1> HIDE DEF D
<1> QED
  BY <1>7, <1>8

LEMMA QuestionIsSupplied ==
  BreakerInv => /\ IsSupplied(question.events) /\ Len(question.events) \in Nat
                /\ question.now \in Nat /\ question.initial \in BreakerStates
<1> SUFFICES ASSUME BreakerInv
             PROVE  /\ IsSupplied(question.events) /\ Len(question.events) \in Nat
                    /\ question.now \in Nat /\ question.initial \in BreakerStates
  OBVIOUS
<1> DEFINE e == question.events
           Kinds == [type : EventTypes, at : Nat]
<1>1. e \in Histories /\ question.now \in Instants /\ question.initial \in FirstStates
  BY DEF BreakerInv
<1>2. question.now \in Nat /\ question.initial \in BreakerStates /\ e \in Seq(Kinds)
  BY <1>1, SuppliedAssumption DEF BreakerStates
<1>3. \A x \in Kinds : x.type \in EventTypes /\ x.at \in Nat
  OBVIOUS
<1> HIDE DEF e, Kinds
<1>4. Len(e) \in Nat /\ DOMAIN e = 1 .. Len(e) /\ \A i \in 1 .. Len(e) : e[i] \in Kinds
  BY <1>2
<1> QED
  BY <1>2, <1>3, <1>4 DEF IsSupplied, e

\* What the property says of later events.
LEMMA NoneLaterIsQuiet ==
  ASSUME BreakerInv, NEW i \in DOMAIN question.events, NEW types
  PROVE  NoneLater(i, types) <=> Quiet(i, types, question.events, Past(question.events, question.now))
<1> DEFINE e == question.events
<1>1. \A j \in DOMAIN e : j \in Nat /\ e[j].at \in Nat
  BY QuestionIsSupplied DEF IsSupplied
<1>2. \A j \in DOMAIN e : IsLater(i, j) <=> Precedes(e, i, j)
  BY <1>1 DEF IsLater, Precedes
<1> QED
  BY <1>2 DEF NoneLater, Quiet, Past

LEMMA BreakerHasCause == BreakerInv => RefusesForCause
<1> SUFFICES ASSUME BreakerInv, told # NoTale PROVE RefusesForCause
  BY DEF RefusesForCause
<1> DEFINE e == question.events
           now == question.now
           initial == question.initial
           P == Past(e, now)
<1>1. /\ IsSupplied(e) /\ Len(e) \in Nat /\ now \in Nat /\ initial \in BreakerStates
  BY QuestionIsSupplied
<1>2. PICK f : /\ Passing(f, e, Ordered(e, now), initial, Len(Ordered(e, now)))
               /\ told = Verdict(Now(f[Len(Ordered(e, now))], now), now)
  <2>1. Len(Ordered(e, now)) \in Nat
    BY <1>1, OrderedIs
  <2>2. told = EvaluateCircuitState(e, now, initial)
    BY DEF BreakerInv
  <2> QED
    BY <2>1, <2>2, ToldByPassing
<1> DEFINE b == f[Len(Ordered(e, now))]
           v == Now(b, now)
<1>3. Sound(b, P, e, now, initial)
  BY <1>1, <1>2, SoundAfterAll
<1>4. breaker.open_duration_seconds \in Nat \ {0}
  BY BreakerAssumption
<1> HIDE DEF b
<1>5. b \in Circuits(e) /\ b.state \in BreakerStates /\ b.opened_at \in Int
      /\ SoundOf(b.state, b.opened_at, b.failures, P, e, now, initial)
  BY <1>3 DEF Sound, Circuits
<1>6. /\ v.state = IF b.state \in Refusing /\ b.opened_at >= 0 /\ now - b.opened_at >= breaker.open_duration_seconds
                   THEN "half_open" ELSE b.state
  BY <1>5 DEF Now, Refusing, Circuits
<1>7. told.state = v.state /\ (told.allow <=> v.state \notin Refusing)
  BY <1>2 DEF Verdict, Refusing, b
<1>8. \A i \in DOMAIN e : e[i].at \in Nat /\ i \in Nat
  BY <1>1 DEF IsSupplied
<1> HIDE DEF v
<1>9. ASSUME NEW i \in DOMAIN e, InCooldown(e[i].at), Firm(i, e, now)
      PROVE  ~told.allow
  <2>1. i \in P
    BY <1>1, <1>4, <1>8, <1>9 DEF InCooldown, Past
  <2>2. b.state \in Refusing /\ b.opened_at >= e[i].at
    BY <1>5, <1>9, <2>1 DEF SoundOf
  <2>3. now - e[i].at < breaker.open_duration_seconds
    BY <1>9 DEF Firm
  <2>4. ~(now - b.opened_at >= breaker.open_duration_seconds)
    BY <1>1, <1>4, <1>5, <1>8, <2>2, <2>3
  <2> QED
    BY <1>6, <1>7, <2>2, <2>4
<1>10. ASSUME NEW i \in DOMAIN e, InCooldown(e[i].at)
       PROVE  now - e[i].at < breaker.open_duration_seconds
  BY <1>1, <1>4, <1>8, <1>10 DEF InCooldown
<1>11. ASSUME NEW i \in DOMAIN e
       PROVE  BurstOf(i, e, now) =
                {j \in DOMAIN e : e[j].type \in FailureEvents /\ (j = i \/ IsLater(j, i))
                                    /\ e[i].at - e[j].at <= breaker.window_seconds
                                    /\ NoneLater(j, {"success", "manual_reset"})}
  <2>1. \A j \in DOMAIN e : Precedes(e, j, i) <=> IsLater(j, i)
    BY <1>8 DEF Precedes, IsLater
  <2>2. \A j \in DOMAIN e : Lasting(j, e, now) <=>
          e[j].type \in FailureEvents /\ NoneLater(j, {"success", "manual_reset"})
    BY NoneLaterIsQuiet DEF Lasting
  <2> QED
    BY <2>1, <2>2 DEF BurstOf
<1>12. ASSUME NEW i \in DOMAIN e, e[i].type = "unavailable", InCooldown(e[i].at), NoneLater(i, {"manual_reset"})
       PROVE  ~told.allow
  <2>1. Firm(i, e, now)
    BY <1>10, <1>12, NoneLaterIsQuiet DEF Firm
  <2> QED
    BY <1>9, <1>12, <2>1
<1>13. ASSUME NEW i \in DOMAIN e, e[i].type \in FailureEvents, InCooldown(e[i].at),
              Cardinality(BurstOf(i, e, now)) >= breaker.failure_threshold
       PROVE  ~told.allow
  <2>1. Firm(i, e, now)
    BY <1>10, <1>13 DEF Firm
  <2> QED
    BY <1>9, <1>13, <2>1
<1>14. ASSUME ~told.allow, initial \notin {"open", "unavailable"}
       PROVE  \E i \in DOMAIN e : e[i].type \in FailureEvents \cup {"unavailable"} /\ InCooldown(e[i].at)
                                    /\ NoneLater(i, {"manual_reset"})
  <2>1. b.state \in Refusing /\ ~(b.opened_at >= 0 /\ now - b.opened_at >= breaker.open_duration_seconds)
    BY <1>6, <1>7, <1>14 DEF Refusing
  <2>2. PICK i \in P : /\ e[i].type \in FailureEvents \cup {"unavailable"} /\ e[i].at = b.opened_at
                       /\ Quiet(i, {"manual_reset"}, e, P)
    BY <1>5, <1>14, <2>1 DEF SoundOf, Caused, Refusing
  <2>3. i \in DOMAIN e /\ e[i].at <= now
    BY DEF Past
  <2>4. InCooldown(e[i].at)
    BY <1>1, <1>4, <1>8, <2>1, <2>2, <2>3 DEF InCooldown
  <2>5. NoneLater(i, {"manual_reset"})
    BY <2>2, <2>3, NoneLaterIsQuiet
  <2> QED
    BY <2>2, <2>3, <2>4, <2>5
<1>15. ASSUME planned.should_persist
       PROVE  told.state = "closed"
  <2>1. planned = PlanTierRoute(question.score, told.state)
    BY <1>15 DEF BreakerInv, NoPlan
  <2> DEFINE caps == Caps(question.score, told.state)
  <2>2. {h \in DOMAIN caps : caps[h].holds} = {}
    BY <1>15, <2>1 DEF PlanTierRoute
  <2>3. told.state \notin {"open", "unavailable"} /\ told.state \notin {"degraded", "half_open"}
    <3>1. "not_closed" \in DOMAIN caps /\ "degraded" \in DOMAIN caps
      BY DEF Caps
    <3>2. /\ caps["not_closed"].holds <=> told.state \in {"open", "unavailable"}
          /\ caps["degraded"].holds <=> told.state \in {"degraded", "half_open"}
      BY DEF Caps
    <3> HIDE DEF caps
    <3> QED
      BY <2>2, <3>1, <3>2
  <2>4. told.state \in BreakerStates
    BY <1>5, <1>6, <1>7 DEF BreakerStates
  <2> QED
    BY <2>3, <2>4 DEF BreakerStates
<1> QED
  BY <1>11, <1>12, <1>13, <1>14, <1>15 DEF RefusesForCause

\* A provider told to have failed too often, or to be unavailable, is left alone for the cooldown, and
\* none for another reason (evaluate_circuit_state); nothing is planned to persist meanwhile
\* (plan_tier_route).
THEOREM CircuitRefusesForCause == BreakerSpec => []RefusesForCause
BY BreakerInvariance, BreakerHasCause, PTL

-----------------------------------------------------------------------------
(* Sets put in order.                                                      *)

\* A strict order of S in which any two are comparable.
Ordering(R, S) ==
  /\ \A x \in S : <<x, x>> \notin R
  /\ \A x, y, z \in S : <<x, y>> \in R /\ <<y, z>> \in R => <<x, z>> \in R
  /\ \A x, y \in S : x # y => <<x, y>> \in R \/ <<y, x>> \in R
PlaceBy(R, S) == [x \in S |-> Cardinality({y \in S : <<y, x>> \in R})]

LEMMA PlaceGrows ==
  ASSUME NEW S, IsFiniteSet(S), NEW R, Ordering(R, S), NEW x \in S, NEW y \in S
  PROVE  /\ PlaceBy(R, S)[x] \in 0 .. Cardinality(S) - 1
         /\ <<x, y>> \in R => PlaceBy(R, S)[x] < PlaceBy(R, S)[y]
<1> DEFINE B(z) == {v \in S : <<v, z>> \in R}
           p == PlaceBy(R, S)
<1>1. Cardinality(S) \in Nat
  BY FS_CardinalityType
<1>2. ASSUME NEW z \in S
      PROVE  /\ IsFiniteSet(B(z)) /\ Cardinality(B(z)) \in Nat
             /\ Cardinality(B(z) \cup {z}) = Cardinality(B(z)) + 1
             /\ B(z) \cup {z} \subseteq S /\ Cardinality(B(z)) = p[z]
  <2>1. IsFiniteSet(B(z))
    BY FS_Subset
  <2>2. z \notin B(z)
    BY <1>2 DEF Ordering
  <2> QED
    BY <2>1, <2>2, FS_AddElement, FS_CardinalityType DEF PlaceBy
<1>3. Cardinality(B(x) \cup {x}) <= Cardinality(S)
  BY <1>2, FS_Subset
<1>4. ASSUME <<x, y>> \in R
      PROVE  Cardinality(B(x) \cup {x}) <= Cardinality(B(y))
  <2>1. B(x) \cup {x} \subseteq B(y)
    BY <1>4 DEF Ordering
  <2> QED
    BY <1>2, <2>1, FS_Subset
<1>5. p[x] \in Nat /\ p[y] \in Nat
  BY <1>2
<1>6. p[x] + 1 <= Cardinality(S)
  BY <1>2, <1>3
<1>7. <<x, y>> \in R => p[x] + 1 <= p[y]
  BY <1>2, <1>4
<1> HIDE DEF p
<1> QED
  BY <1>1, <1>5, <1>6, <1>7 DEF p

\* Every place is taken by one, and the first n are all there are if there are no more.
LEMMA ArrangedIs ==
  ASSUME NEW S, IsFiniteSet(S), NEW R, Ordering(R, S), NEW n \in Nat,
         NEW place, place = PlaceBy(R, S)
  PROVE  /\ Arranged(S, place, n) \in Seq(S) /\ Cardinality(S) \in Nat
         /\ Len(Arranged(S, place, n)) = Lesser(n, Cardinality(S))
         /\ Cardinality(S) <= n => Elements(Arranged(S, place, n)) = S
<1> DEFINE m == Cardinality(S)
           l == Lesser(n, m)
           s == Arranged(S, place, n)
<1>1. m \in Nat /\ l \in Nat /\ l <= m /\ (m <= n => l = m)
  BY FS_CardinalityType DEF Lesser
<1>2. \A x \in S : place[x] \in 0 .. m - 1
  BY PlaceGrows
<1>3. \A x, y \in S : place[x] = place[y] => x = y
  <2> SUFFICES ASSUME NEW x \in S, NEW y \in S, place[x] = place[y], x # y
               PROVE  FALSE
    OBVIOUS
  <2>1. <<x, y>> \in R \/ <<y, x>> \in R
    BY DEF Ordering
  <2>2. place[x] < place[y] \/ place[y] < place[x]
    BY <2>1, PlaceGrows
  <2> QED
    BY <1>1, <1>2, <2>2
<1>4. place \in Surjection(S, 0 .. m - 1)
  <2>1. place \in Injection(S, 0 .. m - 1)
    <3>1. place \in [S -> 0 .. m - 1]
      BY <1>2 DEF PlaceBy
    <3> QED
      BY <1>3, <3>1 DEF Injection, IsInjective
  <2>2. IsFiniteSet(0 .. m - 1) /\ Cardinality(0 .. m - 1) = m
    <3>1. m \in Nat /\ 0 \in Int /\ m - 1 \in Int
      BY <1>1
    <3> HIDE DEF m
    <3>2. IsFiniteSet(0 .. m - 1) /\ Cardinality(0 .. m - 1) = IF 0 > m - 1 THEN 0 ELSE m - 1 - 0 + 1
      BY <3>1, FS_Interval
    <3> QED
      BY <3>1, <3>2
  <2>3. Cardinality(S) = Cardinality(0 .. m - 1) <=> place \in Surjection(S, 0 .. m - 1)
    BY <2>1, <2>2, FS_Injection
  <2> QED
    BY <2>2, <2>3
<1>5. \A k \in 0 .. m - 1 : \E x \in S : place[x] = k
  BY <1>4 DEF Surjection
<1>6. DOMAIN s = 1 .. l /\ \A k \in 1 .. l : s[k] \in S /\ place[s[k]] = k - 1
  <2>1. s = [k \in 1 .. l |-> CHOOSE x \in S : place[x] = k - 1]
    BY DEF Arranged
  <2>2. ASSUME NEW k \in 1 .. l
        PROVE  \E x \in S : place[x] = k - 1
    <3>1. k - 1 \in 0 .. m - 1
      BY <1>1
    <3> QED
      BY <1>5, <3>1
  <2> HIDE DEF s
  <2> QED
    BY <2>1, <2>2
<1> HIDE DEF s, l, m
<1>7. s \in Seq(S) /\ Len(s) = l
  <2>1. s \in [1 .. l -> S]
    <3>1. s = [k \in 1 .. l |-> s[k]]
      BY <1>6 DEF s, Arranged, l, m
    <3> QED
      BY <1>6, <3>1
  <2> QED
    BY <1>1, <2>1
<1>8. ASSUME m <= n, NEW x \in S
      PROVE  x \in Elements(s)
  <2>1. place[x] + 1 \in 1 .. l /\ (place[x] + 1) - 1 = place[x]
    BY <1>1, <1>2, <1>8
  <2>2. s[place[x] + 1] = x
    BY <1>3, <1>6, <2>1
  <2> QED
    BY <1>6, <2>1, <2>2 DEF Elements
<1>9. Elements(s) \subseteq S
  BY <1>6 DEF Elements
<1> QED
  BY <1>1, <1>7, <1>8, <1>9 DEF s, l, m

\* Some positions of a sequence.
LEMMA AtPositionsIs ==
  ASSUME NEW T, NEW s \in Seq(T), NEW I \in SUBSET DOMAIN s
  PROVE  /\ AtPositions(s, I) \in Seq(T)
         /\ Elements(AtPositions(s, I)) = {s[i] : i \in I}
<1> DEFINE R == {p \in I \X I : p[1] < p[2]}
           place == [i \in I |-> Cardinality({j \in I : j < i})]
           sorted == Arranged(I, place, Cardinality(I))
<1>1. I \subseteq Nat /\ IsFiniteSet(I)
  <2>1. DOMAIN s = 1 .. Len(s) /\ Len(s) \in Nat
    OBVIOUS
  <2>2. IsFiniteSet(1 .. Len(s))
    BY <2>1, FS_Interval
  <2> QED
    BY <2>1, <2>2, FS_Subset
<1>2. \A i, j \in I : <<i, j>> \in R <=> i < j
  OBVIOUS
<1> HIDE DEF R
<1>3. Ordering(R, I)
  BY <1>1, <1>2 DEF Ordering
<1>4. place = PlaceBy(R, I)
  <2>1. \A i \in I : {j \in I : j < i} = {j \in I : <<j, i>> \in R}
    BY <1>2
  <2> QED
    BY <2>1 DEF PlaceBy
<1>5. Cardinality(I) \in Nat /\ Cardinality(I) <= Cardinality(I)
  BY <1>1, FS_CardinalityType
<1> HIDE DEF place
<1>6. sorted \in Seq(I) /\ Elements(sorted) = I
  BY <1>1, <1>3, <1>4, <1>5, ArrangedIs
<1>7. AtPositions(s, I) = [k \in DOMAIN sorted |-> s[sorted[k]]]
  BY DEF AtPositions, place
<1> HIDE DEF sorted
<1>8. \A i \in I : s[i] \in T
  OBVIOUS
<1>9. AtPositions(s, I) \in Seq(T)
  BY <1>6, <1>7, <1>8
<1>10. Elements(AtPositions(s, I)) = {s[i] : i \in I}
  BY <1>6, <1>7 DEF Elements
<1> QED
  BY <1>9, <1>10

LEMMA JoinedIs ==
  ASSUME NEW T, NEW a \in Seq(T), NEW b \in Seq(T)
  PROVE  a \o b \in Seq(T) /\ Elements(a \o b) = Elements(a) \cup Elements(b)
<1>1. Len(a) \in Nat /\ Len(b) \in Nat /\ DOMAIN a = 1 .. Len(a) /\ DOMAIN b = 1 .. Len(b)
  OBVIOUS
<1>2. /\ DOMAIN (a \o b) = 1 .. Len(a) + Len(b)
      /\ \A i \in 1 .. Len(a) + Len(b) : (a \o b)[i] = IF i <= Len(a) THEN a[i] ELSE b[i - Len(a)]
  OBVIOUS
<1>3. Elements(a \o b) \subseteq Elements(a) \cup Elements(b)
  <2> SUFFICES ASSUME NEW i \in 1 .. Len(a) + Len(b)
               PROVE  (a \o b)[i] \in Elements(a) \cup Elements(b)
    BY <1>2 DEF Elements
  <2>1. CASE i <= Len(a)
    BY <1>1, <1>2, <2>1 DEF Elements
  <2>2. CASE ~ (i <= Len(a))
    <3>1. i - Len(a) \in 1 .. Len(b)
      BY <1>1, <2>2
    <3> QED
      BY <1>1, <1>2, <2>2, <3>1 DEF Elements
  <2> QED
    BY <2>1, <2>2
<1>4. Elements(a) \subseteq Elements(a \o b)
  BY <1>1, <1>2 DEF Elements
<1>5. ASSUME NEW i \in 1 .. Len(b)
      PROVE  b[i] \in Elements(a \o b)
  <2>1. Len(a) + i \in 1 .. Len(a) + Len(b) /\ ~ (Len(a) + i <= Len(a)) /\ (Len(a) + i) - Len(a) = i
    BY <1>1
  <2>2. (a \o b)[Len(a) + i] = b[i]
    BY <1>2, <2>1
  <2> QED
    BY <1>2, <2>1, <2>2 DEF Elements
<1>6. Elements(b) \subseteq Elements(a \o b)
  BY <1>1, <1>5 DEF Elements
<1> QED
  BY <1>3, <1>4, <1>6

-----------------------------------------------------------------------------
(* What becomes of rows: the items they stand for, and the texts by which. *)

Paths == {"lexical", "nearest", "hub", "rescue"}
SearchRow ==
  [item : Entries, chunk : Nat, path : Paths, score : Int, words : SUBSET DOMAIN Letters, distance : Int,
   graph : SUBSET DOMAIN Letters, hub : (SUBSET DOMAIN Letters) \cup {None}, queries : Int, rescued : BOOLEAN]

ItemsOf(rows) == {r.item : r \in Elements(rows)}
Shown(rows) == {<<r.item, r.words>> : r \in Elements(rows)}

LEMMA ShownItems ==
  ASSUME NEW a, NEW b, Shown(a) \subseteq Shown(b)
  PROVE  ItemsOf(a) \subseteq ItemsOf(b)
<1>1. \A r \in Elements(a) : \E t \in Elements(b) : <<r.item, r.words>> = <<t.item, t.words>>
  BY DEF Shown
<1>2. \A r \in Elements(a) : \E t \in Elements(b) : r.item = t.item
  BY <1>1
<1> QED
  BY <1>2 DEF ItemsOf

\* The marks a row gets do not change what it shows.
LEMMA Retouched ==
  ASSUME NEW rows \in Seq(SearchRow), NEW f, f = [i \in DOMAIN rows |-> f[i]],
         \A i \in DOMAIN rows : f[i] \in SearchRow /\ f[i].item = rows[i].item /\ f[i].words = rows[i].words
  PROVE  f \in Seq(SearchRow) /\ Shown(f) = Shown(rows)
<1>1. DOMAIN f = DOMAIN rows /\ f \in Seq(SearchRow)
  OBVIOUS
<1>2. Shown(f) = {<<f[i].item, f[i].words>> : i \in DOMAIN f}
  BY DEF Shown, Elements
<1>3. Shown(rows) = {<<rows[i].item, rows[i].words>> : i \in DOMAIN rows}
  BY DEF Shown, Elements
<1> QED
  BY <1>1, <1>2, <1>3

Again(r, graph, queries) == [r EXCEPT !.graph = graph, !.queries = queries]
Spoken(r, graph) == [r EXCEPT !.graph = graph]
Brought(r, graph, rescued, path) == [r EXCEPT !.graph = graph, !.rescued = rescued, !.path = path]

LEMMA RowFields ==
  ASSUME NEW r \in SearchRow
  PROVE  /\ r.item \in Entries /\ r.path \in Paths /\ r.score \in Int /\ r.distance \in Int
         /\ r.words \subseteq DOMAIN Letters /\ r.graph \subseteq DOMAIN Letters /\ r.queries \in Int
         /\ "rescue" \in Paths
BY DEF SearchRow, Paths

LEMMA MarkedRow ==
  ASSUME NEW r \in SearchRow, NEW graph \in SUBSET DOMAIN Letters
  PROVE  /\ Spoken(r, graph) \in SearchRow
         /\ Spoken(r, graph).item = r.item /\ Spoken(r, graph).words = r.words
         /\ \A n \in Int : /\ Again(r, graph, n) \in SearchRow
                          /\ Again(r, graph, n).item = r.item /\ Again(r, graph, n).words = r.words
         /\ \A b \in BOOLEAN, path \in Paths :
              /\ Brought(r, graph, b, path) \in SearchRow
              /\ Brought(r, graph, b, path).item = r.item /\ Brought(r, graph, b, path).words = r.words
BY DEF SearchRow, Again, Spoken, Brought

\* Rows that are there get marks, and some of those found come after them.
LEMMA TakenIn ==
  ASSUME NEW rows \in Seq(SearchRow), NEW found \in Seq(SearchRow), NEW I \in SUBSET DOMAIN found,
         NEW known, Shown(known) = Shown(rows), known \in Seq(SearchRow),
         NEW more, Shown(more) = Shown(AtPositions(found, I)), more \in Seq(SearchRow)
  PROVE  /\ known \o more \in Seq(SearchRow)
         /\ Shown(rows) \subseteq Shown(known \o more)
         /\ Shown(known \o more) \subseteq Shown(rows) \cup Shown(found)
         /\ \A i \in I : found[i].item \in ItemsOf(known \o more)
<1>1. known \o more \in Seq(SearchRow) /\ Elements(known \o more) = Elements(known) \cup Elements(more)
  BY JoinedIs
<1>2. Shown(known \o more) = Shown(known) \cup Shown(more)
  BY <1>1 DEF Shown
<1>3. Shown(more) = {<<found[i].item, found[i].words>> : i \in I}
  <2>1. Elements(AtPositions(found, I)) = {found[i] : i \in I}
    BY AtPositionsIs
  <2> QED
    BY <2>1 DEF Shown
<1>4. Shown(more) \subseteq Shown(found)
  BY <1>3 DEF Shown, Elements
<1>5. ASSUME NEW i \in I
      PROVE  \E p \in Shown(known \o more) : p[1] = found[i].item
  <2>1. <<found[i].item, found[i].words>> \in Shown(known \o more)
    BY <1>2, <1>3
  <2> QED
    BY <2>1
<1>6. \A p \in Shown(known \o more) : p[1] \in ItemsOf(known \o more)
  BY DEF Shown, ItemsOf
<1> QED
  BY <1>1, <1>2, <1>4, <1>5, <1>6

LEMMA AddResultsIs ==
  ASSUME NEW rows \in Seq(SearchRow), NEW found \in Seq(SearchRow), NEW terms, NEW rescued \in BOOLEAN
  PROVE  LET all == AddResults(rows, found, terms, rescued)
         IN  /\ all \in Seq(SearchRow)
             /\ Shown(rows) \subseteq Shown(all) /\ Shown(all) \subseteq Shown(rows) \cup Shown(found)
             /\ ItemsOf(found) \subseteq ItemsOf(all)
<1> DEFINE Found(r) == {j \in DOMAIN found : SameChunk(found[j], r)}
           Graph(i) == rows[i].graph \cup UNION {terms \cap found[j].words : j \in Found(rows[i])}
           Queries(i) == rows[i].queries + Cardinality(Found(rows[i]))
           known == [i \in DOMAIN rows |-> [rows[i] EXCEPT !.graph = Graph(i), !.queries = Queries(i)]]
           I == {j \in DOMAIN found : ~Known(rows, found[j])}
           new == AtPositions(found, I)
           path(k) == IF rescued THEN "rescue" ELSE new[k].path
           more == [k \in DOMAIN new |->
                      [new[k] EXCEPT !.graph = terms \cap new[k].words, !.rescued = rescued, !.path = path(k)]]
           all == known \o more
<1>1. AddResults(rows, found, terms, rescued) = all
  BY DEF AddResults
<1>2. /\ DOMAIN found = 1 .. Len(found) /\ Len(found) \in Nat /\ IsFiniteSet(DOMAIN found)
      /\ \A j \in DOMAIN found : found[j] \in SearchRow
      /\ \A i \in DOMAIN rows : rows[i] \in SearchRow
  <2>1. DOMAIN found = 1 .. Len(found) /\ Len(found) \in Nat
    OBVIOUS
  <2>2. IsFiniteSet(1 .. Len(found))
    BY <2>1, FS_Interval
  <2> QED
    BY <2>1, <2>2
<1>3. ASSUME NEW i \in DOMAIN rows
      PROVE  Graph(i) \in SUBSET DOMAIN Letters /\ Queries(i) \in Int
  <2>1. \A j \in DOMAIN found : found[j].words \subseteq DOMAIN Letters
    BY <1>2, RowFields
  <2>2. rows[i].graph \subseteq DOMAIN Letters /\ rows[i].queries \in Int
    BY <1>2, RowFields
  <2>3. IsFiniteSet(Found(rows[i]))
    BY <1>2, FS_Subset
  <2>4. Cardinality(Found(rows[i])) \in Nat
    BY <2>3, FS_CardinalityType
  <2> QED
    BY <2>1, <2>2, <2>4
<1> HIDE DEF Graph, Queries
<1>4. known \in Seq(SearchRow) /\ Shown(known) = Shown(rows)
  <2>1. ASSUME NEW i \in DOMAIN rows
        PROVE  /\ known[i] \in SearchRow
               /\ known[i].item = rows[i].item /\ known[i].words = rows[i].words
    <3> DEFINE r == rows[i]
               graph == Graph(i)
               n == Queries(i)
               s == known[i]
    <3>1. r \in SearchRow /\ graph \in SUBSET DOMAIN Letters /\ n \in Int
      BY <1>2, <1>3
    <3>2. s = Again(r, graph, n)
      BY DEF Again
    <3> HIDE DEF r, graph, n, s
    <3>3. s \in SearchRow /\ s.item = r.item /\ s.words = r.words
      BY <3>1, <3>2, MarkedRow
    <3> QED
      BY <3>3 DEF s, r
  <2>2. known = [i \in DOMAIN rows |-> known[i]]
    OBVIOUS
  <2> HIDE DEF known
  <2> QED
    BY <2>1, <2>2, Retouched
<1>5. new \in Seq(SearchRow) /\ I \in SUBSET DOMAIN found
  BY AtPositionsIs
<1> HIDE DEF new
<1>6. more \in Seq(SearchRow) /\ Shown(more) = Shown(new)
  <2>1. ASSUME NEW k \in DOMAIN new
        PROVE  /\ more[k] \in SearchRow
               /\ more[k].item = new[k].item /\ more[k].words = new[k].words
    <3> DEFINE r == new[k]
               graph == terms \cap r.words
               way == path(k)
               s == more[k]
    <3>1. r \in SearchRow
      BY <1>5
    <3>2. graph \in SUBSET DOMAIN Letters /\ way \in Paths
      BY <3>1, RowFields
    <3>3. s = Brought(r, graph, rescued, way)
      BY DEF Brought
    <3> HIDE DEF r, graph, way, s
    <3>4. s \in SearchRow /\ s.item = r.item /\ s.words = r.words
      BY <3>1, <3>2, <3>3, MarkedRow
    <3> QED
      BY <3>4 DEF s, r
  <2>2. more = [k \in DOMAIN new |-> more[k]]
    OBVIOUS
  <2> HIDE DEF more
  <2> QED
    BY <1>5, <2>1, <2>2, Retouched
<1> HIDE DEF known, more
<1>7. /\ all \in Seq(SearchRow) /\ Shown(rows) \subseteq Shown(all)
      /\ Shown(all) \subseteq Shown(rows) \cup Shown(found)
      /\ \A i \in I : found[i].item \in ItemsOf(all)
  BY <1>4, <1>5, <1>6, TakenIn DEF new
<1>8. ItemsOf(found) \subseteq ItemsOf(all)
  <2> SUFFICES ASSUME NEW j \in DOMAIN found PROVE found[j].item \in ItemsOf(all)
    BY DEF ItemsOf, Elements
  <2>1. CASE j \in I
    BY <1>7, <2>1
  <2>2. CASE j \notin I
    <3>1. \E i \in DOMAIN rows : rows[i].item = found[j].item
      BY <2>2 DEF Known, SameChunk
    <3>2. found[j].item \in ItemsOf(rows)
      BY <3>1 DEF ItemsOf, Elements
    <3> QED
      BY <1>7, <3>2, ShownItems
  <2> QED
    BY <2>1, <2>2
<1> QED
  BY <1>1, <1>7, <1>8

LEMMA AdmitIs ==
  ASSUME NEW rows \in Seq(SearchRow), NEW found \in Seq(SearchRow), NEW terms
  PROVE  LET all == Admit(rows, found, terms)
         IN  /\ all \in Seq(SearchRow)
             /\ Shown(rows) \subseteq Shown(all) /\ Shown(all) \subseteq Shown(rows) \cup Shown(found)
<1> DEFINE speaking == {j \in DOMAIN found : terms \cap found[j].words # {}}
           fresh == {j \in speaking : ~Known(rows, found[j])}
           rescued == Cardinality({i \in DOMAIN rows : rows[i].rescued})
           admitted == {j \in speaking : rescued + Cardinality({m \in fresh : m < j}) < 2}
           Found(r) == {j \in admitted : SameChunk(found[j], r)}
           Graph(i) == rows[i].graph \cup UNION {terms \cap found[j].words : j \in Found(rows[i])}
           known == [i \in DOMAIN rows |-> [rows[i] EXCEPT !.graph = Graph(i)]]
           I == admitted \cap fresh
           new == AtPositions(found, I)
           more == [k \in DOMAIN new |->
                      [new[k] EXCEPT !.graph = terms \cap new[k].words, !.rescued = TRUE, !.path = "rescue"]]
           all == known \o more
<1>1. Admit(rows, found, terms) = all
  BY DEF Admit
<1>2. /\ \A j \in DOMAIN found : found[j] \in SearchRow
      /\ \A i \in DOMAIN rows : rows[i] \in SearchRow
  OBVIOUS
<1>3. admitted \in SUBSET DOMAIN found
  OBVIOUS
<1> HIDE DEF admitted
<1>4. ASSUME NEW i \in DOMAIN rows
      PROVE  Graph(i) \in SUBSET DOMAIN Letters
  <2>1. \A j \in DOMAIN found : found[j].words \subseteq DOMAIN Letters
    BY <1>2, RowFields
  <2>2. rows[i].graph \subseteq DOMAIN Letters
    BY <1>2, RowFields
  <2> QED
    BY <1>3, <2>1, <2>2
<1> HIDE DEF Graph
<1>5. known \in Seq(SearchRow) /\ Shown(known) = Shown(rows)
  <2>1. ASSUME NEW i \in DOMAIN rows
        PROVE  /\ known[i] \in SearchRow
               /\ known[i].item = rows[i].item /\ known[i].words = rows[i].words
    <3> DEFINE r == rows[i]
               graph == Graph(i)
               s == known[i]
    <3>1. r \in SearchRow /\ graph \in SUBSET DOMAIN Letters
      BY <1>2, <1>4
    <3>2. s = Spoken(r, graph)
      BY DEF Spoken
    <3> HIDE DEF r, graph, s
    <3>3. s \in SearchRow /\ s.item = r.item /\ s.words = r.words
      BY <3>1, <3>2, MarkedRow
    <3> QED
      BY <3>3 DEF s, r
  <2>2. known = [i \in DOMAIN rows |-> known[i]]
    OBVIOUS
  <2> HIDE DEF known
  <2> QED
    BY <2>1, <2>2, Retouched
<1>6. new \in Seq(SearchRow) /\ I \in SUBSET DOMAIN found
  BY <1>3, AtPositionsIs
<1> HIDE DEF new
<1>7. more \in Seq(SearchRow) /\ Shown(more) = Shown(new)
  <2>1. ASSUME NEW k \in DOMAIN new
        PROVE  /\ more[k] \in SearchRow
               /\ more[k].item = new[k].item /\ more[k].words = new[k].words
    <3> DEFINE r == new[k]
               graph == terms \cap r.words
               way == "rescue"
               s == more[k]
    <3>1. r \in SearchRow
      BY <1>6
    <3>2. graph \in SUBSET DOMAIN Letters /\ way \in Paths
      BY <3>1, RowFields
    <3>3. s = Brought(r, graph, TRUE, way)
      BY DEF Brought
    <3> HIDE DEF r, graph, way, s
    <3>4. s \in SearchRow /\ s.item = r.item /\ s.words = r.words
      BY <3>1, <3>2, <3>3, MarkedRow
    <3> QED
      BY <3>4 DEF s, r
  <2>2. more = [k \in DOMAIN new |-> more[k]]
    OBVIOUS
  <2> HIDE DEF more
  <2> QED
    BY <1>6, <2>1, <2>2, Retouched
<1> HIDE DEF known, more
<1>8. /\ all \in Seq(SearchRow) /\ Shown(rows) \subseteq Shown(all)
      /\ Shown(all) \subseteq Shown(rows) \cup Shown(found)
  BY <1>5, <1>6, <1>7, TakenIn DEF new
<1> QED
  BY <1>1, <1>8

LEMMA AddNewItemsIs ==
  ASSUME NEW rows \in Seq(SearchRow), NEW found \in Seq(SearchRow)
  PROVE  LET all == AddNewItems(rows, found)
         IN  /\ all \in Seq(SearchRow)
             /\ Shown(rows) \subseteq Shown(all) /\ Shown(all) \subseteq Shown(rows) \cup Shown(found)
             /\ ItemsOf(found) \subseteq ItemsOf(all)
<1> DEFINE I == {j \in DOMAIN found : /\ \A i \in DOMAIN rows : rows[i].item # found[j].item
                                      /\ \A i \in 1 .. j - 1 : found[i].item # found[j].item}
           all == rows \o AtPositions(found, I)
<1>1. AddNewItems(rows, found) = all
  BY DEF AddNewItems
<1>2. I \in SUBSET DOMAIN found /\ AtPositions(found, I) \in Seq(SearchRow)
  BY AtPositionsIs
<1> HIDE DEF I
<1>3. /\ all \in Seq(SearchRow) /\ Shown(rows) \subseteq Shown(all)
      /\ Shown(all) \subseteq Shown(rows) \cup Shown(found)
      /\ \A i \in I : found[i].item \in ItemsOf(all)
  BY <1>2, TakenIn
<1>4. DOMAIN found = 1 .. Len(found) /\ Len(found) \in Nat
  OBVIOUS
<1>5. ItemsOf(found) \subseteq ItemsOf(all)
  <2> SUFFICES ASSUME NEW j \in DOMAIN found PROVE found[j].item \in ItemsOf(all)
    BY DEF ItemsOf, Elements
  <2>1. CASE \E i \in DOMAIN rows : rows[i].item = found[j].item
    <3>1. found[j].item \in ItemsOf(rows)
      BY <2>1 DEF ItemsOf, Elements
    <3> QED
      BY <1>3, <3>1, ShownItems
  <2>2. CASE \A i \in DOMAIN rows : rows[i].item # found[j].item
    <3> DEFINE J == {i \in DOMAIN found : found[i].item = found[j].item}
    <3>1. J \subseteq Nat /\ J # {}
      BY <1>4
    <3>2. PICK m \in J : \A i \in J : m <= i
      BY <3>1, LeastOf
    <3>3. m \in I
      <4>1. m \in DOMAIN found /\ found[m].item = found[j].item
        OBVIOUS
      <4>2. ASSUME NEW i \in 1 .. m - 1 PROVE found[i].item # found[m].item
        <5>1. i \in DOMAIN found /\ ~ (m <= i)
          BY <1>4, <4>1
        <5> QED
          BY <3>2, <4>1, <5>1
      <4> QED
        BY <2>2, <4>1, <4>2 DEF I
    <3> QED
      BY <1>3, <3>3
  <2> QED
    BY <2>1, <2>2
<1> QED
  BY <1>1, <1>3, <1>5

-----------------------------------------------------------------------------
(* The ranking keeps every row, the evidence every item with a text.       *)

LEMMA SortedByIs ==
  ASSUME NEW rows \in Seq(SearchRow), NEW key, \A i \in DOMAIN rows : key[i] \in Int \X Int
  PROVE  /\ SortedBy(rows, key) \in Seq(SearchRow)
         /\ Elements(SortedBy(rows, key)) = Elements(rows)
<1> DEFINE S == DOMAIN rows
           Sooner(i, j) ==
             \/ key[i][1] > key[j][1]
             \/ key[i][1] = key[j][1] /\ key[i][2] < key[j][2]
             \/ key[i] = key[j] /\ i < j
           R == {p \in S \X S : Sooner(p[1], p[2])}
           place == [i \in S |-> Cardinality({j \in S : Sooner(j, i)})]
           sorted == Arranged(S, place, Len(rows))
<1>1. S = 1 .. Len(rows) /\ Len(rows) \in Nat
  OBVIOUS
<1>2. IsFiniteSet(S) /\ Cardinality(S) = Len(rows)
  <2>1. IsFiniteSet(1 .. Len(rows)) /\ Cardinality(1 .. Len(rows)) = IF 1 > Len(rows) THEN 0 ELSE Len(rows) - 1 + 1
    BY <1>1, FS_Interval
  <2>2. (IF 1 > Len(rows) THEN 0 ELSE Len(rows) - 1 + 1) = Len(rows)
    BY <1>1
  <2> QED
    BY <1>1, <2>1, <2>2
<1>3. \A i, j \in S : key[i] = key[j] <=> key[i][1] = key[j][1] /\ key[i][2] = key[j][2]
  OBVIOUS
<1>4. \A i \in S : i \in Int /\ key[i][1] \in Int /\ key[i][2] \in Int
  OBVIOUS
<1>5. \A i, j \in S : <<i, j>> \in R <=> Sooner(i, j)
  OBVIOUS
<1> HIDE DEF R
<1>6. Ordering(R, S)
  <2>1. \A i \in S : ~Sooner(i, i)
    BY <1>4
  <2>2. \A i, j \in S : i # j => Sooner(i, j) \/ Sooner(j, i)
    BY <1>3, <1>4
  <2>3. \A i, j, k \in S : Sooner(i, j) /\ Sooner(j, k) => Sooner(i, k)
    BY <1>3, <1>4
  <2> HIDE DEF Sooner
  <2> QED
    BY <1>5, <2>1, <2>2, <2>3 DEF Ordering
<1>7. place = PlaceBy(R, S)
  <2> HIDE DEF Sooner
  <2>1. \A i \in S : {j \in S : Sooner(j, i)} = {j \in S : <<j, i>> \in R}
    BY <1>5
  <2> QED
    BY <2>1 DEF PlaceBy
<1>8. SortedBy(rows, key) = [i \in DOMAIN sorted |-> rows[sorted[i]]]
  BY DEF SortedBy
<1> HIDE DEF place
<1>9. sorted \in Seq(S) /\ Elements(sorted) = S
  <2>1. Cardinality(S) <= Len(rows) /\ Len(rows) \in Nat
    BY <1>1, <1>2
  <2> HIDE DEF S
  <2> QED
    BY <1>2, <1>6, <1>7, <2>1, ArrangedIs
<1> HIDE DEF sorted
<1>10. \A i \in S : rows[i] \in SearchRow
  OBVIOUS
<1>11. Elements(rows) = {rows[i] : i \in S}
  BY DEF Elements
<1> HIDE DEF S
<1>12. SortedBy(rows, key) \in Seq(SearchRow)
  BY <1>8, <1>9, <1>10
<1>13. Elements(SortedBy(rows, key)) = {rows[i] : i \in S}
  BY <1>8, <1>9 DEF Elements
<1> QED
  BY <1>11, <1>12, <1>13

LEMMA ScoresAreNumbers ==
  ASSUME NEW r \in SearchRow, NEW words, IsFiniteSet(words)
  PROVE  VectorScore(r) \in Int /\ FinalScore(r, words) \in Int
<1>1. VectorScore(r) \in Int
  BY RowFields DEF VectorScore
<1>2. \A n \in Int : Unit(n) \in Int
  BY DEF Unit, Lesser
<1>3. GraphScore(r) \in Int
  <2>1. GraphScore(r) \in {0, 90, 70, 40, 20}
    BY DEF GraphScore
  <2> QED
    BY <2>1
<1>4. HubScore(r) \in Int
  <2>1. HubScore(r) \in {0, 30, 70, 90}
    BY DEF HubScore
  <2> QED
    BY <2>1
<1>5. TrustScore(r) \in Int
  <2>1. TrustScore(r) \in {80, 45, 30, 60}
    BY DEF TrustScore
  <2> QED
    BY <2>1
<1>6. Penalties(r) \in Int
  <2>1. Penalties(r) \in {0, 1000, 2000}
    BY DEF Penalties
  <2> QED
    BY <2>1
<1>7. CurationBoost(r) \in Int
  <2>1. CurationBoost(r) \in {0, 1500, 400}
    BY DEF CurationBoost
  <2> QED
    BY <2>1
<1>8. Lesser(100, 20 * Cardinality(words \cap r.words)) \in Int
  <2>1. Cardinality(words \cap r.words) \in Nat
    BY FS_Subset, FS_CardinalityType
  <2> QED
    BY <2>1 DEF Lesser
<1> DEFINE a == VectorScore(r)
           b == GraphScore(r)
           c == HubScore(r)
           d == Lesser(100, 20 * Cardinality(words \cap r.words))
           e == TrustScore(r)
           f == Penalties(r)
           g == CurationBoost(r)
<1>9. FinalScore(r, words) = Unit(Unit(45 * a + 20 * b + 20 * c + 10 * d + 5 * e - f) + g)
  BY DEF FinalScore
<1>10. a \in Int /\ b \in Int /\ c \in Int /\ d \in Int /\ e \in Int /\ f \in Int /\ g \in Int
  BY <1>1, <1>3, <1>4, <1>5, <1>6, <1>7, <1>8
<1> HIDE DEF a, b, c, d, e, f, g
<1>11. 45 * a + 20 * b + 20 * c + 10 * d + 5 * e - f \in Int
  BY <1>10
<1>12. Unit(45 * a + 20 * b + 20 * c + 10 * d + 5 * e - f) + g \in Int
  BY <1>2, <1>10, <1>11
<1>13. FinalScore(r, words) \in Int
  BY <1>2, <1>9, <1>12
<1> QED
  BY <1>1, <1>13

LEMMA RerankedIs ==
  ASSUME NEW rows \in Seq(SearchRow)
  PROVE  Reranked(rows) \in Seq(SearchRow) /\ Shown(Reranked(rows)) = Shown(rows)
<1> DEFINE key == [i \in DOMAIN rows |-> <<rows[i].score * (9 + rows[i].queries), 0>>]
<1>1. ASSUME NEW i \in DOMAIN rows PROVE key[i] \in Int \X Int
  <2>1. rows[i] \in SearchRow
    OBVIOUS
  <2>2. rows[i].score \in Int /\ rows[i].queries \in Int
    BY <2>1, RowFields
  <2>3. rows[i].score * (9 + rows[i].queries) \in Int
    BY <2>2
  <2> QED
    BY <2>3
<1>2. Reranked(rows) = SortedBy(rows, key)
  BY DEF Reranked
<1> HIDE DEF key
<1> QED
  BY <1>1, <1>2, SortedByIs DEF Shown

LEMMA RankByCompositeIs ==
  ASSUME NEW rows \in Seq(SearchRow), NEW words, IsFiniteSet(words)
  PROVE  RankByComposite(rows, words) \in Seq(SearchRow) /\ Shown(RankByComposite(rows, words)) = Shown(rows)
<1> DEFINE key == [i \in DOMAIN rows |-> <<FinalScore(rows[i], words), 200 - 2 * VectorScore(rows[i])>>]
<1>1. ASSUME NEW i \in DOMAIN rows PROVE key[i] \in Int \X Int
  <2>1. rows[i] \in SearchRow
    OBVIOUS
  <2>2. FinalScore(rows[i], words) \in Int /\ VectorScore(rows[i]) \in Int
    BY <2>1, ScoresAreNumbers
  <2>3. 200 - 2 * VectorScore(rows[i]) \in Int
    BY <2>2
  <2> QED
    BY <2>2, <2>3
<1>2. RankByComposite(rows, words) = SortedBy(rows, key)
  BY DEF RankByComposite
<1> HIDE DEF key
<1> QED
  BY <1>1, <1>2, SortedByIs DEF Shown

LEMMA EvidenceIs ==
  ASSUME NEW rows \in Seq(SearchRow), NEW q, IsFiniteSet(Elements(q.query)), q.limit \in Nat
  PROVE  LET evidence == Evidence(rows, q)
         IN  /\ ItemsOf(evidence) \subseteq ItemsOf(rows)
             /\ Len(evidence) < q.limit => \A p \in Shown(rows) : p[2] # {} => p[1] \in ItemsOf(evidence)
<1> DEFINE ranked == RankByComposite(rows, Elements(q.query))
           I == {i \in DOMAIN ranked : ranked[i].words # {}}
           spoken == AtPositions(ranked, I)
           all == AddNewItems(<<>>, spoken)
           n == Lesser(q.limit, Len(all))
           evidence == SubSeq(all, 1, n)
<1>1. ranked \in Seq(SearchRow) /\ Shown(ranked) = Shown(rows)
  BY RankByCompositeIs
<1>2. Evidence(rows, q) = evidence
  BY DEF Evidence, Normalized
<1> HIDE DEF ranked
<1>3. spoken \in Seq(SearchRow) /\ Elements(spoken) = {ranked[i] : i \in I}
  BY <1>1, AtPositionsIs
<1> HIDE DEF spoken
<1>4. /\ Shown(spoken) \subseteq Shown(ranked)
      /\ \A p \in Shown(ranked) : p[2] # {} => p[1] \in ItemsOf(spoken)
  <2>1. Elements(spoken) = {r \in Elements(ranked) : r.words # {}}
    BY <1>3 DEF Elements
  <2>2. ASSUME NEW r \in Elements(ranked), r.words # {}
        PROVE  r.item \in ItemsOf(spoken)
    BY <2>1, <2>2 DEF ItemsOf
  <2>3. \A p \in Shown(ranked) : \E r \in Elements(ranked) : p[1] = r.item /\ p[2] = r.words
    BY DEF Shown
  <2> QED
    BY <2>1, <2>2, <2>3 DEF Shown
<1>5. /\ all \in Seq(SearchRow) /\ Shown(all) \subseteq Shown(spoken) /\ ItemsOf(spoken) \subseteq ItemsOf(all)
  <2>1. <<>> \in Seq(SearchRow) /\ Shown(<<>>) = {}
    BY DEF Shown, Elements
  <2> QED
    BY <1>3, <2>1, AddNewItemsIs
<1> HIDE DEF all
<1>6. /\ Len(all) \in Nat /\ n \in 0 .. Len(all) /\ n \in Nat /\ DOMAIN all = 1 .. Len(all)
      /\ n < q.limit => n = Len(all)
  <2>1. Len(all) \in Nat /\ DOMAIN all = 1 .. Len(all)
    BY <1>5
  <2> QED
    BY <2>1 DEF Lesser
<1>7. /\ Len(evidence) = n /\ DOMAIN evidence = 1 .. n
      /\ \A i \in 1 .. n : evidence[i] = all[i]
  BY <1>5, <1>6
<1> HIDE DEF n, evidence
<1>8. Elements(evidence) \subseteq Elements(all)
  BY <1>6, <1>7 DEF Elements
<1>9. n = Len(all) => Elements(evidence) = Elements(all)
  BY <1>6, <1>7 DEF Elements
<1>10. ItemsOf(evidence) \subseteq ItemsOf(rows)
  <2>1. Shown(all) \subseteq Shown(rows)
    BY <1>1, <1>4, <1>5
  <2>2. ItemsOf(evidence) \subseteq ItemsOf(all)
    BY <1>8 DEF ItemsOf
  <2> QED
    BY <1>8, <2>1, <2>2, ShownItems
<1>11. Len(evidence) < q.limit => \A p \in Shown(rows) : p[2] # {} => p[1] \in ItemsOf(evidence)
  BY <1>1, <1>4, <1>5, <1>6, <1>7, <1>9 DEF ItemsOf
<1> QED
  BY <1>2, <1>10, <1>11

-----------------------------------------------------------------------------
(* The SELECTs: what they return of a catalog, and all of it below LIMIT.  *)

TextOf(c, x) == IF x[2] = 0 THEN {} ELSE c.chunks[x[1]][x[2]].words

LEMMA CatalogFields ==
  ASSUME NEW c \in Catalog
  PROVE  /\ DOMAIN c = {"items", "type", "chunks", "links", "topics"}
         /\ c.items \subseteq Entries /\ c.chunks \in [Entries -> Seq(StoredChunk)]
         /\ c.type \in [Entries -> Memories \cup {"NULL"}]
         /\ c.links \subseteq Topics \X Entries /\ c.topics \in [Topics -> Topic]
BY DEF Catalog

LEMMA ChunkFields ==
  ASSUME NEW c \in Catalog, NEW e \in Entries, NEW k \in DOMAIN c.chunks[e]
  PROVE  /\ c.chunks[e][k] \in StoredChunk /\ k \in Nat \ {0}
         /\ c.chunks[e][k].words \subseteq DOMAIN Letters
         /\ c.chunks[e][k].distance \in Nat \/ c.chunks[e][k].distance = NoVector
         /\ c.chunks[e][k].distance \in Int
<1>1. c.chunks[e] \in Seq(StoredChunk)
  BY CatalogFields
<1>2. c.chunks[e][k] \in StoredChunk /\ k \in Nat \ {0}
  BY <1>1
<1> QED
  BY <1>2 DEF StoredChunk, NoVector

LEMMA ChunkedIs ==
  ASSUME NEW c \in Catalog
  PROVE  /\ \A x : x \in Chunked(c) <=> /\ x = <<x[1], x[2]>> /\ x[1] \in c.items
                                        /\ x[2] \in DOMAIN c.chunks[x[1]]
         /\ Chunked(c) \subseteq Entries \X Nat /\ OuterJoined(c) \subseteq Entries \X Nat
         /\ Chunked(c) \subseteq OuterJoined(c)
         /\ \A x \in OuterJoined(c) : x[1] \in c.items /\ (x[2] = 0 \/ x[2] \in DOMAIN c.chunks[x[1]])
         /\ \A x \in OuterJoined(c) : x[2] = 0 => c.chunks[x[1]] = <<>>
         /\ IsFiniteSet(Chunked(c)) /\ IsFiniteSet(OuterJoined(c))
<1> DEFINE F(e) == {e} \X DOMAIN c.chunks[e]
           f == [e \in c.items |-> F(e)]
           T == {F(e) : e \in c.items}
           Z == {<<e, 0>> : e \in {d \in c.items : c.chunks[d] = <<>>}}
<1>1. c.items \subseteq Entries /\ \A e \in Entries : c.chunks[e] \in Seq(StoredChunk)
  BY CatalogFields
<1>2. \A e \in c.items : \A k \in DOMAIN c.chunks[e] : k \in Nat /\ k # 0
  BY <1>1, ChunkFields
<1>3. Chunked(c) = UNION T /\ OuterJoined(c) = Chunked(c) \cup Z
  BY DEF Chunked, OuterJoined
<1>4. IsFiniteSet(c.items)
  BY <1>1, EntriesAssumption, FS_Subset
<1>5. \A t \in T : IsFiniteSet(t)
  <2> SUFFICES ASSUME NEW e \in c.items PROVE IsFiniteSet(F(e))
    OBVIOUS
  <2>1. DOMAIN c.chunks[e] = 1 .. Len(c.chunks[e]) /\ Len(c.chunks[e]) \in Nat
    BY <1>1
  <2>2. IsFiniteSet(DOMAIN c.chunks[e])
    BY <2>1, FS_Interval
  <2> QED
    BY <2>2, FS_Singleton, FS_Product
<1>6. IsFiniteSet(T)
  <2>1. f \in Surjection(c.items, T)
    BY DEF Surjection
  <2> QED
    BY <1>4, <2>1, FS_Surjection
<1>7. \A x : x \in Chunked(c) <=> /\ x = <<x[1], x[2]>> /\ x[1] \in c.items
                                  /\ x[2] \in DOMAIN c.chunks[x[1]]
  BY <1>3
<1> HIDE DEF T
<1>8. IsFiniteSet(Chunked(c))
  BY <1>3, <1>5, <1>6, FS_UNION
<1>9. IsFiniteSet(OuterJoined(c))
  <2>1. Z \subseteq c.items \X {0}
    OBVIOUS
  <2>2. IsFiniteSet(c.items \X {0})
    BY <1>4, FS_Singleton, FS_Product
  <2>3. IsFiniteSet(Z)
    BY <2>1, <2>2, FS_Subset
  <2>4. IsFiniteSet(Chunked(c) \cup Z)
    BY <1>8, <2>3, FS_Union
  <2> QED
    BY <1>3, <2>4
<1>10. \A x \in Z : x[1] \in c.items /\ x[2] = 0 /\ x = <<x[1], x[2]>> /\ c.chunks[x[1]] = <<>>
  OBVIOUS
<1> HIDE DEF Z
<1>11. \A x \in OuterJoined(c) : /\ x = <<x[1], x[2]>> /\ x[1] \in c.items
                                 /\ x[2] = 0 \/ x[2] \in DOMAIN c.chunks[x[1]]
                                 /\ x[2] \in Nat /\ (x[2] = 0 => c.chunks[x[1]] = <<>>)
  BY <1>2, <1>3, <1>7, <1>10
<1>12. OuterJoined(c) \subseteq Entries \X Nat /\ Chunked(c) \subseteq OuterJoined(c)
  BY <1>1, <1>3, <1>11
<1> QED
  BY <1>7, <1>8, <1>9, <1>11, <1>12

LEMMA FirstRowsIs ==
  ASSUME NEW S \in SUBSET (Entries \X Nat), IsFiniteSet(S)
  PROVE  /\ FirstRows(S) \in Seq(S)
         /\ Len(FirstRows(S)) # RowLimit => Elements(FirstRows(S)) = S
<1> DEFINE R == {p \in S \X S : NewestFirst(p[1], p[2])}
           place == [x \in S |-> Cardinality({y \in S : NewestFirst(y, x)})]
<1>1. \A x, y \in S : <<x, y>> \in R <=> NewestFirst(x, y)
  OBVIOUS
<1> HIDE DEF R
<1>2. Ordering(R, S)
  <2>1. \A x \in S : x = <<x[1], x[2]>> /\ x[1] \in Nat /\ x[2] \in Nat
    <3>1. \A x \in S : x \in Nat \X Nat
      BY EntriesAssumption
    <3> QED
      BY <3>1
  <2>2. \A x, y \in S : x # y => x[1] # y[1] \/ x[2] # y[2]
    BY <2>1
  <2>3. \A x \in S : ~NewestFirst(x, x)
    BY <2>1 DEF NewestFirst
  <2>4. \A x, y \in S : x # y => NewestFirst(x, y) \/ NewestFirst(y, x)
    BY <2>1, <2>2 DEF NewestFirst
  <2>5. \A x, y, z \in S : NewestFirst(x, y) /\ NewestFirst(y, z) => NewestFirst(x, z)
    BY <2>1 DEF NewestFirst
  <2> QED
    BY <1>1, <2>3, <2>4, <2>5 DEF Ordering
<1>3. place = PlaceBy(R, S)
  <2>1. \A x \in S : {y \in S : NewestFirst(y, x)} = {y \in S : <<y, x>> \in R}
    BY <1>1
  <2> QED
    BY <2>1 DEF PlaceBy
<1>4. FirstRows(S) = Arranged(S, place, RowLimit) /\ RowLimit \in Nat
  BY CatalogsAssumption DEF FirstRows
<1> HIDE DEF place
<1> QED
  BY <1>2, <1>3, <1>4, ArrangedIs DEF Lesser

LEMMA RowIs ==
  ASSUME NEW c \in Catalog, NEW x \in OuterJoined(c), NEW path \in Paths, NEW score \in Int
  PROVE  LET r == Row(c, x, path, score)
         IN  r \in SearchRow /\ r.item = x[1] /\ r.words = TextOf(c, x)
<1>1. x[1] \in Entries /\ x[2] \in Nat
  BY ChunkedIs
<1>2. TextOf(c, x) \subseteq DOMAIN Letters
  BY <1>1, ChunkedIs, ChunkFields DEF TextOf
<1> DEFINE words == TextOf(c, x)
           r == Row(c, x, path, score)
<1>3. r =
        [item |-> x[1], chunk |-> x[2], path |-> path, score |-> score, words |-> words, distance |-> -1,
         graph |-> {}, hub |-> None, queries |-> 1, rescued |-> FALSE]
  BY DEF Row, TextOf, NoVector
<1>4. words \in SUBSET DOMAIN Letters
  BY <1>2
<1> HIDE DEF words, r
<1>5. r \in SearchRow
  <2> DEFINE e == x[1]
             k == x[2]
             H == (SUBSET DOMAIN Letters) \cup {None}
  <2>1. e \in Entries /\ k \in Nat /\ None \in H
    BY <1>1
  <2>2. r = [item |-> e, chunk |-> k, path |-> path, score |-> score, words |-> words, distance |-> -1,
             graph |-> {}, hub |-> None, queries |-> 1, rescued |-> FALSE]
    BY <1>3
  <2>3. SearchRow = [item : Entries, chunk : Nat, path : Paths, score : Int, words : SUBSET DOMAIN Letters,
                     distance : Int, graph : SUBSET DOMAIN Letters, hub : H, queries : Int, rescued : BOOLEAN]
    BY DEF SearchRow
  <2> HIDE DEF e, k, H
  <2> QED
    BY <1>4, <2>1, <2>2, <2>3
<1>6. r.item = x[1] /\ r.words = words
  BY <1>3
<1> QED
  BY <1>5, <1>6 DEF words, r

\* The rows made of what a SELECT put in order.
MadeOf(f, sorted, c) ==
  /\ f \in [DOMAIN sorted -> SearchRow]
  /\ \A i \in DOMAIN sorted : f[i].item = sorted[i][1] /\ f[i].words = TextOf(c, sorted[i])

LEMMA SelectIs ==
  ASSUME NEW c, NEW X, NEW sorted, NEW f, sorted \in Seq(X), MadeOf(f, sorted, c)
  PROVE  /\ f \in Seq(SearchRow) /\ Len(f) = Len(sorted)
         /\ \A p \in Shown(f) : \E x \in X : p[1] = x[1] /\ p[2] = TextOf(c, x)
         /\ Elements(sorted) = X => \A x \in X : x[1] \in ItemsOf(f)
<1>1. /\ DOMAIN f = DOMAIN sorted /\ DOMAIN sorted = 1 .. Len(sorted) /\ Len(sorted) \in Nat
      /\ f \in [1 .. Len(sorted) -> SearchRow]
      /\ \A i \in DOMAIN sorted : f[i].item = sorted[i][1] /\ f[i].words = TextOf(c, sorted[i])
  BY DEF MadeOf
<1>2. f \in Seq(SearchRow) /\ Len(f) = Len(sorted)
  BY <1>1
<1>3. \A i \in DOMAIN sorted : sorted[i] \in X
  OBVIOUS
<1>4. \A p \in Shown(f) : \E i \in DOMAIN sorted : p = <<f[i].item, f[i].words>>
  BY <1>1 DEF Shown, Elements
<1>5. \A p \in Shown(f) : \E x \in X : p[1] = x[1] /\ p[2] = TextOf(c, x)
  BY <1>1, <1>3, <1>4
<1>6. ASSUME Elements(sorted) = X, NEW x \in X
      PROVE  x[1] \in ItemsOf(f)
  <2>1. PICK i \in DOMAIN sorted : sorted[i] = x
    BY <1>6 DEF Elements
  <2> QED
    BY <1>1, <2>1 DEF ItemsOf, Elements
<1> QED
  BY <1>2, <1>5, <1>6

LEMMA LexicalIs ==
  ASSUME NEW c \in Catalog, NEW q, NEW query, IsFiniteSet(DOMAIN query)
  PROVE  LET found == Lexical(c, q, query)
         IN  /\ found \in Seq(SearchRow)
             /\ \A p \in Shown(found) : /\ InScope(c, q, p[1])
                                        /\ \E x \in Chunked(c) : p[1] = x[1] /\ p[2] = TextOf(c, x)
             /\ Len(found) # RowLimit =>
                  \A e \in c.items : \A k \in DOMAIN c.chunks[e] :
                    InScope(c, q, e) /\ Hits(query, c.chunks[e][k].words) # {} => e \in ItemsOf(found)
<1> DEFINE hits(x) == Hits(query, c.chunks[x[1]][x[2]].words)
           X == {x \in Chunked(c) : InScope(c, q, x[1]) /\ hits(x) # {}}
           sorted == FirstRows(X)
           points(i) == 50 + 10 * Lesser(5, Cardinality(hits(sorted[i])))
           found == [i \in DOMAIN sorted |-> Row(c, sorted[i], "lexical", points(i))]
<1>1. Lexical(c, q, query) = found
  BY DEF Lexical
<1>2. X \subseteq Chunked(c) /\ X \in SUBSET OuterJoined(c) /\ X \in SUBSET (Entries \X Nat) /\ IsFiniteSet(X)
  BY ChunkedIs, FS_Subset
<1>3. \A x : Cardinality(hits(x)) \in Nat
  <2>1. \A x : hits(x) \subseteq DOMAIN query
    BY DEF Hits, Terms
  <2> QED
    BY <2>1, FS_Subset, FS_CardinalityType
<1>4. \A x \in X : InScope(c, q, x[1])
  OBVIOUS
<1>5. \A e \in c.items : \A k \in DOMAIN c.chunks[e] :
        InScope(c, q, e) /\ Hits(query, c.chunks[e][k].words) # {} => <<e, k>> \in X
  BY ChunkedIs
<1> HIDE DEF X
<1>6. sorted \in Seq(X) /\ (Len(sorted) # RowLimit => Elements(sorted) = X)
  BY <1>2, FirstRowsIs
<1>7. ASSUME NEW i PROVE points(i) \in Int
  <2> DEFINE n == Cardinality(hits(sorted[i]))
  <2>1. n \in Nat
    BY <1>3
  <2> HIDE DEF n
  <2> QED
    BY <2>1 DEF Lesser, n
<1> HIDE DEF points, sorted
<1>8. ASSUME NEW i \in DOMAIN sorted
      PROVE  /\ found[i] \in SearchRow /\ found[i].item = sorted[i][1] /\ found[i].words = TextOf(c, sorted[i])
  <2>1. sorted[i] \in OuterJoined(c) /\ "lexical" \in Paths
    BY <1>2, <1>6 DEF Paths
  <2> QED
    BY <1>7, <2>1, RowIs
<1>9. MadeOf(found, sorted, c)
  BY <1>8 DEF MadeOf
<1> HIDE DEF found
<1>10. /\ found \in Seq(SearchRow) /\ Len(found) = Len(sorted)
       /\ \A p \in Shown(found) : \E x \in X : p[1] = x[1] /\ p[2] = TextOf(c, x)
       /\ Elements(sorted) = X => \A x \in X : x[1] \in ItemsOf(found)
  BY <1>6, <1>9, SelectIs
<1>11. Len(found) # RowLimit => \A x \in X : x[1] \in ItemsOf(found)
  BY <1>6, <1>10
<1>12. Len(found) # RowLimit =>
         \A e \in c.items : \A k \in DOMAIN c.chunks[e] :
           InScope(c, q, e) /\ Hits(query, c.chunks[e][k].words) # {} => e \in ItemsOf(found)
  BY <1>5, <1>11
<1>13. \A p \in Shown(found) : /\ InScope(c, q, p[1])
                               /\ \E x \in Chunked(c) : p[1] = x[1] /\ p[2] = TextOf(c, x)
  BY <1>2, <1>4, <1>10
<1> QED
  BY <1>1, <1>10, <1>12, <1>13

LEMMA NearestIs ==
  ASSUME NEW c \in Catalog, NEW q
  PROVE  LET found == Nearest(c, q)
         IN  /\ found \in Seq(SearchRow)
             /\ \A p \in Shown(found) : /\ InScope(c, q, p[1])
                                        /\ \E x \in Chunked(c) : p[1] = x[1] /\ p[2] = TextOf(c, x)
             /\ Len(found) # RowLimit =>
                  \A e \in c.items : \A k \in DOMAIN c.chunks[e] :
                    InScope(c, q, e) /\ c.chunks[e][k].distance # NoVector => e \in ItemsOf(found)
<1> DEFINE far(x) == c.chunks[x[1]][x[2]].distance
           nearer(x, y) == \/ far(x) < far(y)
                           \/ far(x) = far(y) /\ (x[2] < y[2] \/ (x[2] = y[2] /\ x[1] > y[1]))
           X == {x \in Chunked(c) : InScope(c, q, x[1]) /\ far(x) # NoVector}
           R == {p \in X \X X : nearer(p[1], p[2])}
           place == [x \in X |-> Cardinality({y \in X : nearer(y, x)})]
           sorted == Arranged(X, place, RowLimit)
           points(i) == 10000 \div (100 + far(sorted[i]))
           row(i) == Row(c, sorted[i], "nearest", points(i))
           found == [i \in DOMAIN sorted |-> [row(i) EXCEPT !.distance = far(sorted[i])]]
<1>1. Nearest(c, q) = found
  BY DEF Nearest
<1>2. /\ X \subseteq Chunked(c) /\ X \in SUBSET OuterJoined(c) /\ X \in SUBSET (Entries \X Nat) /\ IsFiniteSet(X)
      /\ \A x \in X : InScope(c, q, x[1])
  BY ChunkedIs, FS_Subset
<1>3. \A x \in X : far(x) \in Nat
  <2> SUFFICES ASSUME NEW x \in X PROVE far(x) \in Nat
    OBVIOUS
  <2>1. x[1] \in Entries /\ x[2] \in DOMAIN c.chunks[x[1]] /\ far(x) # NoVector
    BY ChunkedIs, CatalogFields
  <2> QED
    BY <2>1, ChunkFields
<1>4. \A e \in c.items : \A k \in DOMAIN c.chunks[e] :
        InScope(c, q, e) /\ c.chunks[e][k].distance # NoVector => <<e, k>> \in X
  BY ChunkedIs
<1> HIDE DEF X
<1>5. \A x, y \in X : <<x, y>> \in R <=> nearer(x, y)
  OBVIOUS
<1>6. \A x \in X : x = <<x[1], x[2]>> /\ x[1] \in Int /\ x[2] \in Int /\ far(x) \in Int
  <2>1. \A x \in X : x \in Nat \X Nat
    BY <1>2, EntriesAssumption
  <2> QED
    BY <1>3, <2>1
<1> HIDE DEF R, far
<1>7. Ordering(R, X)
  <2>1. \A x, y \in X : x # y => x[1] # y[1] \/ x[2] # y[2]
    BY <1>6
  <2>2. \A x \in X : ~nearer(x, x)
    BY <1>6
  <2>3. \A x, y \in X : x # y => nearer(x, y) \/ nearer(y, x)
    BY <1>6, <2>1
  <2>4. \A x, y, z \in X : nearer(x, y) /\ nearer(y, z) => nearer(x, z)
    BY <1>6
  <2> HIDE DEF nearer
  <2> QED
    BY <1>5, <2>2, <2>3, <2>4 DEF Ordering
<1> HIDE DEF nearer
<1>8. place = PlaceBy(R, X)
  <2>1. \A x \in X : {y \in X : nearer(y, x)} = {y \in X : <<y, x>> \in R}
    BY <1>5
  <2> QED
    BY <2>1 DEF PlaceBy
<1> HIDE DEF place
<1>9. sorted \in Seq(X) /\ (Len(sorted) # RowLimit => Elements(sorted) = X)
  <2>1. RowLimit \in Nat
    BY CatalogsAssumption
  <2> QED
    BY <1>2, <1>7, <1>8, <2>1, ArrangedIs DEF Lesser
<1> HIDE DEF sorted
<1>10. ASSUME NEW i \in DOMAIN sorted
       PROVE  /\ found[i] \in SearchRow /\ found[i].item = sorted[i][1] /\ found[i].words = TextOf(c, sorted[i])
  <2> DEFINE d == far(sorted[i])
             r == row(i)
  <2>1. sorted[i] \in OuterJoined(c) /\ sorted[i] \in X /\ "nearest" \in Paths
    BY <1>2, <1>9 DEF Paths
  <2>2. d \in Nat
    BY <1>3, <2>1
  <2>3. points(i) \in Int
    <3> DEFINE b == 100 + d
    <3>1. b \in Nat \ {0}
      BY <2>2
    <3>2. points(i) = 10000 \div b
      OBVIOUS
    <3> HIDE DEF b, points
    <3> QED
      BY <3>1, <3>2
  <2> HIDE DEF points
  <2>4. r \in SearchRow /\ r.item = sorted[i][1] /\ r.words = TextOf(c, sorted[i])
    BY <2>1, <2>3, RowIs
  <2> HIDE DEF d, r
  <2>5. /\ [r EXCEPT !.distance = d] \in SearchRow
        /\ [r EXCEPT !.distance = d].item = r.item /\ [r EXCEPT !.distance = d].words = r.words
    BY <2>2, <2>4 DEF SearchRow
  <2>6. found[i] = [r EXCEPT !.distance = d]
    BY DEF r, d
  <2> QED
    BY <2>4, <2>5, <2>6
<1>11. MadeOf(found, sorted, c)
  BY <1>10 DEF MadeOf
<1> HIDE DEF found
<1>12. /\ found \in Seq(SearchRow) /\ Len(found) = Len(sorted)
       /\ \A p \in Shown(found) : \E x \in X : p[1] = x[1] /\ p[2] = TextOf(c, x)
       /\ Elements(sorted) = X => \A x \in X : x[1] \in ItemsOf(found)
  BY <1>9, <1>11, SelectIs
<1>13. Len(found) # RowLimit => \A x \in X : x[1] \in ItemsOf(found)
  BY <1>9, <1>12
<1>14. Len(found) # RowLimit =>
         \A e \in c.items : \A k \in DOMAIN c.chunks[e] :
           InScope(c, q, e) /\ c.chunks[e][k].distance # NoVector => e \in ItemsOf(found)
  BY <1>4, <1>13
<1>15. \A p \in Shown(found) : /\ InScope(c, q, p[1])
                               /\ \E x \in Chunked(c) : p[1] = x[1] /\ p[2] = TextOf(c, x)
  BY <1>2, <1>12
<1> QED
  BY <1>1, <1>12, <1>14, <1>15

LEMMA HubRowsAre ==
  ASSUME NEW c \in Catalog, NEW q, NEW items, NEW names \in SUBSET DOMAIN Letters
  PROVE  LET found == HubRows(c, q, items, names)
         IN  /\ found \in Seq(SearchRow)
             /\ \A p \in Shown(found) : /\ p[1] \in items /\ Selectable(c, q, p[1])
                                        /\ \E x \in OuterJoined(c) : p[1] = x[1] /\ p[2] = TextOf(c, x)
             /\ Len(found) # RowLimit =>
                  \A e \in c.items \cap items : Selectable(c, q, e) /\ c.chunks[e] # <<>> => e \in ItemsOf(found)
<1> DEFINE X == {x \in OuterJoined(c) : x[1] \in items /\ Selectable(c, q, x[1])}
           sorted == FirstRows(X)
           row(i) == Row(c, sorted[i], "hub", 95)
           found == [i \in DOMAIN sorted |-> [row(i) EXCEPT !.hub = names]]
<1>1. HubRows(c, q, items, names) = found
  BY DEF HubRows
<1>2. /\ X \in SUBSET OuterJoined(c) /\ X \in SUBSET (Entries \X Nat) /\ IsFiniteSet(X)
      /\ \A x \in X : x[1] \in items /\ Selectable(c, q, x[1])
  BY ChunkedIs, FS_Subset
<1>3. ASSUME NEW e \in c.items \cap items, Selectable(c, q, e), c.chunks[e] # <<>>
      PROVE  <<e, 1>> \in X
  <2>1. e \in Entries /\ c.chunks[e] \in Seq(StoredChunk)
    BY CatalogFields
  <2>2. 1 \in DOMAIN c.chunks[e]
    BY <1>3, <2>1
  <2>3. <<e, 1>> \in Chunked(c)
    BY <2>2, ChunkedIs
  <2> QED
    BY <1>3, <2>3, ChunkedIs
<1> HIDE DEF X
<1>4. sorted \in Seq(X) /\ (Len(sorted) # RowLimit => Elements(sorted) = X)
  BY <1>2, FirstRowsIs
<1> HIDE DEF sorted
<1>5. ASSUME NEW i \in DOMAIN sorted
      PROVE  /\ found[i] \in SearchRow /\ found[i].item = sorted[i][1] /\ found[i].words = TextOf(c, sorted[i])
  <2> DEFINE r == row(i)
  <2>1. sorted[i] \in OuterJoined(c) /\ "hub" \in Paths /\ 95 \in Int
    BY <1>2, <1>4 DEF Paths
  <2>2. r \in SearchRow /\ r.item = sorted[i][1] /\ r.words = TextOf(c, sorted[i])
    BY <2>1, RowIs
  <2> HIDE DEF r
  <2>3. /\ [r EXCEPT !.hub = names] \in SearchRow
        /\ [r EXCEPT !.hub = names].item = r.item /\ [r EXCEPT !.hub = names].words = r.words
    BY <2>2 DEF SearchRow
  <2>4. found[i] = [r EXCEPT !.hub = names]
    BY DEF r
  <2> QED
    BY <2>2, <2>3, <2>4
<1>6. MadeOf(found, sorted, c)
  BY <1>5 DEF MadeOf
<1> HIDE DEF found
<1>7. /\ found \in Seq(SearchRow) /\ Len(found) = Len(sorted)
      /\ \A p \in Shown(found) : \E x \in X : p[1] = x[1] /\ p[2] = TextOf(c, x)
      /\ Elements(sorted) = X => \A x \in X : x[1] \in ItemsOf(found)
  BY <1>4, <1>6, SelectIs
<1>8. Len(found) # RowLimit => \A x \in X : x[1] \in ItemsOf(found)
  BY <1>4, <1>7
<1>9. Len(found) # RowLimit =>
        \A e \in c.items \cap items : Selectable(c, q, e) /\ c.chunks[e] # <<>> => e \in ItemsOf(found)
  BY <1>3, <1>8
<1>10. \A p \in Shown(found) : /\ p[1] \in items /\ Selectable(c, q, p[1])
                               /\ \E x \in OuterJoined(c) : p[1] = x[1] /\ p[2] = TextOf(c, x)
  BY <1>2, <1>7
<1> QED
  BY <1>1, <1>7, <1>9, <1>10

-----------------------------------------------------------------------------
(* The scope of a request.                                                 *)

LEMMA ScopeIs ==
  ASSUME NEW c \in Catalog, NEW q, ValidQuestion(q)
  PROVE  /\ \A e : InScope(c, q, e) <=> e \in WithinScope(c, q)
         /\ \A e : Selectable(c, q, e) /\ (\E h : HubAllowed(q, h) /\ <<h, e>> \in c.links) => InScope(c, q, e)
         /\ \A e : InScope(c, q, e) => Selectable(c, q, e) /\ e \in c.items
<1> DEFINE asked(e) == \A types \in {q.memory_types, q.content_types} \ {None} : c.type[e] \in types
           linked(e) == q.allowed_hubs # None => \E h \in q.allowed_hubs : <<h, e>> \in c.links
<1>1. ASSUME NEW e
      PROVE  (ResolvedTypes(q) # None => c.type[e] \in ResolvedTypes(q)) <=> asked(e)
  BY DEF ValidQuestion, ResolvedTypes
<1>2. ASSUME NEW e
      PROVE  (c.links \cap (q.allowed_hubs \X {e}) # {}) <=> (\E h \in q.allowed_hubs : <<h, e>> \in c.links)
  <2>1. ASSUME NEW x \in c.links \cap (q.allowed_hubs \X {e})
        PROVE  x[1] \in q.allowed_hubs /\ <<x[1], e>> \in c.links
    <3>1. x = <<x[1], e>> /\ x[1] \in q.allowed_hubs
      OBVIOUS
    <3> QED
      BY <3>1
  <2>2. ASSUME NEW h \in q.allowed_hubs, <<h, e>> \in c.links
        PROVE  <<h, e>> \in c.links \cap (q.allowed_hubs \X {e})
    BY <2>2
  <2> QED
    BY <2>1, <2>2
<1>3. \A e : Selectable(c, q, e) <=> e \in c.items \ Foreign /\ asked(e)
  <2> HIDE DEF asked
  <2> QED
    BY <1>1 DEF Selectable
<1>4. \A e : InScope(c, q, e) <=> Selectable(c, q, e) /\ linked(e)
  BY DEF InScope
<1>5. \A e : e \in WithinScope(c, q) <=> e \in c.items \ Foreign /\ asked(e) /\ linked(e)
  BY <1>2 DEF WithinScope
<1>6. \A e, h : HubAllowed(q, h) /\ <<h, e>> \in c.links => linked(e)
  BY DEF HubAllowed
<1> HIDE DEF asked, linked
<1> QED
  BY <1>3, <1>4, <1>5, <1>6

WordsLead(c, q, e) == \E k \in DOMAIN c.chunks[e] : Hits(q.query, c.chunks[e][k].words) # {}
VectorLeads(c, e) == \E k \in DOMAIN c.chunks[e] : c.chunks[e][k].distance # NoVector
HubLeads(c, q, d) ==
  /\ d[2] \in MatchedTopics(c, q.query)[d[3]] /\ UNION Elements(MatchedTopics(c, q.query)) = {d[2]}
  /\ HubAllowed(q, d[2])
  /\ <<d[2], d[1]>> \in c.links /\ c.chunks[d[1]] # <<>>

LEMMA DueIs ==
  ASSUME NEW c \in Catalog, NEW q, ValidQuestion(q), NEW v, NEW d \in Due(c, q, v)
  PROVE  /\ d[1] \in WithinScope(c, q) /\ InScope(c, q, d[1]) /\ d[1] \in c.items /\ d[3] \in 1 .. 5
         /\ d = <<d[1], d[2], d[3]>>
         /\ c.chunks[d[1]] # <<>> /\ \A k \in DOMAIN c.chunks[d[1]] : c.chunks[d[1]][k].words # {}
         /\ d[2] = "words" => WordsLead(c, q, d[1])
         /\ d[2] = "vector" => v /\ VectorLeads(c, d[1])
         /\ d[2] \notin {"words", "vector"} => HubLeads(c, q, d)
<1> DEFINE W == {"words", "vector"} \cup Topics
           led(x) == CASE x[2] = "words" -> WordsLead(c, q, x[1])
                       [] x[2] = "vector" -> v /\ VectorLeads(c, x[1])
                       [] OTHER -> HubLeads(c, q, x)
           whole(x) == \A k \in DOMAIN c.chunks[x[1]] : c.chunks[x[1]][k].words # {}
           S == WithinScope(c, q)
<1>1. Due(c, q, v) = {x \in S \X W \X (1 .. 5) : whole(x) /\ led(x)}
  BY DEF Due, WordsLead, VectorLeads, HubLeads, HubAllowed
<1> HIDE DEF led, S, W, whole
<1>2. d \in S \X W \X (1 .. 5) /\ whole(d) /\ led(d)
  BY <1>1
<1>3. d[1] \in S /\ d[3] \in 1 .. 5 /\ d = <<d[1], d[2], d[3]>>
  BY <1>2
<1>4. InScope(c, q, d[1]) /\ d[1] \in c.items
  BY <1>3, ScopeIs DEF S
<1>5. /\ d[2] = "words" => WordsLead(c, q, d[1])
      /\ d[2] = "vector" => v /\ VectorLeads(c, d[1])
      /\ d[2] \notin {"words", "vector"} => HubLeads(c, q, d)
  BY <1>2 DEF led
<1>6. c.chunks[d[1]] # <<>>
  <2>1. DOMAIN <<>> = {}
    OBVIOUS
  <2>2. WordsLead(c, q, d[1]) \/ VectorLeads(c, d[1]) \/ HubLeads(c, q, d)
    BY <1>5
  <2> QED
    BY <2>1, <2>2 DEF WordsLead, VectorLeads, HubLeads
<1> QED
  BY <1>2, <1>3, <1>4, <1>5, <1>6 DEF S, whole

-----------------------------------------------------------------------------
(* What a search has gathered, against the history of its scope.           *)

\* Each row is of an item that was in scope, and if that item is due the row has a text.
Fits(rows, s) ==
  /\ rows \in Seq(SearchRow)
  /\ \A p \in Shown(rows) : p[1] \in s.ever /\ \A d \in s.always : d[1] = p[1] => p[2] # {}
\* Nothing that way is missing.
Finds(rows, s, way) == \A d \in s.always : d[2] = way => d[1] \in ItemsOf(rows)
HubWays(s) == {d \in s.always : d[2] \notin {"words", "vector"}}

\* The history is up to date with the tables.
UpToDate(s, c, q, v) == WithinScope(c, q) \subseteq s.ever /\ s.always \subseteq Due(c, q, v)

LEMMA FoundFits ==
  ASSUME NEW c \in Catalog, NEW q, ValidQuestion(q), NEW v, NEW s, UpToDate(s, c, q, v),
         NEW found \in Seq(SearchRow),
         \A p \in Shown(found) : InScope(c, q, p[1]) /\ \E x \in OuterJoined(c) : p[1] = x[1] /\ p[2] = TextOf(c, x)
  PROVE  Fits(found, s)
<1> SUFFICES ASSUME NEW p \in Shown(found)
             PROVE  p[1] \in s.ever /\ \A d \in s.always : d[1] = p[1] => p[2] # {}
  BY DEF Fits
<1>1. p[1] \in s.ever
  BY ScopeIs DEF UpToDate
<1>2. ASSUME NEW d \in s.always, d[1] = p[1]
      PROVE  p[2] # {}
  <2>1. PICK x \in OuterJoined(c) : p[1] = x[1] /\ p[2] = TextOf(c, x)
    OBVIOUS
  <2>2. d \in Due(c, q, v)
    BY DEF UpToDate
  <2>3. c.chunks[x[1]] # <<>> /\ \A k \in DOMAIN c.chunks[x[1]] : c.chunks[x[1]][k].words # {}
    BY <1>2, <2>1, <2>2, DueIs
  <2>4. x[2] # 0 /\ x[2] \in DOMAIN c.chunks[x[1]]
    BY <2>3, ChunkedIs
  <2> QED
    BY <2>1, <2>3, <2>4 DEF TextOf
<1> QED
  BY <1>1, <1>2

LEMMA TogetherFits ==
  ASSUME NEW s, NEW a, NEW b, Fits(a, s), Fits(b, s), NEW all \in Seq(SearchRow),
         Shown(all) \subseteq Shown(a) \cup Shown(b)
  PROVE  Fits(all, s)
BY DEF Fits

LEMMA NothingFits ==
  ASSUME NEW s
  PROVE  Fits(<<>>, s) /\ <<>> \in Seq(SearchRow)
<1>1. Shown(<<>>) = {}
  BY DEF Shown, Elements
<1> QED
  BY <1>1 DEF Fits

LEMMA StillFinds ==
  ASSUME NEW s, NEW way, NEW a, NEW b, Finds(a, s, way), ItemsOf(a) \subseteq ItemsOf(b)
  PROVE  Finds(b, s, way)
BY DEF Finds

\* The SELECT by words, with the query's or with more.
LEMMA LexicalFits ==
  ASSUME NEW c \in Catalog, NEW q, ValidQuestion(q), NEW v, NEW s, UpToDate(s, c, q, v),
         NEW query, IsFiniteSet(DOMAIN query)
  PROVE  LET found == Lexical(c, q, query)
         IN  /\ found \in Seq(SearchRow) /\ Fits(found, s)
             /\ query = q.query /\ Len(found) # RowLimit => Finds(found, s, "words")
<1> DEFINE found == Lexical(c, q, query)
<1>1. /\ found \in Seq(SearchRow)
      /\ \A p \in Shown(found) : /\ InScope(c, q, p[1])
                                 /\ \E x \in Chunked(c) : p[1] = x[1] /\ p[2] = TextOf(c, x)
      /\ Len(found) # RowLimit =>
           \A e \in c.items : \A k \in DOMAIN c.chunks[e] :
             InScope(c, q, e) /\ Hits(query, c.chunks[e][k].words) # {} => e \in ItemsOf(found)
  BY LexicalIs
<1> HIDE DEF found
<1>2. Fits(found, s)
  BY <1>1, ChunkedIs, FoundFits
<1>3. ASSUME query = q.query, Len(found) # RowLimit, NEW d \in s.always, d[2] = "words"
      PROVE  d[1] \in ItemsOf(found)
  <2>1. d \in Due(c, q, v)
    BY DEF UpToDate
  <2>2. d[1] \in c.items /\ InScope(c, q, d[1]) /\ WordsLead(c, q, d[1])
    BY <1>3, <2>1, DueIs
  <2> QED
    BY <1>1, <1>3, <2>2 DEF WordsLead
<1> QED
  BY <1>1, <1>2, <1>3 DEF Finds, found

LEMMA NearestFits ==
  ASSUME NEW c \in Catalog, NEW q, ValidQuestion(q), NEW v, NEW s, UpToDate(s, c, q, v)
  PROVE  LET found == Nearest(c, q)
         IN  /\ found \in Seq(SearchRow) /\ Fits(found, s)
             /\ Len(found) # RowLimit => Finds(found, s, "vector")
<1> DEFINE found == Nearest(c, q)
<1>1. /\ found \in Seq(SearchRow)
      /\ \A p \in Shown(found) : /\ InScope(c, q, p[1])
                                 /\ \E x \in Chunked(c) : p[1] = x[1] /\ p[2] = TextOf(c, x)
      /\ Len(found) # RowLimit =>
           \A e \in c.items : \A k \in DOMAIN c.chunks[e] :
             InScope(c, q, e) /\ c.chunks[e][k].distance # NoVector => e \in ItemsOf(found)
  BY NearestIs
<1> HIDE DEF found
<1>2. Fits(found, s)
  BY <1>1, ChunkedIs, FoundFits
<1>3. ASSUME Len(found) # RowLimit, NEW d \in s.always, d[2] = "vector"
      PROVE  d[1] \in ItemsOf(found)
  <2>1. d \in Due(c, q, v)
    BY DEF UpToDate
  <2>2. d[1] \in c.items /\ InScope(c, q, d[1]) /\ VectorLeads(c, d[1])
    BY <1>3, <2>1, DueIs
  <2> QED
    BY <1>1, <1>3, <2>2 DEF VectorLeads
<1> QED
  BY <1>1, <1>2, <1>3 DEF Finds, found

\* The items of a hub that is allowed: they are linked to it, some time ago or now.
LEMMA HubFits ==
  ASSUME NEW c \in Catalog, NEW q, ValidQuestion(q), NEW v, NEW s, UpToDate(s, c, q, v),
         NEW h, HubAllowed(q, h), NEW items, \A e \in items : <<h, e>> \in c.links,
         NEW names \in SUBSET DOMAIN Letters
  PROVE  LET found == HubRows(c, q, items, names)
         IN  /\ found \in Seq(SearchRow) /\ Fits(found, s)
             /\ Len(found) # RowLimit => \A d \in s.always : d[1] \in items => d[1] \in ItemsOf(found)
<1> DEFINE found == HubRows(c, q, items, names)
<1>1. /\ found \in Seq(SearchRow)
      /\ \A p \in Shown(found) : /\ p[1] \in items /\ Selectable(c, q, p[1])
                                 /\ \E x \in OuterJoined(c) : p[1] = x[1] /\ p[2] = TextOf(c, x)
      /\ Len(found) # RowLimit =>
           \A e \in c.items \cap items : Selectable(c, q, e) /\ c.chunks[e] # <<>> => e \in ItemsOf(found)
  BY HubRowsAre
<1> HIDE DEF found
<1>2. Fits(found, s)
  <2>1. \A p \in Shown(found) : InScope(c, q, p[1])
    BY <1>1, ScopeIs
  <2> QED
    BY <1>1, <2>1, FoundFits
<1>3. ASSUME Len(found) # RowLimit, NEW d \in s.always, d[1] \in items
      PROVE  d[1] \in ItemsOf(found)
  <2>1. d \in Due(c, q, v)
    BY DEF UpToDate
  <2>2. d[1] \in c.items /\ InScope(c, q, d[1]) /\ c.chunks[d[1]] # <<>>
    BY <1>3, <2>1, DueIs
  <2>3. Selectable(c, q, d[1])
    BY <2>2, ScopeIs
  <2> QED
    BY <1>1, <1>3, <2>2, <2>3
<1> QED
  BY <1>1, <1>2, <1>3 DEF found

LEMMA QueryIsFinite ==
  ASSUME NEW q \in Questions
  PROVE  IsFiniteSet(Elements(q.query))
<1>1. q.query \in Seq(DOMAIN Letters)
  BY QuestionsAssumption
<1>2. PICK n \in Nat : DOMAIN q.query = 1 .. n
  BY <1>1
<1>3. IsFiniteSet(DOMAIN q.query)
  <2>1. 1 \in Int /\ n \in Int
    OBVIOUS
  <2>2. IsFiniteSet(1 .. n)
    BY <2>1, FS_Interval
  <2> QED
    BY <1>2, <2>2
<1> DEFINE f == q.query
           T == Elements(f)
<1>4. f \in [DOMAIN f -> T]
  <2>1. f = [i \in DOMAIN f |-> f[i]]
    BY <1>1
  <2>2. \A i \in DOMAIN f : f[i] \in T
    BY DEF Elements
  <2> QED
    BY <2>1, <2>2
<1>5. \A t \in T : \E i \in DOMAIN f : f[i] = t
  BY DEF Elements
<1>6. f \in Surjection(DOMAIN f, T)
  BY <1>4, <1>5 DEF Surjection
<1> QED
  BY <1>3, <1>6, FS_Surjection

\* What is answered of the rows.
LEMMA AnswerIs ==
  ASSUME NEW q \in Questions, NEW s, NEW rows, Fits(rows, s)
  PROVE  LET found == {Evidence(rows, q)[i].item : i \in DOMAIN Evidence(rows, q)}
         IN  /\ found \subseteq s.ever
             /\ Len(Evidence(rows, q)) < q.limit =>
                  \A d \in s.always : d[1] \in ItemsOf(rows) => d[1] \in found
<1> DEFINE evidence == Evidence(rows, q)
           found == {evidence[i].item : i \in DOMAIN evidence}
<1>1. rows \in Seq(SearchRow) /\ IsFiniteSet(Elements(q.query)) /\ q.limit \in Nat
  BY QuestionsAssumption, QueryIsFinite DEF Fits
<1>2. /\ ItemsOf(evidence) \subseteq ItemsOf(rows)
      /\ Len(evidence) < q.limit => \A p \in Shown(rows) : p[2] # {} => p[1] \in ItemsOf(evidence)
  BY <1>1, EvidenceIs
<1> HIDE DEF evidence
<1>3. found = ItemsOf(evidence)
  BY DEF ItemsOf, Elements
<1>4. \A e \in ItemsOf(rows) : \E p \in Shown(rows) : p[1] = e
  <2>1. \A r \in Elements(rows) : <<r.item, r.words>> \in Shown(rows) /\ <<r.item, r.words>>[1] = r.item
    BY DEF Shown
  <2> QED
    BY <2>1 DEF ItemsOf
<1>5. found \subseteq s.ever
  BY <1>2, <1>3, <1>4 DEF Fits
<1>6. ASSUME Len(evidence) < q.limit, NEW d \in s.always, d[1] \in ItemsOf(rows)
      PROVE  d[1] \in found
  <2>1. PICK p \in Shown(rows) : p[1] = d[1]
    BY <1>4, <1>6
  <2>2. p[2] # {}
    BY <2>1 DEF Fits
  <2> QED
    BY <1>2, <1>3, <1>6, <2>1, <2>2
<1> QED
  BY <1>5, <1>6 DEF evidence

-----------------------------------------------------------------------------
(* The tables while others commit.                                         *)

LEMMA TopicFields ==
  ASSUME NEW t \in Topic
  PROVE  /\ t.aliases \in SUBSET DOMAIN Letters /\ t.related \in SUBSET DOMAIN Letters
         /\ \A title \in DOMAIN Letters, active \in BOOLEAN :
              [t EXCEPT !.title = title, !.active = active] \in Topic
BY DEF Topic

LEMMA OthersKeepTypes ==
  ASSUME catalog \in Catalog, OthersCommit
  PROVE  catalog' \in Catalog /\ catalog.links \subseteq catalog'.links
<1> DEFINE items == catalog.items
           type == catalog.type
           chunks == catalog.chunks
           links == catalog.links
           topics == catalog.topics
           Stored == Seq(StoredChunk)
           Types == Memories \cup {"NULL"}
<1>1. /\ items \subseteq Entries /\ chunks \in [Entries -> Stored] /\ type \in [Entries -> Types]
      /\ links \subseteq Topics \X Entries /\ topics \in [Topics -> Topic]
      /\ catalog = [items |-> items, type |-> type, chunks |-> chunks, links |-> links, topics |-> topics]
  BY DEF Catalog
<1>2. Catalog = [items : SUBSET Entries, type : [Entries -> Types], chunks : [Entries -> Stored],
                 links : SUBSET (Topics \X Entries), topics : [Topics -> Topic]]
  BY DEF Catalog
<1>3. ASSUME NEW e \in Entries, EntrySaved(e)
      PROVE  catalog' \in Catalog /\ catalog.links \subseteq catalog'.links
  <2>1. catalog' = [catalog EXCEPT !.items = catalog.items \cup {e}]
    BY <1>3 DEF EntrySaved, Meanwhile
  <2>2. items \cup {e} \in SUBSET Entries
    BY <1>1
  <2>3. catalog' = [items |-> items \cup {e}, type |-> type, chunks |-> chunks, links |-> links, topics |-> topics]
    BY <1>1, <2>1
  <2> HIDE DEF items, type, chunks, links, topics, Stored, Types
  <2> QED
    BY <1>1, <1>2, <2>2, <2>3 DEF links
<1>4. ASSUME NEW e \in Entries, NEW more \in NewChunks, ChunksStored(e, more)
      PROVE  catalog' \in Catalog /\ catalog.links \subseteq catalog'.links
  <2> DEFINE new == [chunks EXCEPT ![e] = more]
  <2>1. catalog' = [catalog EXCEPT !.chunks[e] = more]
    BY <1>4 DEF ChunksStored, Meanwhile
  <2>2. more \in Stored
    BY CatalogsAssumption
  <2>3. catalog' = [items |-> items, type |-> type, chunks |-> new, links |-> links, topics |-> topics]
    BY <1>1, <2>1
  <2> HIDE DEF items, type, chunks, links, topics, Stored, Types
  <2>4. new \in [Entries -> Stored]
    BY <1>1, <2>2
  <2> HIDE DEF new
  <2> QED
    BY <1>1, <1>2, <2>3, <2>4 DEF links
<1>5. ASSUME NEW e \in Entries, NEW kind \in Memories, EntryClassified(e, kind)
      PROVE  catalog' \in Catalog /\ catalog.links \subseteq catalog'.links
  <2> DEFINE new == [type EXCEPT ![e] = kind]
  <2>1. catalog' = [catalog EXCEPT !.type[e] = kind]
    BY <1>5 DEF EntryClassified, Meanwhile
  <2>2. kind \in Types
    OBVIOUS
  <2>3. catalog' = [items |-> items, type |-> new, chunks |-> chunks, links |-> links, topics |-> topics]
    BY <1>1, <2>1
  <2> HIDE DEF items, type, chunks, links, topics, Stored, Types
  <2>4. new \in [Entries -> Types]
    BY <1>1, <2>2
  <2> HIDE DEF new
  <2> QED
    BY <1>1, <1>2, <2>3, <2>4 DEF links
<1>6. ASSUME NEW e \in Entries, NEW k \in 1 .. 2, NEW distance \in Distances, ChunkEmbedded(e, k, distance)
      PROVE  catalog' \in Catalog /\ catalog.links \subseteq catalog'.links
  <2> DEFINE one == [chunks[e][k] EXCEPT !.distance = distance]
             body == [chunks[e] EXCEPT ![k] = one]
             new == [chunks EXCEPT ![e] = body]
  <2>1. catalog' = [catalog EXCEPT !.chunks[e][k].distance = distance] /\ <<e, k>> \in Chunked(catalog)
    BY <1>6 DEF ChunkEmbedded, Meanwhile
  <2>2. k \in DOMAIN chunks[e] /\ chunks[e] \in Stored
    BY <1>1, <2>1, ChunkedIs
  <2>3. one \in StoredChunk
    <3>1. distance \in Nat
      BY CatalogsAssumption
    <3>2. chunks[e][k] \in StoredChunk
      BY <2>2
    <3> HIDE DEF chunks
    <3> QED
      BY <3>1, <3>2 DEF StoredChunk
  <2>4. catalog' = [items |-> items, type |-> type, chunks |-> new, links |-> links, topics |-> topics]
    <3>2. catalog' = [catalog EXCEPT !.chunks = new]
      <4>1. [catalog EXCEPT !.chunks[e][k].distance = distance] = [catalog EXCEPT !.chunks = new]
        BY Zenon
      <4> QED
        BY <2>1, <4>1, Zenon
    <3> HIDE DEF new
    <3> QED
      BY <1>1, <3>2
  <2> HIDE DEF items, type, chunks, links, topics, Types, one
  <2>5. body \in Stored
    BY <2>2, <2>3
  <2> HIDE DEF body, Stored
  <2>6. new \in [Entries -> Stored]
    BY <1>1, <2>5
  <2> HIDE DEF new
  <2> QED
    BY <1>1, <1>2, <2>4, <2>6 DEF links
<1>7. ASSUME NEW e \in Entries, NEW h \in Topics, EntryLinked(h, e)
      PROVE  catalog' \in Catalog /\ catalog.links \subseteq catalog'.links
  <2>1. catalog' = [catalog EXCEPT !.links = catalog.links \cup {<<h, e>>}]
    BY <1>7 DEF EntryLinked, Meanwhile
  <2>2. links \cup {<<h, e>>} \in SUBSET (Topics \X Entries)
    BY <1>1
  <2>3. catalog' = [items |-> items, type |-> type, chunks |-> chunks, links |-> links \cup {<<h, e>>}, topics |-> topics]
    BY <1>1, <2>1
  <2> HIDE DEF items, type, chunks, links, topics, Stored, Types
  <2> QED
    BY <1>1, <1>2, <2>2, <2>3 DEF links
<1>8. ASSUME NEW h \in Topics, NEW title \in DOMAIN Letters, NEW active \in BOOLEAN, TopicUpdated(h, title, active)
      PROVE  catalog' \in Catalog /\ catalog.links \subseteq catalog'.links
  <2> DEFINE one == [topics[h] EXCEPT !.title = title, !.active = active]
             new == [topics EXCEPT ![h] = one]
  <2>1. catalog' = [catalog EXCEPT !.topics[h].title = title, !.topics[h].active = active]
    BY <1>8 DEF TopicUpdated, Meanwhile
  <2>2. one \in Topic
    BY <1>1, TopicFields
  <2>3. catalog' = [items |-> items, type |-> type, chunks |-> chunks, links |-> links, topics |-> new]
    <3> DEFINE half == [catalog EXCEPT !.topics[h].title = title]
               named == [topics EXCEPT ![h] = [topics[h] EXCEPT !.title = title]]
    <3>1. half = [items |-> items, type |-> type, chunks |-> chunks, links |-> links, topics |-> named]
      <4>1. half = [catalog EXCEPT !.topics = named]
        BY Zenon
      <4> HIDE DEF half, named
      <4> QED
        BY <1>1, <4>1
    <3>2. catalog' = [half EXCEPT !.topics[h].active = active]
      BY <2>1
    <3>3. [named EXCEPT ![h].active = active] = new
      BY <1>1
    <3> HIDE DEF half, named, new
    <3> QED
      BY <3>1, <3>2, <3>3
  <2> HIDE DEF items, type, chunks, links, topics, Stored, Types, one
  <2>4. new \in [Topics -> Topic]
    BY <1>1, <2>2
  <2> HIDE DEF new
  <2> QED
    BY <1>1, <1>2, <2>3, <2>4 DEF links
<1> QED
  BY <1>3, <1>4, <1>5, <1>6, <1>7, <1>8 DEF OthersCommit

-----------------------------------------------------------------------------
(* The invariant of a search.                                              *)

SearchFields ==
  {"step", "q", "vector", "terms", "asked", "rows", "hub", "items", "cut", "evidence"}
FirstWay == IF search.vector THEN "vector" ELSE "words"

\* Until a LIMIT is reached, no item is missing that was due by a way already gone.
NothingMissing ==
  ~search.cut =>
    /\ search.step # "primary" => Finds(search.rows, scoped, FirstWay)
    /\ search.step \in {"hub", "links", "linked"} =>
         \A d \in scoped.always : d \in HubWays(scoped) \/ d[1] \in ItemsOf(search.rows)

\* The hub by which items are due is still to be asked for, or it is the one that was found.
OnTheWay ==
  /\ search.step = "alongside" => search.asked = 0
  /\ search.step = "hub" => search.asked \in 0 .. 4 /\ \A d \in HubWays(scoped) : search.asked < d[3]
  /\ search.step \in {"links", "linked"} =>
       /\ HubAllowed(search.q, search.hub.id) /\ search.hub.names \in SUBSET DOMAIN Letters
       /\ \A d \in HubWays(scoped) : d[2] = search.hub.id
  /\ search.step = "linked" =>
       /\ \A e \in search.items : <<search.hub.id, e>> \in catalog.links
       /\ \A d \in HubWays(scoped) : d[1] \in search.items

UnderWay ==
  /\ search.q \in Questions /\ ValidQuestion(search.q)
  /\ UpToDate(scoped, catalog, search.q, search.vector)
  /\ Fits(search.rows, scoped)
  /\ NothingMissing /\ OnTheWay

RetrievalInv ==
  /\ catalog \in Catalog /\ DOMAIN search = SearchFields
  /\ search.step \notin {"idle", "answered"} => UnderWay
  /\ AnswersItsScope

LEMMA RetrievalStarts == RetrievalInit => RetrievalInv
BY CatalogsAssumption DEF RetrievalInit, RetrievalInv, AnswersItsScope, NoSearch, SearchFields

\* Items due by the vector are due in a search that has one.
LEMMA WaysAre ==
  ASSUME RetrievalInv, UnderWay
  PROVE  /\ \A d \in scoped.always : \/ d \in HubWays(scoped) \/ d[2] = "words"
                                     \/ d[2] = "vector" /\ search.vector
         /\ \A d \in HubWays(scoped) : HubLeads(catalog, search.q, d) /\ d[3] \in 1 .. 5 /\ d[1] \in catalog.items \ Foreign
<1>1. ASSUME NEW d \in scoped.always
      PROVE  /\ d[2] = "vector" => search.vector
             /\ d[3] \in 1 .. 5 /\ d[1] \in catalog.items \ Foreign
             /\ d[2] \notin {"words", "vector"} => HubLeads(catalog, search.q, d)
  <2>1. d \in Due(catalog, search.q, search.vector)
    BY DEF UnderWay, UpToDate
  <2>2. InScope(catalog, search.q, d[1])
    BY <2>1, DueIs DEF RetrievalInv, UnderWay
  <2> QED
    BY <2>1, <2>2, DueIs DEF RetrievalInv, UnderWay, InScope, Selectable
<1> QED
  BY <1>1 DEF HubWays

LEMMA OthersKeepSearch ==
  ASSUME RetrievalInv, OthersCommit
  PROVE  RetrievalInv'
<1>1. catalog' \in Catalog /\ catalog.links \subseteq catalog'.links
  BY OthersKeepTypes DEF RetrievalInv
<1>2. /\ search.step \notin {"idle", "answered"} /\ search' = search
      /\ scoped' = [always |-> scoped.always \cap Due(catalog', search.q, search.vector),
                    ever |-> scoped.ever \cup WithinScope(catalog', search.q)]
  BY DEF OthersCommit, Meanwhile, EntrySaved, ChunksStored, EntryClassified, ChunkEmbedded, EntryLinked, TopicUpdated
<1>3. UnderWay
  BY <1>2 DEF RetrievalInv
<1>4. /\ scoped'.always \subseteq scoped.always /\ scoped.ever \subseteq scoped'.ever
      /\ scoped'.always \subseteq Due(catalog', search.q, search.vector)
      /\ WithinScope(catalog', search.q) \subseteq scoped'.ever
  BY <1>2
<1>5. HubWays(scoped') \subseteq HubWays(scoped)
  BY <1>4 DEF HubWays
<1>6. UpToDate(scoped', catalog', search'.q, search'.vector)
  BY <1>2, <1>4 DEF UpToDate
<1>7. Fits(search'.rows, scoped')
  BY <1>2, <1>3, <1>4 DEF Fits, UnderWay
<1>8. NothingMissing'
  <2>1. \A way : Finds(search.rows, scoped, way) => Finds(search.rows, scoped', way)
    BY <1>4 DEF Finds
  <2>2. \A d \in scoped'.always : d \in HubWays(scoped) => d \in HubWays(scoped')
    BY DEF HubWays
  <2>3. NothingMissing
    BY <1>3 DEF UnderWay
  <2> QED
    BY <1>2, <1>4, <2>1, <2>2, <2>3 DEF NothingMissing, FirstWay
<1>9. OnTheWay'
  BY <1>1, <1>2, <1>3, <1>5 DEF UnderWay, OnTheWay
<1>10. UnderWay'
  BY <1>2, <1>3, <1>6, <1>7, <1>8, <1>9 DEF UnderWay
<1>11. AnswersItsScope'
  BY <1>2 DEF AnswersItsScope
<1> QED
  BY <1>1, <1>2, <1>10, <1>11 DEF RetrievalInv

LEMMA BeginsInScope ==
  ASSUME RetrievalInv, BeginSearch
  PROVE  RetrievalInv'
<1>1. PICK q \in Questions, vector \in BOOLEAN, terms \in UNION {GraphTerms(p) : p \in Questions} :
        /\ ValidQuestion(q)
        /\ search' = [NoSearch EXCEPT !.step = "primary", !.q = q, !.vector = vector, !.terms = terms]
        /\ scoped' = [always |-> Due(catalog, q, vector), ever |-> WithinScope(catalog, q)]
        /\ catalog' = catalog
  BY DEF BeginSearch
<1>2. /\ search'.step = "primary" /\ search'.q = q /\ search'.vector = vector /\ search'.rows = <<>>
      /\ DOMAIN search' = SearchFields
  BY <1>1 DEF NoSearch, SearchFields
<1>3. UpToDate(scoped', catalog', search'.q, search'.vector)
  BY <1>1, <1>2 DEF UpToDate
<1>4. UnderWay'
  BY <1>1, <1>2, <1>3, NothingFits DEF UnderWay, NothingMissing, OnTheWay
<1>5. AnswersItsScope'
  BY <1>2 DEF AnswersItsScope
<1> QED
  BY <1>1, <1>2, <1>4, <1>5 DEF RetrievalInv

\* After hybrid_search.
LEMMA MergedInScope ==
  ASSUME RetrievalInv, UnderWay, catalog' = catalog, scoped' = scoped,
         NEW rows, NEW cut, Merge(rows, cut), Fits(rows, scoped), ~cut => Finds(rows, scoped, FirstWay)
  PROVE  RetrievalInv'
<1> DEFINE step == IF search.vector THEN "alongside" ELSE "hub"
           ranked == Reranked(rows)
<1>1. /\ search' = [search EXCEPT !.rows = ranked, !.cut = cut, !.step = step, !.asked = 0]
      /\ DOMAIN search = SearchFields
  BY DEF Merge, RetrievalInv
<1>2. ranked \in Seq(SearchRow) /\ Shown(ranked) = Shown(rows) /\ ItemsOf(ranked) = ItemsOf(rows)
  <2>1. ranked \in Seq(SearchRow) /\ Shown(ranked) = Shown(rows)
    BY RerankedIs DEF Fits
  <2> HIDE DEF ranked
  <2>2. ItemsOf(ranked) \subseteq ItemsOf(rows) /\ ItemsOf(rows) \subseteq ItemsOf(ranked)
    BY <2>1, ShownItems
  <2> QED
    BY <2>1, <2>2
<1> HIDE DEF ranked, step
<1>3. /\ search'.rows = ranked /\ search'.cut = cut /\ search'.step = step /\ search'.asked = 0
      /\ search'.q = search.q /\ search'.vector = search.vector /\ DOMAIN search' = SearchFields
  BY <1>1 DEF SearchFields
<1>4. Fits(ranked, scoped) /\ \A way : Finds(rows, scoped, way) => Finds(ranked, scoped, way)
  BY <1>2 DEF Fits, Finds
<1>5. step \in {"alongside", "hub"} /\ (step = "hub" => ~search.vector)
  BY DEF step
<1>6. NothingMissing'
  <2>1. ~cut /\ step = "hub" => \A d \in scoped.always : d \in HubWays(scoped) \/ d[1] \in ItemsOf(ranked)
    BY <1>4, <1>5, WaysAre DEF Finds, FirstWay
  <2> QED
    BY <1>3, <1>4, <1>5, <2>1 DEF NothingMissing, FirstWay
<1>7. OnTheWay'
  BY <1>3, <1>5, WaysAre DEF OnTheWay
<1>8. UnderWay'
  BY <1>3, <1>4, <1>6, <1>7 DEF UnderWay
<1>9. AnswersItsScope'
  BY <1>3, <1>5 DEF AnswersItsScope
<1> QED
  BY <1>3, <1>8, <1>9 DEF RetrievalInv

LEMMA RespondsInScope ==
  ASSUME RetrievalInv, UnderWay, catalog' = catalog, scoped' = scoped,
         NEW rows, NEW cut, Respond(rows, cut), Fits(rows, scoped),
         ~cut => \A d \in scoped.always : d[1] \in ItemsOf(rows)
  PROVE  RetrievalInv'
<1> DEFINE evidence == Evidence(rows, search.q)
<1>1. /\ search' = [search EXCEPT !.step = "answered", !.rows = rows, !.cut = cut, !.evidence = evidence]
      /\ DOMAIN search = SearchFields
  BY DEF Respond, RetrievalInv
<1>2. /\ {evidence[i].item : i \in DOMAIN evidence} \subseteq scoped.ever
      /\ Len(evidence) < search.q.limit =>
           \A d \in scoped.always : d[1] \in ItemsOf(rows) => d[1] \in {evidence[i].item : i \in DOMAIN evidence}
  BY AnswerIs DEF UnderWay
<1> HIDE DEF evidence
<1>3. /\ search'.step = "answered" /\ search'.cut = cut /\ search'.evidence = evidence
      /\ search'.q = search.q /\ DOMAIN search' = SearchFields
  BY <1>1 DEF SearchFields
<1>4. AnswersItsScope'
  BY <1>2, <1>3 DEF AnswersItsScope
<1> QED
  BY <1>3, <1>4 DEF RetrievalInv

\* What a SELECT of the first kind brings.
LEMMA VectorSearchIs ==
  ASSUME RetrievalInv, UnderWay, NEW query, IsFiniteSet(DOMAIN query)
  PROVE  LET found == VectorSearch(query)
         IN  /\ found \in Seq(SearchRow) /\ Fits(found, scoped)
             /\ query = search.q.query /\ Len(found) # RowLimit => Finds(found, scoped, FirstWay)
<1>1. /\ catalog \in Catalog /\ ValidQuestion(search.q)
      /\ UpToDate(scoped, catalog, search.q, search.vector)
  BY DEF RetrievalInv, UnderWay
<1>2. CASE search.vector
  <2>1. VectorSearch(query) = Nearest(catalog, search.q) /\ FirstWay = "vector"
    BY <1>2 DEF VectorSearch, FirstWay
  <2> QED
    BY <1>1, <2>1, NearestFits
<1>3. CASE ~search.vector
  <2>1. VectorSearch(query) = Lexical(catalog, search.q, query) /\ FirstWay = "words"
    BY <1>3 DEF VectorSearch, FirstWay
  <2> QED
    BY <1>1, <2>1, LexicalFits
<1> QED
  BY <1>2, <1>3

LEMMA QueriesAreFinite ==
  ASSUME UnderWay
  PROVE  IsFiniteSet(DOMAIN Query) /\ \A w : IsFiniteSet(DOMAIN Append(Query, w))
<1>1. Query \in Seq(DOMAIN Letters)
  BY QuestionsAssumption DEF UnderWay, Query
<1>2. DOMAIN Query = 1 .. Len(Query) /\ Len(Query) \in Nat
  BY <1>1
<1>3. ASSUME NEW w
      PROVE  IsFiniteSet(DOMAIN Append(Query, w))
  <2>1. DOMAIN Append(Query, w) = 1 .. Len(Query) + 1
    BY <1>1, <1>2
  <2> QED
    BY <1>2, <2>1, FS_Interval
<1> QED
  BY <1>2, <1>3, FS_Interval

\* A search that goes on after a SELECT with the rows it has.
LEMMA GoesOnInScope ==
  ASSUME RetrievalInv, UnderWay, catalog' = catalog, scoped' = scoped,
         DOMAIN search' = SearchFields, search'.q = search.q, search'.vector = search.vector,
         Fits(search'.rows, scoped), search'.step \in {"rescue", "fill"},
         ~search'.cut => Finds(search'.rows, scoped, FirstWay)
  PROVE  RetrievalInv'
<1>1. UnderWay'
  BY DEF UnderWay, NothingMissing, OnTheWay, FirstWay
<1>2. AnswersItsScope'
  BY DEF AnswersItsScope
<1> QED
  BY <1>1, <1>2 DEF RetrievalInv

LEMMA PrimaryInScope ==
  ASSUME RetrievalInv, SearchPrimary
  PROVE  RetrievalInv'
<1> DEFINE found == VectorSearch(Query)
           rows == AddResults(<<>>, found, NewTerms, FALSE)
           next == IF rows = <<>> THEN "rescue" ELSE "fill"
           cut == Full(found)
<1>1. UnderWay /\ catalog' = catalog /\ scoped' = scoped /\ DOMAIN search = SearchFields
  BY DEF SearchPrimary, RetrievalInv
<1>2. /\ found \in Seq(SearchRow) /\ Fits(found, scoped)
      /\ ~cut => Finds(found, scoped, FirstWay)
  BY <1>1, QueriesAreFinite, VectorSearchIs DEF Query, Full
<1>3. \/ Merge(rows, cut)
      \/ search' = [search EXCEPT !.rows = rows, !.cut = cut, !.step = next]
  BY DEF SearchPrimary
<1> HIDE DEF found, cut
<1>4. /\ rows \in Seq(SearchRow) /\ Shown(rows) \subseteq Shown(<<>>) \cup Shown(found)
      /\ ItemsOf(found) \subseteq ItemsOf(rows)
  BY <1>2, NothingFits, AddResultsIs
<1> HIDE DEF rows
<1>5. Fits(rows, scoped) /\ (~cut => Finds(rows, scoped, FirstWay))
  BY <1>2, <1>4, NothingFits, TogetherFits, StillFinds
<1>6. CASE Merge(rows, cut)
  BY <1>1, <1>5, <1>6, MergedInScope
<1>7. CASE search' = [search EXCEPT !.rows = rows, !.cut = cut, !.step = next]
  <2>1. next \in {"rescue", "fill"}
    OBVIOUS
  <2> HIDE DEF next
  <2>2. /\ search'.rows = rows /\ search'.cut = cut /\ search'.step = next
        /\ search'.q = search.q /\ search'.vector = search.vector /\ DOMAIN search' = SearchFields
    BY <1>1, <1>7 DEF SearchFields
  <2> QED
    BY <1>1, <1>5, <2>1, <2>2, GoesOnInScope
<1> QED
  BY <1>3, <1>6, <1>7

LEMMA RescueInScope ==
  ASSUME RetrievalInv, Rescue
  PROVE  RetrievalInv'
<1> DEFINE n == search.asked + 1
           found == VectorSearch(Append(Query, search.terms[n]))
           rows == AddResults(search.rows, found, NewTerms, TRUE)
           cut == Full(found)
<1>1. /\ UnderWay /\ catalog' = catalog /\ scoped' = scoped /\ DOMAIN search = SearchFields
      /\ search.step = "rescue"
  BY DEF Rescue, RetrievalInv
<1>2. found \in Seq(SearchRow) /\ Fits(found, scoped)
  BY <1>1, QueriesAreFinite, VectorSearchIs
<1>3. \/ Merge(rows, cut)
      \/ search' = [search EXCEPT !.rows = rows, !.cut = cut, !.asked = n]
  BY DEF Rescue
<1>4. ~cut => ~search.cut
  BY DEF Full
<1> HIDE DEF found, cut, n
<1>5. Fits(search.rows, scoped) /\ search.rows \in Seq(SearchRow) /\ (~cut => Finds(search.rows, scoped, FirstWay))
  BY <1>1, <1>4 DEF UnderWay, NothingMissing, Fits
<1>6. /\ rows \in Seq(SearchRow) /\ Shown(search.rows) \subseteq Shown(rows)
      /\ Shown(rows) \subseteq Shown(search.rows) \cup Shown(found)
  BY <1>2, <1>5, AddResultsIs
<1> HIDE DEF rows
<1>7. Fits(rows, scoped) /\ (~cut => Finds(rows, scoped, FirstWay))
  BY <1>2, <1>5, <1>6, TogetherFits, ShownItems, StillFinds
<1>8. CASE Merge(rows, cut)
  BY <1>1, <1>7, <1>8, MergedInScope
<1>9. CASE search' = [search EXCEPT !.rows = rows, !.cut = cut, !.asked = n]
  <2>1. /\ search'.rows = rows /\ search'.cut = cut /\ search'.step = "rescue"
        /\ search'.q = search.q /\ search'.vector = search.vector /\ DOMAIN search' = SearchFields
    BY <1>1, <1>9 DEF SearchFields
  <2> QED
    BY <1>1, <1>7, <2>1, GoesOnInScope
<1> QED
  BY <1>3, <1>8, <1>9

LEMMA FillInScope ==
  ASSUME RetrievalInv, FillShortage
  PROVE  RetrievalInv'
<1> DEFINE n == search.asked + 1
           found == VectorSearch(Append(Query, search.terms[n]))
           rows == Admit(search.rows, found, NewTerms)
           cut == Full(found)
<1>1. /\ UnderWay /\ catalog' = catalog /\ scoped' = scoped /\ DOMAIN search = SearchFields
      /\ search.step = "fill"
  BY DEF FillShortage, RetrievalInv
<1>2. found \in Seq(SearchRow) /\ Fits(found, scoped)
  BY <1>1, QueriesAreFinite, VectorSearchIs
<1>3. \/ Merge(rows, cut)
      \/ search' = [search EXCEPT !.rows = rows, !.cut = cut, !.asked = n]
  BY DEF FillShortage
<1>4. ~cut => ~search.cut
  BY DEF Full
<1> HIDE DEF found, cut, n
<1>5. Fits(search.rows, scoped) /\ search.rows \in Seq(SearchRow) /\ (~cut => Finds(search.rows, scoped, FirstWay))
  BY <1>1, <1>4 DEF UnderWay, NothingMissing, Fits
<1>6. /\ rows \in Seq(SearchRow) /\ Shown(search.rows) \subseteq Shown(rows)
      /\ Shown(rows) \subseteq Shown(search.rows) \cup Shown(found)
  BY <1>2, <1>5, AdmitIs
<1> HIDE DEF rows
<1>7. Fits(rows, scoped) /\ (~cut => Finds(rows, scoped, FirstWay))
  BY <1>2, <1>5, <1>6, TogetherFits, ShownItems, StillFinds
<1>8. CASE Merge(rows, cut)
  BY <1>1, <1>7, <1>8, MergedInScope
<1>9. CASE search' = [search EXCEPT !.rows = rows, !.cut = cut, !.asked = n]
  <2>1. /\ search'.rows = rows /\ search'.cut = cut /\ search'.step = "fill"
        /\ search'.q = search.q /\ search'.vector = search.vector /\ DOMAIN search' = SearchFields
    BY <1>1, <1>9 DEF SearchFields
  <2> QED
    BY <1>1, <1>7, <2>1, GoesOnInScope
<1> QED
  BY <1>3, <1>8, <1>9

LEMMA AlongsideInScope ==
  ASSUME RetrievalInv, SearchAlongside
  PROVE  RetrievalInv'
<1> DEFINE found == Lexical(catalog, search.q, Query)
           rows == AddNewItems(search.rows, found)
           cut == Full(found)
<1>1. /\ UnderWay /\ catalog' = catalog /\ scoped' = scoped /\ DOMAIN search = SearchFields
      /\ search.step = "alongside"
      /\ search' = [search EXCEPT !.rows = rows, !.cut = cut, !.step = "hub"]
  BY DEF SearchAlongside, RetrievalInv
<1>2. /\ found \in Seq(SearchRow) /\ Fits(found, scoped)
      /\ Query = search.q.query /\ Len(found) # RowLimit => Finds(found, scoped, "words")
  BY <1>1, QueriesAreFinite, LexicalFits DEF RetrievalInv, UnderWay
<1>3. ~cut => ~search.cut /\ Finds(found, scoped, "words")
  BY <1>2 DEF Full, Query
<1> HIDE DEF found, cut
<1>4. Fits(search.rows, scoped) /\ search.rows \in Seq(SearchRow) /\ (~cut => Finds(search.rows, scoped, FirstWay))
  BY <1>1, <1>3 DEF UnderWay, NothingMissing, Fits
<1>5. /\ rows \in Seq(SearchRow) /\ Shown(search.rows) \subseteq Shown(rows)
      /\ Shown(rows) \subseteq Shown(search.rows) \cup Shown(found)
      /\ ItemsOf(found) \subseteq ItemsOf(rows)
  BY <1>2, <1>4, AddNewItemsIs
<1> HIDE DEF rows
<1>6. Fits(rows, scoped) /\ (~cut => Finds(rows, scoped, FirstWay) /\ Finds(rows, scoped, "words"))
  BY <1>2, <1>3, <1>4, <1>5, TogetherFits, ShownItems, StillFinds
<1>7. /\ search'.rows = rows /\ search'.cut = cut /\ search'.step = "hub" /\ search'.asked = search.asked
      /\ search'.q = search.q /\ search'.vector = search.vector /\ DOMAIN search' = SearchFields
  BY <1>1 DEF SearchFields
<1>8. NothingMissing'
  <2>1. ~cut => \A d \in scoped.always : d \in HubWays(scoped) \/ d[1] \in ItemsOf(rows)
    BY <1>1, <1>6, WaysAre DEF Finds, FirstWay
  <2> QED
    BY <1>1, <1>6, <1>7, <2>1 DEF NothingMissing, FirstWay
<1>9. OnTheWay'
  BY <1>1, <1>7, WaysAre DEF OnTheWay, UnderWay
<1>10. UnderWay'
  BY <1>1, <1>6, <1>7, <1>8, <1>9 DEF UnderWay
<1>11. AnswersItsScope'
  BY <1>7 DEF AnswersItsScope
<1> QED
  BY <1>1, <1>7, <1>10, <1>11 DEF RetrievalInv

\* The ways by which match_query asks.
LEMMA MatchedAre ==
  ASSUME NEW c, NEW query, NEW n \in 1 .. 5
  PROVE  /\ MatchedTopics(c, query)[n] \subseteq Topics
         /\ MatchedTopics(c, query)[n] \subseteq UNION Elements(MatchedTopics(c, query))
<1> DEFINE ways == MatchedTopics(c, query)
<1>1. DOMAIN ways = 1 .. 5 /\ \A i \in 1 .. 5 : ways[i] \subseteq Topics
  BY DEF MatchedTopics
<1> HIDE DEF ways
<1>2. ways[n] \in Elements(ways)
  BY <1>1 DEF Elements
<1> QED
  BY <1>1, <1>2 DEF ways

LEMMA MatchInScope ==
  ASSUME RetrievalInv, MatchHub
  PROVE  RetrievalInv'
<1> DEFINE n == search.asked + 1
           matched == MatchedTopics(catalog, Query)[n]
           hub(h) == [id |-> h, names |-> catalog.topics[h].aliases \cup catalog.topics[h].related]
<1>1. /\ UnderWay /\ catalog' = catalog /\ scoped' = scoped /\ DOMAIN search = SearchFields
      /\ search.step = "hub" /\ catalog \in Catalog
  BY DEF MatchHub, RetrievalInv
<1>2. \/ matched = {} /\ n < 5 /\ search' = [search EXCEPT !.asked = n]
      \/ matched = {} /\ n = 5 /\ Respond(search.rows, search.cut)
      \/ \E h \in matched : IF HubAllowed(search.q, h)
                            THEN search' = [search EXCEPT !.step = "links", !.hub = hub(h)]
                            ELSE Respond(search.rows, search.cut)
  BY DEF MatchHub
<1>3. /\ n \in 1 .. 5 /\ search.asked \in 0 .. 4 /\ n = search.asked + 1
      /\ \A d \in HubWays(scoped) : search.asked < d[3]
  BY <1>1 DEF UnderWay, OnTheWay
<1>4. ASSUME NEW d \in HubWays(scoped)
      PROVE  /\ d[3] \in 1 .. 5 /\ d[2] \in MatchedTopics(catalog, Query)[d[3]]
             /\ UNION Elements(MatchedTopics(catalog, Query)) = {d[2]} /\ HubAllowed(search.q, d[2])
  BY <1>1, WaysAre DEF HubLeads, Query
<1>5. matched \subseteq Topics /\ matched \subseteq UNION Elements(MatchedTopics(catalog, Query))
  BY <1>3, MatchedAre
<1>6. ~search.cut => \A d \in scoped.always : d \in HubWays(scoped) \/ d[1] \in ItemsOf(search.rows)
  BY <1>1 DEF UnderWay, NothingMissing
<1>7. Fits(search.rows, scoped)
  BY <1>1 DEF UnderWay
<1>8. ASSUME matched = {}, NEW d \in HubWays(scoped)
      PROVE  n < d[3]
  <2>1. d[3] # n /\ d[3] \in 1 .. 5 /\ search.asked < d[3]
    BY <1>3, <1>4, <1>8
  <2> QED
    BY <1>3, <2>1
<1> HIDE DEF matched, n
<1>9. CASE matched = {} /\ n < 5 /\ search' = [search EXCEPT !.asked = n]
  <2>1. /\ search'.rows = search.rows /\ search'.cut = search.cut /\ search'.step = "hub" /\ search'.asked = n
        /\ search'.q = search.q /\ search'.vector = search.vector /\ DOMAIN search' = SearchFields
    BY <1>1, <1>9 DEF SearchFields
  <2>2. NothingMissing'
    BY <1>1, <2>1 DEF UnderWay, NothingMissing, FirstWay
  <2>3. OnTheWay'
    BY <1>1, <1>3, <1>8, <1>9, <2>1 DEF OnTheWay
  <2>4. UnderWay'
    BY <1>1, <2>1, <2>2, <2>3 DEF UnderWay
  <2>5. AnswersItsScope'
    BY <2>1 DEF AnswersItsScope
  <2> QED
    BY <1>1, <2>1, <2>4, <2>5 DEF RetrievalInv
<1>10. CASE matched = {} /\ n = 5 /\ Respond(search.rows, search.cut)
  <2>1. HubWays(scoped) = {}
    BY <1>3, <1>4, <1>8, <1>10
  <2> QED
    BY <1>1, <1>6, <1>7, <1>10, <2>1, RespondsInScope
<1>11. ASSUME NEW h \in matched,
              IF HubAllowed(search.q, h) THEN search' = [search EXCEPT !.step = "links", !.hub = hub(h)]
              ELSE Respond(search.rows, search.cut)
       PROVE  RetrievalInv'
  <2>1. \A d \in HubWays(scoped) : d[2] = h
    BY <1>4, <1>5
  <2>2. CASE ~HubAllowed(search.q, h)
    <3>1. HubWays(scoped) = {}
      BY <1>4, <2>1, <2>2
    <3> QED
      BY <1>1, <1>6, <1>7, <1>11, <2>2, <3>1, RespondsInScope
  <2>3. CASE HubAllowed(search.q, h)
    <3> DEFINE names == catalog.topics[h].aliases \cup catalog.topics[h].related
    <3>1. search' = [search EXCEPT !.step = "links", !.hub = [id |-> h, names |-> names]]
      BY <1>11, <2>3
    <3>2. names \in SUBSET DOMAIN Letters
      <4>1. catalog.topics[h] \in Topic
        BY <1>1, <1>5, CatalogFields
      <4> QED
        BY <4>1, TopicFields
    <3> HIDE DEF names
    <3>3. /\ search'.rows = search.rows /\ search'.cut = search.cut /\ search'.step = "links"
          /\ search'.hub.id = h /\ search'.hub.names = names
          /\ search'.q = search.q /\ search'.vector = search.vector /\ DOMAIN search' = SearchFields
      BY <1>1, <3>1 DEF SearchFields
    <3>4. NothingMissing'
      BY <1>1, <3>3 DEF UnderWay, NothingMissing, FirstWay
    <3>5. OnTheWay'
      BY <1>1, <2>1, <2>3, <3>2, <3>3 DEF OnTheWay
    <3>6. UnderWay'
      BY <1>1, <3>3, <3>4, <3>5 DEF UnderWay
    <3>7. AnswersItsScope'
      BY <3>3 DEF AnswersItsScope
    <3> QED
      BY <1>1, <3>3, <3>6, <3>7 DEF RetrievalInv
  <2> QED
    BY <2>2, <2>3
<1> QED
  BY <1>2, <1>9, <1>10, <1>11

LEMMA LinksInScope ==
  ASSUME RetrievalInv, ReadHubLinks
  PROVE  RetrievalInv'
<1> DEFINE items == {e \in catalog.items \ Foreign : <<search.hub.id, e>> \in catalog.links}
<1>1. /\ UnderWay /\ catalog' = catalog /\ scoped' = scoped /\ DOMAIN search = SearchFields
      /\ search.step = "links" /\ catalog \in Catalog
  BY DEF ReadHubLinks, RetrievalInv
<1>2. IF items = {} THEN Respond(search.rows, search.cut)
      ELSE search' = [search EXCEPT !.step = "linked", !.items = items]
  BY DEF ReadHubLinks
<1>3. /\ ~search.cut => \A d \in scoped.always : d \in HubWays(scoped) \/ d[1] \in ItemsOf(search.rows)
      /\ Fits(search.rows, scoped)
      /\ HubAllowed(search.q, search.hub.id) /\ search.hub.names \in SUBSET DOMAIN Letters
      /\ \A d \in HubWays(scoped) : d[2] = search.hub.id
  BY <1>1 DEF UnderWay, NothingMissing, OnTheWay
<1>4. ASSUME NEW d \in HubWays(scoped)
      PROVE  d[1] \in items
  <2>1. d[1] \in catalog.items \ Foreign /\ <<d[2], d[1]>> \in catalog.links
    BY <1>1, WaysAre DEF HubLeads
  <2> QED
    BY <1>3, <2>1
<1>5. \A e \in items : <<search.hub.id, e>> \in catalog.links
  OBVIOUS
<1> HIDE DEF items
<1>6. CASE items = {}
  <2>1. HubWays(scoped) = {} /\ Respond(search.rows, search.cut)
    BY <1>2, <1>4, <1>6
  <2> QED
    BY <1>1, <1>3, <2>1, RespondsInScope
<1>7. CASE items # {}
  <2>1. /\ search'.rows = search.rows /\ search'.cut = search.cut /\ search'.step = "linked"
        /\ search'.hub = search.hub /\ search'.items = items
        /\ search'.q = search.q /\ search'.vector = search.vector /\ DOMAIN search' = SearchFields
    BY <1>1, <1>2, <1>7 DEF SearchFields
  <2>2. NothingMissing'
    BY <1>1, <2>1 DEF UnderWay, NothingMissing, FirstWay
  <2>3. OnTheWay'
    BY <1>1, <1>3, <1>4, <1>5, <2>1 DEF OnTheWay
  <2>4. UnderWay'
    BY <1>1, <2>1, <2>2, <2>3 DEF UnderWay
  <2>5. AnswersItsScope'
    BY <2>1 DEF AnswersItsScope
  <2> QED
    BY <1>1, <2>1, <2>4, <2>5 DEF RetrievalInv
<1> QED
  BY <1>6, <1>7

LEMMA ItemsInScope ==
  ASSUME RetrievalInv, ReadHubItems
  PROVE  RetrievalInv'
<1> DEFINE found == HubRows(catalog, search.q, search.items, search.hub.names)
           rows == AddNewItems(search.rows, found)
           cut == Full(found)
<1>1. /\ UnderWay /\ catalog' = catalog /\ scoped' = scoped
      /\ search.step = "linked" /\ catalog \in Catalog /\ Respond(rows, cut)
  BY DEF ReadHubItems, RetrievalInv
<1>2. /\ ~search.cut => \A d \in scoped.always : d \in HubWays(scoped) \/ d[1] \in ItemsOf(search.rows)
      /\ Fits(search.rows, scoped)
      /\ HubAllowed(search.q, search.hub.id) /\ search.hub.names \in SUBSET DOMAIN Letters
      /\ \A e \in search.items : <<search.hub.id, e>> \in catalog.links
      /\ \A d \in HubWays(scoped) : d[1] \in search.items
      /\ ValidQuestion(search.q) /\ UpToDate(scoped, catalog, search.q, search.vector)
  BY <1>1 DEF UnderWay, NothingMissing, OnTheWay
<1>3. /\ found \in Seq(SearchRow) /\ Fits(found, scoped)
      /\ Len(found) # RowLimit => \A d \in scoped.always : d[1] \in search.items => d[1] \in ItemsOf(found)
  BY <1>1, <1>2, HubFits
<1>4. ~cut => ~search.cut /\ Len(found) # RowLimit
  BY DEF Full
<1> HIDE DEF found, cut
<1>5. search.rows \in Seq(SearchRow)
  BY <1>2 DEF Fits
<1>6. /\ rows \in Seq(SearchRow) /\ Shown(search.rows) \subseteq Shown(rows)
      /\ Shown(rows) \subseteq Shown(search.rows) \cup Shown(found)
      /\ ItemsOf(found) \subseteq ItemsOf(rows)
  BY <1>3, <1>5, AddNewItemsIs
<1> HIDE DEF rows
<1>7. Fits(rows, scoped) /\ ItemsOf(search.rows) \subseteq ItemsOf(rows)
  BY <1>2, <1>3, <1>6, TogetherFits, ShownItems
<1>8. ~cut => \A d \in scoped.always : d[1] \in ItemsOf(rows)
  BY <1>2, <1>3, <1>4, <1>6, <1>7
<1> QED
  BY <1>1, <1>7, <1>8, RespondsInScope

\* What a search answers was, at some moment of it, an item the caller's scope admits, and what one
\* way led to all the time is found by whichever of its SELECTs, unless a LIMIT was reached or the
\* answer is full; for any tables, any request and any commits of others between the SELECTs
\* (retrieval_adapter.py, hybrid_search.py, composite_ranker.py, evidence.py).
THEOREM SearchesKeepTheirScope == RetrievalSpec => []AnswersItsScope
<1>1. RetrievalInit => RetrievalInv
  BY RetrievalStarts
<1>2. RetrievalInv /\ [RetrievalNext]_retrievalVars => RetrievalInv'
  <2> SUFFICES ASSUME RetrievalInv, [RetrievalNext]_retrievalVars
               PROVE  RetrievalInv'
    OBVIOUS
  <2>1. CASE BeginSearch
    BY <2>1, BeginsInScope
  <2>2. CASE SearchPrimary
    BY <2>2, PrimaryInScope
  <2>3. CASE Rescue
    BY <2>3, RescueInScope
  <2>4. CASE FillShortage
    BY <2>4, FillInScope
  <2>5. CASE SearchAlongside
    BY <2>5, AlongsideInScope
  <2>6. CASE MatchHub
    BY <2>6, MatchInScope
  <2>7. CASE ReadHubLinks
    BY <2>7, LinksInScope
  <2>8. CASE ReadHubItems
    BY <2>8, ItemsInScope
  <2>9. CASE OthersCommit
    BY <2>9, OthersKeepSearch
  <2>10. CASE UNCHANGED retrievalVars
    <3>1. catalog' = catalog /\ search' = search /\ scoped' = scoped
      BY <2>10 DEF retrievalVars
    <3>2. UnderWay => UnderWay'
      BY <3>1 DEF UnderWay, NothingMissing, OnTheWay, FirstWay
    <3>3. AnswersItsScope'
      BY <3>1 DEF RetrievalInv, AnswersItsScope
    <3> QED
      BY <3>1, <3>2, <3>3 DEF RetrievalInv
  <2> QED
    BY <2>1, <2>2, <2>3, <2>4, <2>5, <2>6, <2>7, <2>8, <2>9, <2>10 DEF RetrievalNext
<1>3. RetrievalInv => AnswersItsScope
  BY DEF RetrievalInv
<1> QED
  BY <1>1, <1>2, <1>3, PTL DEF RetrievalSpec
============================================================================
