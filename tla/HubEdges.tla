------------------------------ MODULE HubEdges ------------------------------
(***************************************************************************)
(* graph/hub_edge_store.py, graph/edge_inference.py and the endpoints over *)
(* them: edges between hubs, put in by people and by runs of the inference *)
(* script, and the people's review of them.                                *)
(*                                                                         *)
(* What a person asks for is one statement, so one step; it waits while an *)
(* inference run holds an uncommitted row with the key it wants.  A run    *)
(* reads three tables one after the other, then inserts its proposals one  *)
(* by one in one transaction.  Confidence counts the steps above the base; *)
(* reasons, notes and the fixed workspace of a hub are left out.           *)
(***************************************************************************)
EXTENDS Naturals, Sequences, FiniteSets

CONSTANTS
  Hubs,          \* numbered in the order of their ids
  Types,         \* ALL_TYPES, or some of them
  Asked,         \* the statuses people ask for in POST and PATCH
  Items,         \* content items
  Mentions,      \* for each item, the hubs whose terms its topic tags name
  FirstLinks,    \* the hub links there are at first
  Runs,          \* processes of the inference script, each a run
  MinShared, MinCooccur, MaxProposals,   \* its options
  Cap,           \* steps from the base confidence to the highest
  MaxWrites      \* bound: what people write

ASSUME HubsAssumption == Hubs \subseteq Nat /\ IsFiniteSet(Hubs)
ASSUME TypesAssumption == "related" \in Types
Statuses == {"inferred", "manual", "approved", "rejected", "needs_review", "archived"}
ASSUME AskedAssumption == Asked \subseteq Statuses
ASSUME ItemsAssumption ==
  IsFiniteSet(Items) /\ Mentions \in [Items -> SUBSET Hubs] /\ FirstLinks \subseteq Hubs \X Items
ASSUME OptionsAssumption == {MinShared, MinCooccur, MaxProposals, Cap, MaxWrites} \subseteq Nat

VARIABLES
  edges,    \* the committed rows of cb_hub_edges, in the order of insertion
  links,    \* cb_hub_content
  active,   \* the hubs whose status is active
  run,      \* the runs' local variables
  writes    \* statements by which people changed something, for the bound

vars == <<edges, links, active, run, writes>>

KeyOf(a, b, t) == IF a <= b THEN <<a, b, t>> ELSE <<b, a, t>>
Pairs(H) == {p \in H \X H : p[1] < p[2]}
Keys == {<<p[1], p[2], t>> : p \in Pairs(Hubs), t \in Types}

Edge ==
  [source : Hubs, target : Hubs, type : Types, key : Keys, status : Statuses, archived : BOOLEAN]
NewEdge(a, b, t, s) ==
  [source |-> a, target |-> b, type |-> t, key |-> KeyOf(a, b, t), status |-> s,
   archived |-> FALSE]

\* The rows of the unique index on edge_key WHERE archived_at IS NULL.
Holders(k) == {i \in 1 .. Len(edges) : edges[i].key = k /\ ~edges[i].archived}

Proposal == [pair : Pairs(Hubs), confidence : 0 .. Cap]
ProposalKey(p) == <<p.pair[1], p.pair[2], "related">>

Run ==
  [step : {"idle", "hubs", "tags", "insert", "ended"},
   members : SUBSET (Hubs \X Items),   \* memberships read
   hubs : SUBSET Hubs,                 \* hubs read
   plan : SUBSET Proposal,             \* what it proposes
   todo : SUBSET Proposal,             \* of it, not yet inserted or skipped
   mine : Seq(Keys)]                   \* rows inserted, not committed

Idle ==
  [step |-> "idle", members |-> {}, hubs |-> {}, plan |-> {}, todo |-> {}, mine |-> <<>>]
Ended == [Idle EXCEPT !.step = "ended"]

Mine(r) == {run[r].mine[n] : n \in 1 .. Len(run[r].mine)}
Pending == UNION {Mine(r) : r \in Runs}

-----------------------------------------------------------------------------
(* What people do.  Both ends of an edge are checked to be two hubs of the *)
(* workspace, whatever their status.                                       *)

Write == writes < MaxWrites /\ writes' = writes + 1

CreateEdge(a, b, t, s) ==
  /\ a # b /\ KeyOf(a, b, t) \notin Pending
  /\ Holders(KeyOf(a, b, t)) = {}      \* else UniqueViolation, answered with 409
  /\ edges' = Append(edges, NewEdge(a, b, t, s))
  /\ Write
  /\ UNCHANGED <<links, active, run>>

\* PATCH: the type changes without the key, the status without archived_at.
UpdateEdge(i, t, s) ==
  /\ edges' = [edges EXCEPT ![i].type = t, ![i].status = s]
  /\ Write
  /\ UNCHANGED <<links, active, run>>

ArchiveEdge(i) ==
  /\ ~edges[i].archived
  /\ edges' = [edges EXCEPT ![i].archived = TRUE, ![i].status = "archived"]
  /\ Write
  /\ UNCHANGED <<links, active, run>>

\* approve and reject: INSERT ... ON CONFLICT (edge_key) WHERE archived_at IS NULL DO UPDATE.
ReviewEdge(a, b, t, s) ==
  LET k == KeyOf(a, b, t) IN
  /\ a # b /\ k \notin Pending
  /\ edges' = IF Holders(k) = {} THEN Append(edges, NewEdge(a, b, t, s))
              ELSE [i \in 1 .. Len(edges) |->
                      IF i \in Holders(k) THEN [edges[i] EXCEPT !.status = s] ELSE edges[i]]
  /\ Write
  /\ UNCHANGED <<links, active, run>>

LinkContent(h, c) ==
  /\ links' = links \cup {<<h, c>>}
  /\ Write
  /\ UNCHANGED <<edges, active, run>>

UpdateHub(h) ==      \* between active and archived
  /\ active' = IF h \in active THEN active \ {h} ELSE active \cup {h}
  /\ Write
  /\ UNCHANGED <<edges, links, run>>

People ==
  \/ \E a, b \in Hubs, t \in Types :
       \/ \E s \in Asked : CreateEdge(a, b, t, s)
       \/ \E s \in {"approved", "rejected"} : ReviewEdge(a, b, t, s)
  \/ \E i \in 1 .. Len(edges) :
       \/ \E s \in Asked \ {edges[i].status} : UpdateEdge(i, edges[i].type, s)
       \/ \E t \in Types \ {edges[i].type} : UpdateEdge(i, t, edges[i].status)
       \/ ArchiveEdge(i)
  \/ \E h \in Hubs : UpdateHub(h) \/ \E c \in Items : LinkContent(h, c)

-----------------------------------------------------------------------------
(* The inference: pairs of hubs with enough evidence, from either signal.  *)

AtLeastOne(n) == IF n = 0 THEN 1 ELSE n

Shared(p, members) ==
  Cardinality({c \in Items : <<p[1], c>> \in members /\ <<p[2], c>> \in members})
Cooccur(p, hubs) ==
  Cardinality({c \in Items : {p[1], p[2]} \subseteq Mentions[c] \cap hubs})

\* min(cap, base + step * (evidence - threshold)), counted in steps.
Scaled(evidence, threshold) == IF evidence - threshold > Cap THEN Cap ELSE evidence - threshold

FromMembership(members) ==
  {[pair |-> p, confidence |-> Scaled(Shared(p, members), MinShared)] :
     p \in {q \in Pairs(Hubs) : Shared(q, members) >= AtLeastOne(MinShared)}}
FromTags(hubs) ==
  {[pair |-> p, confidence |-> Scaled(Cooccur(p, hubs), MinCooccur)] :
     p \in {q \in Pairs(hubs) : Cooccur(q, hubs) >= AtLeastOne(MinCooccur)}}

Merged(P, Q) ==
  {p \in P \cup Q : \A q \in P \cup Q : q.pair = p.pair => q.confidence <= p.confidence}

Earlier(p, q) ==
  \/ p.confidence > q.confidence
  \/ /\ p.confidence = q.confidence
     /\ \/ p.pair[1] < q.pair[1]
        \/ p.pair[1] = q.pair[1] /\ p.pair[2] < q.pair[2]

\* Defect: the list is cut before it is sorted by confidence.
Plan_CutFirst(P) ==
  {p \in P : Cardinality({q \in P : Earlier([q EXCEPT !.confidence = p.confidence], p)})
               < MaxProposals}

\* merge_proposals sorts, run_edge_inference cuts.
Plan(P) == {p \in P : Cardinality({q \in P : Earlier(q, p)}) < MaxProposals}

Goto(r, rec) ==
  /\ run' = [run EXCEPT ![r] = rec]
  /\ UNCHANGED <<links, active, writes>>

FetchMemberships(r) ==
  /\ run[r].step = "idle"
  /\ Goto(r, [Idle EXCEPT !.step = "hubs",
                          !.members = {l \in links : l[1] \in active}])
  /\ UNCHANGED edges

FetchHubs(r) ==
  /\ run[r].step = "hubs"
  /\ Goto(r, [run[r] EXCEPT !.step = "tags", !.hubs = active])
  /\ UNCHANGED edges

FetchTaggedContents(r) ==
  LET plan == Plan(Merged(FromMembership(run[r].members), FromTags(run[r].hubs))) IN
  /\ run[r].step = "tags"
  /\ Goto(r, [run[r] EXCEPT !.step = "insert", !.plan = plan, !.todo = plan])
  /\ UNCHANGED edges

\* The proposal whose turn it is.
Turn(r, p) == p \in run[r].todo /\ \A q \in run[r].todo \ {p} : Earlier(p, q)

\* Somebody else's uncommitted row with the same key: the INSERT waits for its end.
WaitsFor(r, q) ==
  /\ run[r].step = "insert" /\ q # r
  /\ \E p \in run[r].todo : Turn(r, p) /\ ProposalKey(p) \in Mine(q)

\* Defect: an edge that was rejected does not count as existing.
InsertNext_IgnoreRejected(r) ==
  \E p \in run[r].todo :
    /\ run[r].step = "insert" /\ Turn(r, p)
    /\ \A q \in Runs \ {r} : ProposalKey(p) \notin Mine(q)
    /\ Goto(r, [run[r] EXCEPT !.todo = @ \ {p},
          !.mine = IF \A i \in Holders(ProposalKey(p)) : edges[i].status = "rejected"
                   THEN Append(@, ProposalKey(p)) ELSE @])
    /\ UNCHANGED edges

\* INSERT ... ON CONFLICT (edge_key) WHERE archived_at IS NULL DO NOTHING.
InsertNext(r) ==
  \E p \in run[r].todo :
    /\ run[r].step = "insert" /\ Turn(r, p)
    /\ \A q \in Runs \ {r} : ProposalKey(p) \notin Mine(q)
    /\ Goto(r, [run[r] EXCEPT !.todo = @ \ {p},
          !.mine = IF Holders(ProposalKey(p)) = {} THEN Append(@, ProposalKey(p)) ELSE @])
    /\ UNCHANGED edges

\* Defect: a run that has inserted nothing does not commit, and never ends.
CommitRun_NothingNew(r) ==
  /\ run[r].step = "insert" /\ run[r].todo = {} /\ run[r].mine # <<>>
  /\ Goto(r, Ended)
  /\ edges' = edges \o [n \in 1 .. Len(run[r].mine) |->
       NewEdge(run[r].mine[n][1], run[r].mine[n][2], "related", "inferred")]

CommitRun(r) ==
  /\ run[r].step = "insert" /\ run[r].todo = {}
  /\ Goto(r, Ended)
  /\ edges' = edges \o [n \in 1 .. Len(run[r].mine) |->
       NewEdge(run[r].mine[n][1], run[r].mine[n][2], "related", "inferred")]

\* A failed statement, a lost connection, or the end of a dry run.
Abort(r) ==
  /\ run[r].step \notin {"idle", "ended"}
  /\ Goto(r, Ended)
  /\ UNCHANGED edges

\* PostgreSQL ends one of two transactions that wait for each other.
BreakDeadlock ==
  \E r, q \in Runs : WaitsFor(r, q) /\ WaitsFor(q, r) /\ Abort(r)

Proceed(r) ==
  FetchHubs(r) \/ FetchTaggedContents(r) \/ InsertNext(r) \/ CommitRun(r)

Init ==
  /\ edges = <<>>
  /\ links = FirstLinks
  /\ active = Hubs
  /\ run = [r \in Runs |-> Idle]
  /\ writes = 0

Next ==
  \/ People
  \/ \E r \in Runs : FetchMemberships(r) \/ Proceed(r) \/ Abort(r)
  \/ BreakDeadlock

Spec == Init /\ [][Next]_vars

\* A run goes on until its commit; deadlocks are detected.
FairSpec == Spec /\ (\A r \in Runs : WF_vars(Proceed(r))) /\ WF_vars(BreakDeadlock)

-----------------------------------------------------------------------------
(* Properties.                                                             *)

TypeOK ==
  /\ edges \in Seq(Edge)
  /\ links \subseteq Hubs \X Items
  /\ active \subseteq Hubs
  /\ run \in [Runs -> Run]
  /\ writes \in 0 .. MaxWrites

\* No two edges in force relate the same hubs by the same type (migrations/006_add_hub_edges.sql:44, "Prevents
\* duplicate active edges for the same hub pair+type").  The unique index is on edge_key, and a
\* PATCH that changes an edge's type leaves the key of the old type behind.
NoDuplicateRelation ==
  \A i, j \in 1 .. Len(edges) :
    /\ ~edges[i].archived /\ ~edges[j].archived
    /\ {edges[i].source, edges[i].target} = {edges[j].source, edges[j].target}
    /\ edges[i].type = edges[j].type
    => i = j

\* What is in force for a key: the status that list_edges shows first.
InForce(k) ==
  IF Holders(k) = {} THEN "none"
  ELSE edges[CHOOSE i \in Holders(k) : \A j \in Holders(k) : j <= i].status

\* The inference never changes what people decided (edge_inference.py:17-20):
\* a run fills empty keys only, however people and other runs write between
\* what it reads and what it commits.
Review == INSTANCE EdgeReview WITH verdict <- [k \in Keys |-> InForce(k)]
RespectsReview == Review!Spec

\* A run that has to leave proposals out leaves out the weakest: a pair for which
\* one of the signals it read has enough evidence is proposed, with at least the
\* confidence this signal gives it, or the plan is full and no entry is weaker.
StrongEnough(p, confidence, plan) ==
  \/ \E q \in plan : q.pair = p /\ q.confidence >= confidence
  \/ Cardinality(plan) = MaxProposals /\ \A q \in plan : q.pair # p /\ q.confidence >= confidence

PlanIsStrongest ==
  \A r \in Runs : run[r].step = "insert" =>
    /\ Cardinality(run[r].plan) <= MaxProposals
    /\ \A p, q \in run[r].plan : p.pair = q.pair => p = q
    /\ \A p \in Pairs(Hubs) :
         LET shared == Shared(p, run[r].members)
             tags == Cooccur(p, run[r].hubs)
         IN /\ shared >= AtLeastOne(MinShared) =>
                 StrongEnough(p, Scaled(shared, MinShared), run[r].plan)
            /\ tags >= AtLeastOne(MinCooccur) =>
                 StrongEnough(p, Scaled(tags, MinCooccur), run[r].plan)

\* Two runs that insert the same keys in different orders, and people in
\* between, do not keep a run from ending.
RunsEnd == <>[](\A r \in Runs : run[r].step \in {"idle", "ended"})
=============================================================================
