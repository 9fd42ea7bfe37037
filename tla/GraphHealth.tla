----------------------------- MODULE GraphHealth -----------------------------
(***************************************************************************)
(* The graph health endpoints (api/routers/graph_health.py) over a reader  *)
(* of the repository (graph/repository_reader.py), with the scores of      *)
(* graph/health_service.py and graph/hub_recall_health.py.                 *)
(*                                                                         *)
(* The reader takes one table after the other, each in a statement of its  *)
(* own, while others go on writing: what it puts together need not be the  *)
(* state of any moment.  A snapshot has the shape of the database.  Titles,*)
(* tiers, counters and timestamps are left out, and the observations of    *)
(* retrieval, which the repository never supplies.                         *)
(***************************************************************************)
EXTENDS Integers, Sequences, FiniteSets
SetsExt == INSTANCE FiniteSetsExt

CONSTANTS
  Contents, Hubs,
  Relations,      \* the rows GraphStore may put in cb_edges: pairs of nodes
  HubPairs,       \* the pairs of hubs that may get an edge
  Labels,         \* names for hubs
  Norm,           \* normalize_entity_name
  FirstDatabases, \* what the tables may hold when an answer is asked for
  SavedBodies,         \* what a save stores: sequences of chunks
  MaxHealthWrites \* bound: commits while the reader is at work

ASSUME NodesAssumption ==
  Relations \subseteq (Contents \cup Hubs) \X (Contents \cup Hubs) /\ HubPairs \subseteq Hubs \X Hubs

\* Ids are UUIDs: there are finitely many.
ASSUME FiniteAssumption == IsFiniteSet(Contents) /\ IsFiniteSet(Hubs)

VARIABLES
  db,       \* the committed rows, table by table
  reader,   \* the request being answered
  seen,     \* history: contents searchable always and ever since it began, items at its start
  healthWrites

healthVars == <<db, reader, seen, healthWrites>>

Tables ==
  <<"content_items", "content_chunks", "cb_hubs", "cb_hub_content", "cb_edges", "cb_hub_edges",
    "cb_aliases", "cb_alias_candidates">>

HubEdgeStatuses == {"inferred", "manual", "approved", "rejected", "needs_review", "archived"}
ChunkState == [text : BOOLEAN, vector : BOOLEAN]
Database ==
  [content_items : SUBSET Contents,
   content_chunks : [Contents -> Seq(ChunkState)],
   cb_hubs : [Hubs -> Labels],
   cb_hub_content : SUBSET (Hubs \X Contents),
   cb_edges : SUBSET Relations,
   cb_hub_edges : SUBSET [ends : HubPairs, status : HubEdgeStatuses, archived : BOOLEAN],
   cb_aliases : SUBSET (Labels \X Labels),
   cb_alias_candidates : SUBSET [terms : Labels \X Labels, status : {"pending", "approved", "rejected"}]]

ASSUME DatabasesAssumption == FirstDatabases \subseteq Database /\ SavedBodies \subseteq Seq(ChunkState)

NothingRead ==
  [t \in {Tables[i] : i \in DOMAIN Tables} |->
     CASE t = "content_chunks" -> [c \in Contents |-> <<>>]
       [] t = "cb_hubs" -> <<>>
       [] OTHER -> {}]

-----------------------------------------------------------------------------
(* What a snapshot says of the contents.                                   *)

Some(chunks, Has(_)) == \E i \in DOMAIN chunks : Has(chunks[i])
HasText(s, c) == Some(s.content_chunks[c], LAMBDA k : k.text)
HasVector(s, c) == Some(s.content_chunks[c], LAMBDA k : k.vector)

\* Defect: a text is enough.
Searchable_Text(s, c) == HasText(s, c)

\* indexing_status "searchable": some chunk with a text, some chunk with an embedding.
Searchable(s, c) == HasText(s, c) /\ HasVector(s, c)
Reported(s) == {c \in s.content_items : Searchable(s, c)}

\* What a report should find, told from the rows of the tables themselves.
Findable(d) ==
  {c \in d.content_items :
     LET chunks == d.content_chunks[c]
     IN  \E i, j \in DOMAIN chunks : chunks[i].text /\ chunks[j].vector}

\* embedding_present is False; None, for an item without chunks, does not count.
WithoutVector(s) == {c \in s.content_items : s.content_chunks[c] # <<>> /\ ~HasVector(s, c)}

\* hub_links with the content that is missing or not searchable.
Findings(s) == {l \in s.cb_hub_content : l[2] \notin Reported(s)}
Linked(s) == {l[2] : l \in s.cb_hub_content}
Dangling(s) == IF s.content_items = {} THEN {} ELSE Linked(s) \ s.content_items

HubLines(s) == {e.ends : e \in s.cb_hub_edges}
Joins(s) == s.cb_edges \cup HubLines(s)
Ends(s) == UNION {{e[1], e[2]} : e \in Joins(s)}
Unsearchable(s) == {c \in s.content_items \cap Ends(s) : ~Searchable(s, c)}

AliasLabels(s) ==
  {s.cb_hubs[h] : h \in DOMAIN s.cb_hubs}
    \cup UNION {{p[1], p[2]} : p \in s.cb_aliases}
    \cup UNION {{r.terms[1], r.terms[2]} : r \in s.cb_alias_candidates}
AliasCandidates(labels) == {g \in {{m \in labels : Norm[m] = Norm[l]} : l \in labels} : Cardinality(g) > 1}

-----------------------------------------------------------------------------
(* The scores.                                                             *)

\* round(a / b) of Python: a half goes to the even neighbour.
Round(a, b) ==
  LET q == a \div b
      twice == 2 * (a % b)
  IN  CASE twice < b -> q [] twice > b -> q + 1 [] OTHER -> q + (q % 2)
AtMost(n, m) == IF n < m THEN n ELSE m

Nodes(s) == Ends(s) \cup Linked(s)
Neighbours(s, n) == {m \in Nodes(s) : <<n, m>> \in Joins(s) \/ <<m, n>> \in Joins(s)}

\* The breadth-first search from n.
Component(s, n) ==
  LET Reached[k \in 0 .. Cardinality(Nodes(s))] ==
        IF k = 0 THEN {n}
        ELSE Reached[k - 1] \cup UNION {Neighbours(s, r) : r \in Reached[k - 1]}
  IN  Reached[Cardinality(Nodes(s))]
Largest(s) == SetsExt!Max({Cardinality(Component(s, n)) : n \in Nodes(s)})
WithDegree(s, D) == Cardinality({n \in Nodes(s) : Cardinality(Neighbours(s, n)) \in D})

\* The coverage of the largest component is rounded to four digits first.
TopologyScore(s) ==
  LET n == Cardinality(Nodes(s))
  IN  IF n = 0 THEN 0
      ELSE AtMost(Round(10 * Round(10000 * Largest(s), n), 10000)
                    + Round(8 * (n - WithDegree(s, {0})), n)
                    + Round(7 * (n - WithDegree(s, {0, 1})), n), 25)

\* Defect: the ratio is taken over the items that have an embedding.
IndexScore_OfEmbedded(s) ==
  LET n == Cardinality({c \in s.content_items : HasVector(s, c)})
  IN  IF n = 0 THEN 0
      ELSE AtMost(Round(20 * Cardinality(Reported(s)), n) + 5 + (IF WithoutVector(s) = {} THEN 5 ELSE 0), 30)

\* No item of the repository is ever stale.
IndexScore(s) ==
  LET n == Cardinality(s.content_items)
  IN  IF n = 0 THEN 0
      ELSE AtMost(Round(20 * Cardinality(Reported(s)), n) + 5 + (IF WithoutVector(s) = {} THEN 5 ELSE 0), 30)

\* Without observations of retrieval their share is 5.
RecallScore(s) ==
  LET n == Cardinality(s.cb_hub_content)
  IN  IF n = 0 THEN 0
      ELSE AtMost(Round(10 * (n - Cardinality(Findings(s))), n) + 5 + (IF Findings(s) = {} THEN 5 ELSE 0), 25)

\* Candidates always ask for a review.
AliasScore(s) == IF AliasCandidates(AliasLabels(s)) = {} THEN 10 ELSE 7

ConsistencyScore(s) ==
  CASE Dangling(s) = {} /\ Unsearchable(s) = {} -> 10
    [] Dangling(s) = {} /\ Unsearchable(s) # {} -> 4
    [] Dangling(s) # {} /\ Unsearchable(s) = {} -> 3
    [] OTHER -> 0

HealthScore(s) ==
  AtMost(TopologyScore(s) + IndexScore(s) + RecallScore(s) + AliasScore(s) + ConsistencyScore(s), 100)

\* Why the repository alone never gives a full picture, and what this snapshot lacks.
Limitations(s) ==
  {"no result content ids in the query log", "unknown fields"}
    \cup (IF Nodes(s) = {} THEN {"empty graph"} ELSE {})
    \cup (IF s.content_items = {} THEN {"no content"} ELSE {})
    \cup (IF s.cb_hub_content # {} THEN {"no observations"} ELSE {})

\* The reader warns of an item without chunks and of a chunk without its embedding.
ReaderWarnings(s) ==
  (IF \E c \in s.content_items : s.content_chunks[c] = <<>> THEN {"no chunks"} ELSE {})
    \cup (IF \E c \in Contents : Some(s.content_chunks[c], LAMBDA k : k.text /\ ~k.vector)
          THEN {"chunk without embedding"} ELSE {})
Warnings(s) ==
  ReaderWarnings(s)
    \cup (IF WithoutVector(s) # {} THEN {"item without embedding"} ELSE {})
    \cup (IF Findings(s) # {} THEN {"linked, not searchable"} ELSE {})
    \cup (IF Unsearchable(s) # {} THEN {"in the graph, not searchable"} ELSE {})
    \cup (IF AliasCandidates(AliasLabels(s)) # {} THEN {"aliases to review"} ELSE {})

Status(s) ==
  CASE Limitations(s) # {} -> "limited"
    [] Limitations(s) = {} /\ Warnings(s) # {} -> "degraded"
    [] OTHER -> "ok"

-----------------------------------------------------------------------------
(* The request.                                                            *)

NotAsked ==
  [step |-> "idle", asks |-> "nothing", hub |-> {}, next |-> 1,
   snapshot |-> NothingRead, answer |-> "none"]

HealthInit ==
  /\ db \in FirstDatabases
  /\ reader = NotAsked
  /\ seen = [always |-> {}, ever |-> {}, start |-> {}]
  /\ healthWrites = 0

\* A mode but these two is refused; a sample, and the answer without a reader, come from no table.
Answer(mode, wired) ==
  CASE mode = "sample" -> "sample"
    [] mode = "repository" /\ wired -> "none"
    [] mode = "repository" /\ ~wired -> "unavailable"
    [] OTHER -> "refused"
Ask(asks, mode, wired, hub) ==
  /\ reader.step = "idle"
  /\ reader' = [NotAsked EXCEPT !.asks = asks, !.hub = hub, !.answer = Answer(mode, wired),
                            !.step = IF Answer(mode, wired) = "none" THEN "read" ELSE "done"]
  /\ seen' = [always |-> Findable(db), ever |-> Findable(db), start |-> db.content_items]
  /\ UNCHANGED <<db, healthWrites>>

AskHealth(mode, wired) == Ask("health", mode, wired, {})
AskRecall(mode, wired, h) == Ask("recall", mode, wired, {h})
AskAliases(mode, wired) == Ask("aliases", mode, wired, {})

\* The rows of a table that go into the snapshot.
RowsOf(t) ==
  CASE t = "cb_hub_content" /\ reader.asks = "recall" -> {l \in db[t] : l[1] \in reader.hub}
    [] t = "cb_hub_edges" -> {e \in db[t] : ~e.archived /\ e.status \notin {"rejected", "archived"}}
    [] t = "cb_alias_candidates" -> {r \in db[t] : r.status = "pending"}
    [] OTHER -> db[t]

\* After the last table the report is made of the snapshot. The recall report takes a second
\* one, for labels it does not use.
ReadTable ==
  LET last == reader.next = Len(Tables)
  IN  /\ reader.step = "read"
      /\ reader' = [reader EXCEPT !.snapshot[Tables[reader.next]] = RowsOf(Tables[reader.next]),
                                  !.next = @ + 1,
                                  !.step = IF last THEN "done" ELSE "read",
                                  !.answer = IF last THEN "repository" ELSE "none"]
      /\ UNCHANGED <<db, seen, healthWrites>>

-----------------------------------------------------------------------------
(* The others.                                                             *)

Write(new) ==
  /\ reader.step = "read"
  /\ healthWrites < MaxHealthWrites
  /\ healthWrites' = healthWrites + 1
  /\ db' = new
  /\ seen' = [seen EXCEPT !.always = @ \cap Findable(new), !.ever = @ \cup Findable(new)]
  /\ UNCHANGED reader

\* A save commits the row, with its chunks or before them.
SaveItem(c, body) ==
  /\ c \notin db.content_items
  /\ Write([db EXCEPT !.content_items = @ \cup {c}, !.content_chunks[c] = body])
StoreBody(c, body) ==
  /\ c \in db.content_items /\ db.content_chunks[c] = <<>> /\ body # <<>>
  /\ Write([db EXCEPT !.content_chunks[c] = body])

\* put_content_record puts another text in the place of chunk 0.
PutBody(c, chunk) ==
  /\ c \in db.content_items
  /\ Write([db EXCEPT !.content_chunks[c] = <<chunk>> \o SubSeq(@, 2, Len(@))])
Embed(c, i) ==
  /\ i \in DOMAIN db.content_chunks[c] /\ ~db.content_chunks[c][i].vector
  /\ Write([db EXCEPT !.content_chunks[c][i].vector = TRUE])
LinkContent(h, c) ==
  /\ c \in db.content_items /\ <<h, c>> \notin db.cb_hub_content
  /\ Write([db EXCEPT !.cb_hub_content = @ \cup {<<h, c>>}])
AddEdge(e) == e \notin db.cb_edges /\ Write([db EXCEPT !.cb_edges = @ \cup {e}])
DeleteEdges(S) == S # {} /\ Write([db EXCEPT !.cb_edges = @ \ S])
PutHubEdge(p, status) ==
  /\ \A e \in db.cb_hub_edges : e.ends = p => e.archived
  /\ Write([db EXCEPT !.cb_hub_edges = @ \cup {[ends |-> p, status |-> status, archived |-> FALSE]}])
ReviewHubEdge(e, status, archived) ==
  Write([db EXCEPT !.cb_hub_edges = (@ \ {e}) \cup {[e EXCEPT !.status = status, !.archived = archived]}])
RenameHub(h, l) == l # db.cb_hubs[h] /\ Write([db EXCEPT !.cb_hubs[h] = l])

Others ==
  \/ \E c \in Contents, body \in SavedBodies : SaveItem(c, body) \/ StoreBody(c, body)
  \/ \E c \in Contents, chunk \in ChunkState : PutBody(c, chunk)
  \/ \E c \in Contents : \E i \in DOMAIN db.content_chunks[c] : Embed(c, i)
  \/ \E h \in Hubs, c \in Contents : LinkContent(h, c)
  \/ \E e \in Relations : AddEdge(e) \/ DeleteEdges({e} \cap db.cb_edges)
  \/ \E p \in HubPairs : PutHubEdge(p, "manual")
  \/ \E e \in db.cb_hub_edges : ReviewHubEdge(e, "rejected", e.archived) \/ ReviewHubEdge(e, e.status, TRUE)
  \/ \E h \in Hubs, l \in Labels : RenameHub(h, l)

Requests ==
  \E mode \in {"sample", "repository", "other"}, wired \in BOOLEAN :
    \/ AskHealth(mode, wired) \/ AskAliases(mode, wired)
    \/ \E h \in Hubs : AskRecall(mode, wired, h)

HealthNext == Requests \/ ReadTable \/ Others
HealthSpec == HealthInit /\ [][HealthNext]_healthVars

-----------------------------------------------------------------------------
(* Properties.                                                             *)

Answered == reader.answer = "repository"

\* However the reads and the commits of others fall: what was searchable all along is reported
\* so, what is reported so was searchable at some moment while the report was made, and a link
\* seems to dangle only to an item saved meanwhile (read_snapshot, one SELECT per table).
ReportedWasSo ==
  Answered =>
    /\ seen.always \subseteq Reported(reader.snapshot)
    /\ Reported(reader.snapshot) \subseteq seen.ever
    /\ Dangling(reader.snapshot) \cap seen.start = {}

Connected(s, S) ==
  \A T \in (SUBSET S) \ {{}, S} : \E a \in T, b \in S \ T : <<a, b>> \in Joins(s) \/ <<b, a>> \in Joins(s)
WithVector(s, c, i) == [s EXCEPT !.content_chunks[c][i].vector = TRUE]

\* Embedded, but of blank texts alone.
Mute(s) == {c \in s.content_items : HasVector(s, c) /\ ~HasText(s, c)}

\* Whatever the snapshot, torn or not: the largest component is a largest connected set of
\* nodes; an embedding that arrives never lowers the score; the best a repository can get is
\* 95, for want of observations; and an item that cannot be found is warned of, unless its
\* texts are blank and embedded (evaluate, with its ratios, bonuses, roundings and warnings).
ScoresAreSound ==
  Answered =>
    LET s == reader.snapshot
    IN  /\ Nodes(s) # {} =>
             Largest(s) = SetsExt!Max({Cardinality(S) : S \in {S \in SUBSET Nodes(s) : Connected(s, S)}})
        /\ \A c \in Contents : \A i \in DOMAIN s.content_chunks[c] :
             HealthScore(s) <= HealthScore(WithVector(s, c, i))
        /\ HealthScore(s) \in 0 .. 95
        /\ Reported(s) \cup Mute(s) # s.content_items => Warnings(s) # {}
        /\ Status(s) # "ok"
=============================================================================
