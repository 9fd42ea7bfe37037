--------------------------- MODULE ScopedRetrieval ---------------------------
(***************************************************************************)
(* One search of the retrieval endpoint (api/routers/retrieval.py) with a  *)
(* retrieval scope: the candidates of RetrievalAdapter.search, the graph   *)
(* rescue of hybrid_search, the composite ranking and the evidence.        *)
(*                                                                         *)
(* A search is a series of SELECTs, each with a snapshot of its own.  The  *)
(* sources of candidates filter by workspace, memory types and hubs each   *)
(* for itself, while others save, classify, embed and link items and       *)
(* rename and archive hubs.                                                *)
(*                                                                         *)
(* A text is the set of words it contains, a query the sequence of its     *)
(* words.  Distances and scores are counted in hundredths, the final score *)
(* in ten-thousandths.  Items are numbered in the order in which they are  *)
(* saved.                                                                  *)
(***************************************************************************)
EXTENDS Integers, Sequences, FiniteSets

CONSTANTS
  Entries,       \* content items: 1 .. n
  Foreign,       \* the items of other workspaces
  Topics,        \* hubs
  Letters,       \* the words there are, with their lengths
  Adjacent,      \* cb_edges of the workspace with enough confidence: the neighbours of a word
  Memories,      \* memory types
  None,          \* no filter, no hub
  FirstCatalogs, \* what the tables may hold when a search arrives
  Questions,     \* the requests
  NewChunks,     \* what others store: sequences of chunks
  Distances,     \* the distances of chunks that are embedded meanwhile
  RowLimit,      \* LIMIT of every SELECT for candidates
  MaxTerms,      \* the words of a query that are looked for
  MaxCatalogWrites \* bound: commits while a search is under way

ASSUME EntriesAssumption == IsFiniteSet(Entries) /\ Entries \subseteq Nat /\ Foreign \subseteq Entries
ASSUME AdjacentAssumption == Adjacent \in [DOMAIN Letters -> SUBSET DOMAIN Letters]
ASSUME QuestionsAssumption == \A q \in Questions : q.query \in Seq(DOMAIN Letters) /\ q.limit \in Nat

VARIABLES
  catalog,  \* the committed rows
  search,   \* the request being answered, with its local variables
  scoped,   \* history: items due since it began, with the way to them, and items ever in its scope
  catalogWrites

retrievalVars == <<catalog, search, scoped, catalogWrites>>

\* A hub without a workspace dates from before there were workspaces.
Topic == [workspace : {"own", "none", "foreign"}, active : BOOLEAN, title : DOMAIN Letters,
          aliases : SUBSET DOMAIN Letters, related : SUBSET DOMAIN Letters]

NoVector == -1

StoredChunk == [words : SUBSET DOMAIN Letters, distance : Nat \cup {NoVector}]
Catalog ==
  [items : SUBSET Entries, type : [Entries -> Memories \cup {"NULL"}],
   chunks : [Entries -> Seq(StoredChunk)], links : SUBSET (Topics \X Entries), topics : [Topics -> Topic]]

ASSUME CatalogsAssumption ==
  /\ FirstCatalogs \subseteq Catalog /\ NewChunks \subseteq Seq(StoredChunk)
  /\ Distances \subseteq Nat /\ RowLimit \in Nat /\ MaxTerms \in Nat

Lesser(m, n) == IF m <= n THEN m ELSE n
Elements(s) == {s[i] : i \in DOMAIN s}

\* The first n of S: before each come as many as its place says.
Arranged(S, place, n) ==
  [k \in 1 .. Lesser(n, Cardinality(S)) |-> CHOOSE x \in S : place[x] = k - 1]

\* The entries of a sequence at some of its positions.
AtPositions(s, I) ==
  LET order == Arranged(I, [i \in I |-> Cardinality({j \in I : j < i})], Cardinality(I))
  IN  [k \in DOMAIN order |-> s[order[k]]]

-----------------------------------------------------------------------------
(* What a request says.                                                    *)

\* The old filter and the scope's may both be given if they agree.
ValidQuestion(q) ==
  /\ {} \notin {q.memory_types, q.content_types, q.allowed_hubs}
  /\ None \in {q.memory_types, q.content_types} \/ q.memory_types = q.content_types

ResolvedTypes(q) == IF q.content_types # None THEN q.content_types ELSE q.memory_types

\* _query_terms: the places in a query of the first words that are long enough.
Terms(query) ==
  {i \in DOMAIN query : /\ Letters[query[i]] >= 3
                        /\ Cardinality({j \in 1 .. i : Letters[query[j]] >= 3}) <= MaxTerms}

\* The terms that a text contains.
Hits(query, words) == {i \in Terms(query) : query[i] \in words}

\* expand_query: the words within max_hops of the query.
Expanded(q) ==
  LET reached[n \in Nat] ==
        IF n = 0 THEN Elements(q.query) ELSE reached[n - 1] \cup UNION {Adjacent[w] : w \in reached[n - 1]}
  IN  reached[q.max_hops]

\* A set lists them in any order; five are kept.
GraphTerms(q) ==
  LET new == Expanded(q) \ Elements(q.query)
  IN  {s \in [1 .. Lesser(5, Cardinality(new)) -> new] : \A i, j \in DOMAIN s : s[i] = s[j] => i = j}

-----------------------------------------------------------------------------
(* The SELECTs.  Each sees the rows committed when it starts.              *)

\* Rows of content_chunks, by item and index; an item without chunks has a row of an outer join.
Chunked(c) == UNION {{e} \X DOMAIN c.chunks[e] : e \in c.items}
OuterJoined(c) == Chunked(c) \cup {<<e, 0>> : e \in {d \in c.items : c.chunks[d] = <<>>}}

\* c.workspace_id, c.memory_type
Selectable(c, q, e) ==
  /\ e \in c.items \ Foreign
  /\ ResolvedTypes(q) # None => c.type[e] \in ResolvedTypes(q)

\* ... and cb_hub_content
InScope(c, q, e) ==
  /\ Selectable(c, q, e)
  /\ q.allowed_hubs # None => \E h \in q.allowed_hubs : <<h, e>> \in c.links

\* ORDER BY created_at DESC NULLS LAST, chunk_index
NewestFirst(x, y) ==
  \/ x[2] # 0 /\ y[2] = 0
  \/ (x[2] = 0) = (y[2] = 0) /\ (x[1] > y[1] \/ (x[1] = y[1] /\ x[2] < y[2]))
FirstRows(S) == Arranged(S, [x \in S |-> Cardinality({y \in S : NewestFirst(y, x)})], RowLimit)

Row(c, x, path, score) ==
  [item |-> x[1], chunk |-> x[2], path |-> path, score |-> score,
   words |-> IF x[2] = 0 THEN {} ELSE c.chunks[x[1]][x[2]].words, distance |-> NoVector,
   graph |-> {}, hub |-> None, queries |-> 1, rescued |-> FALSE]

\* _deterministic_vector_search
Lexical(c, q, query) ==
  LET found(x) == Hits(query, c.chunks[x[1]][x[2]].words)
      rows == FirstRows({x \in Chunked(c) : InScope(c, q, x[1]) /\ found(x) # {}})
  IN  [i \in DOMAIN rows |->
         Row(c, rows[i], "lexical", 50 + 10 * Lesser(5, Cardinality(found(rows[i]))))]

\* _pgvector_knn_search: a rescue asks with the vector of the query again.
Nearest(c, q) ==
  LET far(x) == c.chunks[x[1]][x[2]].distance
      nearer(x, y) == \/ far(x) < far(y)
                      \/ far(x) = far(y) /\ (x[2] < y[2] \/ (x[2] = y[2] /\ x[1] > y[1]))
      near == {x \in Chunked(c) : InScope(c, q, x[1]) /\ far(x) # NoVector}
      rows == Arranged(near, [x \in near |-> Cardinality({y \in near : nearer(y, x)})], RowLimit)
  IN  [i \in DOMAIN rows |->
         [Row(c, rows[i], "nearest", 10000 \div (100 + far(rows[i]))) EXCEPT !.distance = far(rows[i])]]

\* The five SELECTs of match_query: title, alias, long alias in the query, short alias in it,
\* related term.
MatchedTopics(c, query) ==
  LET open == {h \in Topics : c.topics[h].active /\ c.topics[h].workspace # "foreign"}
      Is(names) == \E n \in names : query = <<n>>
      In(names) == names \cap Elements(query)
  IN  <<{h \in open : Is({c.topics[h].title})},
        {h \in open : Is(c.topics[h].aliases)},
        {h \in open : \E a \in In(c.topics[h].aliases) : Letters[a] >= 6},
        {h \in open : \E a \in In(c.topics[h].aliases) : Letters[a] \in 3 .. 5},
        {h \in open : Is(c.topics[h].related)}>>

\* Defect: a hub found by the query's text passes, whatever the scope says.
HubAllowed_Any(q, h) == TRUE

\* "Fail-closed intersection" with the caller's scope.
HubAllowed(q, h) == q.allowed_hubs # None => h \in q.allowed_hubs

\* The items of the hub; names are its aliases and related terms.
HubRows(c, q, items, names) ==
  LET linked == {x \in OuterJoined(c) : x[1] \in items /\ Selectable(c, q, x[1])}
      rows == FirstRows(linked)
  IN  [i \in DOMAIN rows |-> [Row(c, rows[i], "hub", 95) EXCEPT !.hub = names]]

-----------------------------------------------------------------------------
(* hybrid_search: what becomes of the rows of a SELECT.                    *)

SameChunk(r, s) == r.item = s.item /\ r.chunk = s.chunk
Known(rows, r) == \E i \in DOMAIN rows : SameChunk(rows[i], r)

\* add_results: a chunk found again is enriched, the others come after those there are.  A SELECT
\* finds a chunk once.
AddResults(rows, found, terms, rescued) ==
  LET Again(r) == {j \in DOMAIN found : SameChunk(found[j], r)}
      known ==
        [i \in DOMAIN rows |->
           [rows[i] EXCEPT !.graph = @ \cup UNION {terms \cap found[j].words : j \in Again(rows[i])},
                           !.queries = @ + Cardinality(Again(rows[i]))]]
      new == AtPositions(found, {j \in DOMAIN found : ~Known(rows, found[j])})
  IN  known \o [k \in DOMAIN new |->
                  [new[k] EXCEPT !.graph = terms \cap new[k].words, !.rescued = rescued,
                                 !.path = IF rescued THEN "rescue" ELSE @]]

\* Only what its text speaks for fills a shortage, until there are two rescued rows.
Admit(rows, found, terms) ==
  LET speaking == {j \in DOMAIN found : terms \cap found[j].words # {}}
      fresh == {j \in speaking : ~Known(rows, found[j])}
      rescued == Cardinality({i \in DOMAIN rows : rows[i].rescued})
      admitted == {j \in speaking : rescued + Cardinality({m \in fresh : m < j}) < 2}
      Again(r) == {j \in admitted : SameChunk(found[j], r)}
      known ==
        [i \in DOMAIN rows |->
           [rows[i] EXCEPT !.graph = @ \cup UNION {terms \cap found[j].words : j \in Again(rows[i])}]]
      new == AtPositions(found, admitted \cap fresh)
  IN  known \o [k \in DOMAIN new |->
                  [new[k] EXCEPT !.graph = terms \cap new[k].words, !.rescued = TRUE, !.path = "rescue"]]

\* Rows of items that no row stands for yet, the first of each.
AddNewItems(rows, found) ==
  rows \o AtPositions(found, {j \in DOMAIN found : /\ \A i \in DOMAIN rows : rows[i].item # found[j].item
                                            /\ \A i \in 1 .. j - 1 : found[i].item # found[j].item})

-----------------------------------------------------------------------------
(* Scoring Model v2, and the boosts of the ranker.                         *)

VectorScore(r) ==
  IF r.distance # NoVector THEN 100 - r.distance \div 2
  ELSE IF r.path = "lexical" THEN r.score ELSE 0

GraphScore(r) ==
  LET n == Cardinality(r.graph)
  IN  CASE n = 0 -> 0 [] n = 1 -> 90 [] n = 2 -> 70 [] n \in 3 .. 4 -> 40 [] OTHER -> 20

HubScore(r) ==
  IF r.hub = None THEN 0
  ELSE CASE Cardinality(r.hub \cap r.words) = 0 -> 30
         [] Cardinality(r.hub \cap r.words) = 1 -> 70
         [] OTHER -> 90

TrustScore(r) ==
  CASE r.graph # {} /\ r.hub # None -> 80
    [] r.graph = {} /\ r.hub = None -> (IF r.queries > 1 THEN 45 ELSE 30)
    [] OTHER -> 60

Penalties(r) ==
  IF r.hub # None THEN 0
  ELSE (IF Cardinality(r.graph) > 3 THEN 1000 ELSE 0)
         + (IF VectorScore(r) < 35 /\ r.graph = {} THEN 1000 ELSE 0)

CurationBoost(r) == IF r.path = "hub" THEN 1500 ELSE IF r.rescued THEN 400 ELSE 0

Unit(n) == IF n < 0 THEN 0 ELSE Lesser(10000, n)
FinalScore(r, words) ==
  Unit(Unit(45 * VectorScore(r) + 20 * GraphScore(r) + 20 * HubScore(r)
              + 10 * Lesser(100, 20 * Cardinality(words \cap r.words)) + 5 * TrustScore(r) - Penalties(r))
         + CurationBoost(r))

\* A stable sort by keys of two numbers, the higher first and the lower second.
SortedBy(rows, key) ==
  LET Before(i, j) ==
        \/ key[i][1] > key[j][1]
        \/ key[i][1] = key[j][1] /\ key[i][2] < key[j][2]
        \/ key[i] = key[j] /\ i < j
      order == Arranged(DOMAIN rows, [i \in DOMAIN rows |-> Cardinality({j \in DOMAIN rows : Before(j, i)})],
                        Len(rows))
  IN  [i \in DOMAIN order |-> rows[order[i]]]

\* _deterministic_rerank, after the boost for several queries (graph_boost as it is by default).
Reranked(rows) ==
  SortedBy(rows, [i \in DOMAIN rows |-> <<rows[i].score * (9 + rows[i].queries), 0>>])

RankByComposite(rows, words) ==
  SortedBy(rows, [i \in DOMAIN rows |-> <<FinalScore(rows[i], words), 200 - 2 * VectorScore(rows[i])>>])

\* normalize_evidence: rows with a text, the first of each item.
Normalized(rows) == AddNewItems(<<>>, AtPositions(rows, {i \in DOMAIN rows : rows[i].words # {}}))

Evidence(rows, q) ==
  LET all == Normalized(RankByComposite(rows, Elements(q.query))) IN SubSeq(all, 1, Lesser(q.limit, Len(all)))

-----------------------------------------------------------------------------
(* The search.                                                             *)

NoSearch ==
  [step |-> "idle", q |-> None, vector |-> FALSE, terms |-> <<>>, asked |-> 0, rows |-> <<>>,
   hub |-> None, items |-> {}, cut |-> FALSE, evidence |-> <<>>]

Query == search.q.query
NewTerms == Elements(search.terms)

\* What the request asks to be kept to, whatever the SELECTs make of it.
WithinScope(c, q) ==
  {e \in c.items \ Foreign :
     /\ \A types \in {q.memory_types, q.content_types} \ {None} : c.type[e] \in types
     /\ q.allowed_hubs # None => c.links \cap (q.allowed_hubs \X {e}) # {}}

\* The ways that lead to an item of the scope: the query's words, its vector, or the one hub it
\* can mean, by what it can mean it.  A search has to find what one way leads to all the time;
\* but a blank chunk may take the place of its item among the rows, and the evidence drops it.
Due(c, q, vector) ==
  {d \in WithinScope(c, q) \X ({"words", "vector"} \cup Topics) \X (1 .. 5) :
     LET chunks == c.chunks[d[1]]
         ways == MatchedTopics(c, q.query)
     IN  /\ \A k \in DOMAIN chunks : chunks[k].words # {}
         /\ CASE d[2] = "words" -> \E k \in DOMAIN chunks : Hits(q.query, chunks[k].words) # {}
              [] d[2] = "vector" -> vector /\ \E k \in DOMAIN chunks : chunks[k].distance # NoVector
              [] OTHER -> /\ d[2] \in ways[d[3]] /\ UNION Elements(ways) = {d[2]}
                          /\ q.allowed_hubs # None => d[2] \in q.allowed_hubs
                          /\ <<d[2], d[1]>> \in c.links /\ chunks # <<>>}

RetrievalInit ==
  /\ catalog \in FirstCatalogs
  /\ search = NoSearch
  /\ scoped = [always |-> {}, ever |-> {}]
  /\ catalogWrites = 0

\* retrieval_search, up to the first SELECT; the query's embedding comes or does not.
BeginSearch ==
  /\ search.step = "idle"
  /\ \E q \in Questions, vector \in BOOLEAN :
       /\ ValidQuestion(q)
       /\ \E terms \in GraphTerms(q) :
            search' = [NoSearch EXCEPT !.step = "primary", !.q = q, !.vector = vector, !.terms = terms]
       /\ scoped' = [always |-> Due(catalog, q, vector),
                     ever |-> WithinScope(catalog, q)]
  /\ UNCHANGED <<catalog, catalogWrites>>

Full(found) == search.cut \/ Len(found) = RowLimit

VectorSearch(query) ==
  IF search.vector THEN Nearest(catalog, search.q) ELSE Lexical(catalog, search.q, query)

\* After hybrid_search.
Merge(rows, cut) ==
  search' = [search EXCEPT !.rows = Reranked(rows), !.cut = cut,
               !.step = IF search.vector THEN "alongside" ELSE "hub", !.asked = 0]

SearchPrimary ==
  LET found == VectorSearch(Query)
      rows == AddResults(<<>>, found, NewTerms, FALSE)
  IN  /\ search.step = "primary"
      /\ IF search.terms = <<>> \/ Len(rows) >= 3 THEN Merge(rows, Full(found))
         ELSE search' = [search EXCEPT !.rows = rows, !.cut = Full(found),
                           !.step = IF rows = <<>> THEN "rescue" ELSE "fill"]
      /\ UNCHANGED <<catalog, scoped, catalogWrites>>

\* Nothing was found: each neighbour is tried, and what it brings is taken.
Rescue ==
  LET n == search.asked + 1
      found == VectorSearch(Append(Query, search.terms[n]))
      rows == AddResults(search.rows, found, NewTerms, TRUE)
  IN  /\ search.step = "rescue"
      /\ IF n = Len(search.terms) THEN Merge(rows, Full(found))
         ELSE search' = [search EXCEPT !.rows = rows, !.cut = Full(found), !.asked = n]
      /\ UNCHANGED <<catalog, scoped, catalogWrites>>

\* Little was found: the neighbours fill a shortage.
FillShortage ==
  LET n == search.asked + 1
      found == VectorSearch(Append(Query, search.terms[n]))
      rows == Admit(search.rows, found, NewTerms)
  IN  /\ search.step = "fill"
      /\ IF n = Len(search.terms) \/ Cardinality({i \in DOMAIN rows : rows[i].rescued}) >= 2
         THEN Merge(rows, Full(found))
         ELSE search' = [search EXCEPT !.rows = rows, !.cut = Full(found), !.asked = n]
      /\ UNCHANGED <<catalog, scoped, catalogWrites>>

\* Beside the nearest, what the words find.
SearchAlongside ==
  LET found == Lexical(catalog, search.q, Query)
  IN  /\ search.step = "alongside"
      /\ search' = [search EXCEPT !.rows = AddNewItems(@, found), !.cut = Full(found), !.step = "hub"]
      /\ UNCHANGED <<catalog, scoped, catalogWrites>>

Respond(rows, cut) ==
  search' = [search EXCEPT !.step = "answered", !.rows = rows, !.cut = cut, !.evidence = Evidence(rows, search.q)]

\* _hub_linked_results: match_query asks in five ways until one has an answer, and LIMIT 1 takes
\* any of the hubs that match.
MatchHub ==
  LET n == search.asked + 1
      matched == MatchedTopics(catalog, Query)[n]
  IN  /\ search.step = "hub"
      /\ \/ matched = {} /\ n < 5 /\ search' = [search EXCEPT !.asked = n]
         \/ matched = {} /\ n = 5 /\ Respond(search.rows, search.cut)
         \/ \E h \in matched :
              IF HubAllowed(search.q, h)
              THEN search' = [search EXCEPT !.step = "links",
                                !.hub = [id |-> h, names |-> catalog.topics[h].aliases \cup catalog.topics[h].related]]
              ELSE Respond(search.rows, search.cut)
      /\ UNCHANGED <<catalog, scoped, catalogWrites>>

\* get_hub_content_ids
ReadHubLinks ==
  LET items == {e \in catalog.items \ Foreign : <<search.hub.id, e>> \in catalog.links}
  IN  /\ search.step = "links"
      /\ IF items = {} THEN Respond(search.rows, search.cut)
         ELSE search' = [search EXCEPT !.step = "linked", !.items = items]
      /\ UNCHANGED <<catalog, scoped, catalogWrites>>

ReadHubItems ==
  LET found == HubRows(catalog, search.q, search.items, search.hub.names)
  IN  /\ search.step = "linked"
      /\ Respond(AddNewItems(search.rows, found), Full(found))
      /\ UNCHANGED <<catalog, scoped, catalogWrites>>

-----------------------------------------------------------------------------
(* What others commit meanwhile.                                           *)

Meanwhile(new) ==
  /\ search.step \notin {"idle", "answered"}
  /\ catalogWrites < MaxCatalogWrites
  /\ catalog' = new
  /\ scoped' = [always |-> scoped.always \cap Due(new, search.q, search.vector),
                ever |-> scoped.ever \cup WithinScope(new, search.q)]
  /\ catalogWrites' = catalogWrites + 1
  /\ UNCHANGED search

\* Items of any workspace are saved in the order of their numbers, and their chunks after them.
EntrySaved(e) ==
  /\ catalog.items = {d \in Entries : d < e}
  /\ Meanwhile([catalog EXCEPT !.items = @ \cup {e}])

ChunksStored(e, chunks) ==
  /\ e \in catalog.items /\ catalog.chunks[e] = <<>>
  /\ Meanwhile([catalog EXCEPT !.chunks[e] = chunks])

EntryClassified(e, type) ==
  /\ e \in catalog.items /\ catalog.type[e] # type
  /\ Meanwhile([catalog EXCEPT !.type[e] = type])

ChunkEmbedded(e, k, distance) ==
  /\ <<e, k>> \in Chunked(catalog) /\ catalog.chunks[e][k].distance = NoVector
  /\ Meanwhile([catalog EXCEPT !.chunks[e][k].distance = distance])

\* link_content: hub and content must be of the caller's workspace.
EntryLinked(h, e) ==
  /\ catalog.topics[h].workspace = "own" /\ e \in catalog.items \ Foreign
  /\ <<h, e>> \notin catalog.links
  /\ Meanwhile([catalog EXCEPT !.links = @ \cup {<<h, e>>}])

\* update_hub
TopicUpdated(h, title, active) ==
  /\ <<title, active>> # <<catalog.topics[h].title, catalog.topics[h].active>>
  /\ Meanwhile([catalog EXCEPT !.topics[h].title = title, !.topics[h].active = active])

OthersCommit ==
  \/ \E e \in Entries :
       \/ EntrySaved(e)
       \/ \E chunks \in NewChunks : ChunksStored(e, chunks)
       \/ \E type \in Memories : EntryClassified(e, type)
       \/ \E k \in 1 .. 2, distance \in Distances : ChunkEmbedded(e, k, distance)
       \/ \E h \in Topics : EntryLinked(h, e)
  \/ \E h \in Topics, title \in DOMAIN Letters, active \in BOOLEAN : TopicUpdated(h, title, active)

RetrievalNext ==
  \/ BeginSearch \/ SearchPrimary \/ Rescue \/ FillShortage \/ SearchAlongside
  \/ MatchHub \/ ReadHubLinks \/ ReadHubItems
  \/ OthersCommit

RetrievalSpec == RetrievalInit /\ [][RetrievalNext]_retrievalVars

-----------------------------------------------------------------------------
(* Properties.                                                             *)

\* "All three candidate sources honor scope identically", although each reads the tables by itself
\* and at its own time: what a search answers was, at some moment of it, an item of the caller's
\* workspace, of a memory type asked for and linked to an allowed hub; and what one way led to
\* from its first moment to its last is found, by whichever of the SELECTs, unless a LIMIT was
\* reached or the answer is full.
AnswersItsScope ==
  search.step = "answered" =>
    LET found == {search.evidence[i].item : i \in DOMAIN search.evidence}
    IN  /\ found \subseteq scoped.ever
        /\ ~search.cut /\ Len(search.evidence) < search.q.limit => {d[1] : d \in scoped.always} \subseteq found
=============================================================================
