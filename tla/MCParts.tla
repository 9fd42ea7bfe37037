------------------------------ MODULE MCParts --------------------------------
(***************************************************************************)
(* Instance for TLC of eight parts that do not interact: a behaviour is    *)
(* one of them, chosen with the initial state, while the others stand      *)
(* still.                                                                  *)
(* In a body, a stop that no whitespace follows is an ordinary character,  *)
(* so the alphabet needs no other.                                         *)
(***************************************************************************)
EXTENDS CanonicalBody, GraphHealth, EmbeddingHealth, ScorerCircuit, ClassifyPipeline, CircuitBreaker,
        ScopedRetrieval, DecisionLineage

VARIABLE subject

CONSTANTS c1, c2, h1, h2, blank, lf, cr, stop, wide

K(t, v) == [text |-> t, vector |-> v]
SomeBodies == {<<>>, <<K(TRUE, FALSE)>>, <<K(TRUE, TRUE), K(TRUE, FALSE)>>}
Empty ==
  [NothingRead EXCEPT !.content_chunks = [c \in Contents |-> <<>>], !.cb_hubs = [h \in Hubs |-> "one"]]
Began ==
  [Empty EXCEPT !.content_items = {c1}, !.content_chunks[c1] = <<K(FALSE, FALSE), K(TRUE, FALSE)>>,
                !.cb_hub_content = {<<h1, c1>>}, !.cb_edges = {<<c1, h1>>},
                !.cb_aliases = {<<"One", "uno">>}]
Grown ==
  [Began EXCEPT !.content_items = {c1, c2}, !.content_chunks[c2] = <<K(TRUE, TRUE)>>,
                !.cb_hubs[h2] = "two",
                !.cb_hub_edges = {[ends |-> <<h1, h2>>, status |-> "manual", archived |-> FALSE]},
                !.cb_alias_candidates = {[terms |-> <<"uno", "two">>, status |-> "pending"]}]
SomeDatabases == {Empty, Began, Grown}
SomeRelations == {<<c1, h1>>, <<c2, h1>>}
SomePairs == {<<h1, h2>>}
SomeNorms == [l \in {"one", "One", "uno", "two"} |-> IF l = "One" THEN "one" ELSE l]

\* The fields of a row and what they may be.
Values ==
  [id |-> {NoId, "item"}, source |-> SourceKinds, available |-> BOOLEAN, status |-> Statuses,
   present |-> {"none", "yes", "no"}, failure |-> BOOLEAN, reextract |-> BOOLEAN,
   text |-> {"none", "blank", "some"}, length |-> {"none", "zero", "some"}, score |-> ScoreKinds,
   clocks |-> {"none", "fresh", "stale", "malformed"}, unsafe |-> SUBSET {"adapter", "planner"},
   warned |-> BOOLEAN]
Vary(R) == R \cup UNION {{[r EXCEPT ![f] = v] : v \in Values[f]} : r \in R, f \in DOMAIN PlainRow}
OneField == Vary({PlainRow})
AllRows ==
  {NoRows, <<>>} \cup {<<r>> : r \in Vary(Vary(OneField))}
    \cup {<<r, q>> : r \in OneField, q \in Vary({[PlainRow EXCEPT !.id = "item"]})}

\* Contents for the classifier: up to three groups of patterns fire.
SomeOrders ==
  {<<"milestone", "decision", "principle", "anchor", "evidence", "plan_roadmap">>,
   <<"plan_roadmap", "principle", "evidence", "milestone", "anchor", "decision">>}

Groups == UNION {{<<type, g>> : g \in DOMAIN Weights[type]} : type \in MemoryTypes}
NodeTypes == {"none", "event", "decision", "fact", "concept", "task", "raw_note"}

\* The marks of a release are patterns of the third group of milestones.
Content(F, node_type, tier, marks, hits) ==
  [fired |-> [type \in MemoryTypes |-> {g \in DOMAIN Weights[type] : <<type, g>> \in F}],
   node_type |-> node_type, tier |-> tier,
   marks |-> marks \cup (IF <<"milestone", 3>> \in F THEN {"release"} ELSE {}),
   hits |-> hits, tagHits |-> <<0, 0>>, empty |-> FALSE, raises |-> FALSE]

Nothing == Content({}, "none", "working", {}, <<0, 0>>)
AllContents ==
  {[Nothing EXCEPT !.empty = TRUE], [Nothing EXCEPT !.raises = TRUE],
   [Nothing EXCEPT !.tagHits = <<0, 1>>, !.hits = <<2, 2>>]}
    \cup {Content(F, "none", tier, {}, <<0, 0>>) :
            F \in {{}} \cup {{a, b, c} : a, b, c \in Groups}, tier \in {"transient", "working"}}
    \cup {Content(F, n, tier, marks, hits) :
            F \in {{}} \cup {{a} : a \in Groups}, n \in NodeTypes,
            tier \in {"transient", "working"}, marks \in SUBSET {"schema apply", "scorecard", "schema"},
            hits \in {<<1, 0>>, <<2, 3>>}}

\* Supplied events: a few of every type, and a burst of failures with what follows it.
SomeBreaker ==
  [failure_threshold |-> 3, degraded_threshold |-> 2, half_open_successes_to_close |-> 1,
   window_seconds |-> 2, open_duration_seconds |-> 3]
SomePolicy ==
  [discard_max |-> 30, transient_max |-> 55, probationary_min |-> 55, persistent_min |-> 78,
   high_risk |-> 70, min_confidence |-> 45]
Supplied(types) == [type : types, at : 1 .. 4]
AllHistories ==
  UNION {[1 .. n -> Supplied({"failure", "success", "unavailable", "manual_reset"})] : n \in 0 .. 3}
    \cup {h \in [1 .. 4 -> Supplied({"failure", "success"})] :
            Cardinality({n \in 1 .. 4 : h[n].type = "failure"}) >= 3}
SomeScores == {[composite |-> 80, risk |-> 0, confidence |-> 50], [composite |-> 56, risk |-> 70, confidence |-> 40]}

\* Catalogs: an item of the hub named by the query, one of a hub without a workspace, one of another
\* workspace; an item without chunks; and a hub that is named like another's alias.
Piece(words, distance) == [words |-> words, distance |-> distance]
Named(workspace, title, aliases, related) ==
  [workspace |-> workspace, active |-> TRUE, title |-> title, aliases |-> aliases, related |-> related]
SomeLetters ==
  [w \in {"plan", "roadmap", "ops", "ad"} |->
     CASE w = "ad" -> 2 [] w = "ops" -> 3 [] w = "plan" -> 4 [] OTHER -> 7]
SomeNeighbours == [w \in DOMAIN SomeLetters |-> IF w = "plan" THEN {"roadmap", "ops"} ELSE {}]
Shelved ==
  [items |-> {1, 2, 3}, type |-> [e \in Entries |-> IF e = 1 THEN "decision" ELSE "NULL"],
   chunks |-> [e \in Entries |->
                 CASE e = 1 -> <<Piece({"plan"}, 20), Piece({"plan", "ops"}, NoVector)>>
                   [] e = 2 -> <<Piece({"roadmap"}, NoVector)>>
                   [] e = 3 -> <<Piece({"plan"}, 160)>>
                   [] OTHER -> <<>>],
   links |-> {<<h1, 1>>, <<h2, 2>>},
   topics |-> [h \in Topics |-> IF h = h1 THEN Named("own", "plan", {"roadmap"}, {"ops"})
                                ELSE Named("none", "ad", {"ops", "roadmap"}, {"plan"})]]
Unchunked ==
  [Shelved EXCEPT !.items = {1, 2}, !.chunks[1] = <<>>, !.links = {<<h1, 1>>}, !.topics[h2].workspace = "own"]
Crossed ==
  [Shelved EXCEPT !.type[2] = "fact", !.links = {<<h1, 2>>, <<h2, 2>>}, !.topics[h1].title = "roadmap",
                  !.chunks[2] = <<Piece({}, 20), Piece({"roadmap"}, NoVector)>>,
                  !.topics[h2] = Named("own", "plan", {}, {})]
SomeCatalogs == {Shelved, Unchunked, Crossed}

Question(query, legacy, types, hubs, limit) ==
  [query |-> query, memory_types |-> legacy, content_types |-> types, allowed_hubs |-> hubs,
   max_hops |-> 1, limit |-> limit]
SomeQuestions ==
  {Question(<<"plan">>, None, None, hubs, 3) : hubs \in {None, {h1}, {h2}, {}}}
    \cup {Question(<<"plan">>, None, None, None, 2)}
    \cup {Question(<<"plan", "ad">>, legacy, types, {h1}, 3) :
            legacy \in {None, {"decision"}}, types \in {None, {"decision"}, {"decision", "fact"}}}
    \cup {Question(<<"ops", "ad">>, None, {"fact"}, None, 1), Question(<<"ad">>, None, None, None, 3)}
    \cup {Question(<<"plan", "ad", "ops">>, None, None, None, 3),
          Question(<<"ops", "plan", "roadmap">>, None, None, {h1, h2}, 3)}
    \cup {[Question(<<"plan">>, None, None, {h2}, 3) EXCEPT !.max_hops = 0],
          [Question(<<"roadmap">>, None, None, {h1, h2}, 3) EXCEPT !.max_hops = 0],
          [Question(<<"ops">>, None, None, {h1}, 3) EXCEPT !.max_hops = 0]}
SomePieces ==
  {<<Piece({"plan", "roadmap"}, NoVector)>>, <<Piece({"ops"}, 160), Piece({"roadmap", "ops"}, 20)>>}

-----------------------------------------------------------------------------
\* TLC evaluates these sets once, where a constant would be evaluated each time it is used.
SomeRows == AllRows
SomeHistories == AllHistories
SomeContents == AllContents

Still == [t \in Threads |-> CHOOSE p \in Processes : TRUE]
AnyOrder == [p \in ClassifyProcesses |-> CHOOSE o \in Orders : TRUE]
AnyQuestion ==
  [events |-> <<>>, now |-> CHOOSE n \in Instants : TRUE, initial |-> "closed",
   score |-> CHOOSE r \in Scores : TRUE]
Subjects == {"body", "graph", "embeddings", "circuit", "classifier", "breaker", "search", "decisions"}

\* What a part that is not the subject starts and stays with.
Idles(part, Rests) == subject = part \/ (subject # part /\ Rests)

\* Processes are interchangeable: which of them runs the first thread makes no difference.
PartsInit ==
  /\ subject \in Subjects
  /\ Idles("body", raw = <<>>)
  /\ Idles("graph", db = Empty)
  /\ Idles("embeddings", supplied = NoRows)
  /\ Idles("circuit", home = Still)
  /\ Idles("classifier", content = Nothing /\ order = AnyOrder)
  /\ Idles("breaker", question = AnyQuestion)
  /\ Idles("search", catalog = Shelved)
  /\ LineageInit /\ RetrievalInit /\ ClassifyInit /\ EmbeddingInit /\ BreakerInit /\ CircuitInit /\ HealthInit /\ BodyInit
  /\ home[CHOOSE t \in Threads : TRUE] = CHOOSE p \in Processes : TRUE

BodyPart ==
  subject = "body" /\ BodyNext
    /\ UNCHANGED <<healthVars, embeddingVars, circuitVars, classifyVars, breakerVars, retrievalVars, lineageVars, subject>>
GraphPart ==
  subject = "graph" /\ HealthNext
    /\ UNCHANGED <<bodyVars, embeddingVars, circuitVars, classifyVars, breakerVars, retrievalVars, lineageVars, subject>>
EmbeddingPart ==
  subject = "embeddings" /\ EmbeddingNext
    /\ UNCHANGED <<bodyVars, healthVars, circuitVars, classifyVars, breakerVars, retrievalVars, lineageVars, subject>>
CircuitPart ==
  subject = "circuit" /\ CircuitNext
    /\ UNCHANGED <<bodyVars, healthVars, embeddingVars, classifyVars, breakerVars, retrievalVars, lineageVars, subject>>
ClassifierPart ==
  subject = "classifier" /\ ClassifyNext
    /\ UNCHANGED <<bodyVars, healthVars, embeddingVars, circuitVars, breakerVars, retrievalVars, lineageVars, subject>>
BreakerPart ==
  subject = "breaker" /\ BreakerNext
    /\ UNCHANGED <<bodyVars, healthVars, embeddingVars, circuitVars, classifyVars, retrievalVars, lineageVars, subject>>
SearchPart ==
  subject = "search" /\ RetrievalNext
    /\ UNCHANGED <<bodyVars, healthVars, embeddingVars, circuitVars, classifyVars, breakerVars, lineageVars, subject>>
DecisionPart ==
  subject = "decisions" /\ LineageNext
    /\ UNCHANGED <<bodyVars, healthVars, embeddingVars, circuitVars, classifyVars, breakerVars, retrievalVars, subject>>

PartsNext ==
  BodyPart \/ GraphPart \/ EmbeddingPart \/ CircuitPart \/ ClassifierPart \/ BreakerPart \/ SearchPart \/ DecisionPart
PartsSpec ==
  PartsInit /\ [][PartsNext]_<<bodyVars, healthVars, embeddingVars, circuitVars, classifyVars, breakerVars, retrievalVars, lineageVars, subject>>
=============================================================================
